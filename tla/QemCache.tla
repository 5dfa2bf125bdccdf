------------------------------ MODULE QemCache ------------------------------
(***************************************************************************)
(* The L1 cache of src/src/qem.rs in front of a MemoryBackend (L2), shared *)
(* by the tasks of one process.                                            *)
(*                                                                         *)
(* Three of its RwLocks matter.  Capture takes novelty, then by_code, then *)
(* associations; link takes by_code for reading, then associations;        *)
(* evict_by_id takes by_code, lets it go, and then takes associations.     *)
(* novelty and by_code are modelled as locks that are held from one action *)
(* to the next.  Nothing is ever acquired under associations, so whatever  *)
(* happens under it is one action.                                         *)
(*                                                                         *)
(* Abstracted: a QemCode is an element of Codes, and two contents may have *)
(* the same; strengths are left out, so which entry is weakest is a choice;*)
(* the associations are a set, so which one is oldest is a choice; the     *)
(* novelty window, whose verdict capture ignores, and the hit counters are *)
(* left out, and with them the calls that only read.                       *)
(***************************************************************************)
EXTENDS Naturals, FiniteSets

CONSTANTS
    Tasks,           \* concurrent callers
    Ids,             \* memory ids
    Codes,           \* QemCode values
    Relations,       \* relation codes
    NoTask, NoId, NoCode, NoRelation,
    MaxEntries,      \* QemConfig::max_entries
    MaxAssociations, \* QemConfig::max_associations
    WarmLimit        \* QemConfig::warm_limit

ASSUME NullAssumption == /\ NoTask \notin Tasks /\ NoId \notin Ids
                         /\ NoCode \notin Codes /\ NoRelation \notin Relations
ASSUME FiniteAssumption == IsFiniteSet(Codes) /\ IsFiniteSet(Ids) /\ IsFiniteSet(Relations)
ASSUME ConfigAssumption == /\ MaxEntries \in Nat \ {0} /\ MaxAssociations \in Nat \ {0}
                           /\ WarmLimit \in Nat

VARIABLES
    stored,       \* L2: the ids of the memories the backend holds
    byCode,       \* L1 by_code: code -> memory id, NoId where there is none
    associations, \* L1 associations
    novelty,      \* the task that holds the novelty lock
    writer,       \* the task that holds by_code for writing
    readers,      \* the tasks that hold by_code for reading
    pc,           \* task -> where its call is
    arg,          \* task -> what its call works on
    stale         \* task -> evicted codes whose associations it must drop

locks == <<novelty, writer, readers>>
vars == <<stored, byCode, associations, locks, pc, arg, stale>>

Association == [subject: Codes, relation: Relations, object: Codes, memory: Ids]
NoArg == [id |-> NoId, code |-> NoCode, relation |-> NoRelation,
          target |-> NoId, object |-> NoCode]
Arg == [id: Ids \cup {NoId}, code: Codes \cup {NoCode},
        relation: Relations \cup {NoRelation},
        target: Ids \cup {NoId}, object: Codes \cup {NoCode}]
PCs == {"idle", "accepted", "novelty", "inserting", "linked", "associating",
        "deleted", "cleaning"}

\* The cache, its locks and the running calls hold values of their kinds.
TypeOK ==
    /\ stored \subseteq Ids
    /\ byCode \in [Codes -> Ids \cup {NoId}]
    /\ associations \subseteq Association
    /\ novelty \in Tasks \cup {NoTask}
    /\ writer \in Tasks \cup {NoTask}
    /\ readers \subseteq Tasks
    /\ pc \in [Tasks -> PCs]
    /\ arg \in [Tasks -> Arg]
    /\ stale \in [Tasks -> SUBSET Codes]

Cached == {c \in Codes : byCode[c] # NoId}
CodesOf(i) == {c \in Codes : byCode[c] = i}

Goto(t, step) == pc' = [pc EXCEPT ![t] = step]
Return(t) ==
    /\ Goto(t, "idle")
    /\ arg' = [arg EXCEPT ![t] = NoArg]
    /\ stale' = [stale EXCEPT ![t] = {}]

\* by_code can be locked for writing, for reading.
Writable == writer = NoTask /\ readers = {}
Readable == writer = NoTask

\* The associations that mention no code of S.
Without(S) == {a \in associations : a.subject \notin S /\ a.object \notin S}

\* A cache that was warmed from L2 before its first use.
Init ==
    /\ stored \in SUBSET Ids
    /\ byCode \in [Codes -> stored \cup {NoId}]
    /\ Cardinality(Cached) <= WarmLimit
    /\ associations = {}
    /\ novelty = NoTask /\ writer = NoTask /\ readers = {}
    /\ pc = [t \in Tasks |-> "idle"]
    /\ arg = [t \in Tasks |-> NoArg]
    /\ stale = [t \in Tasks |-> {}]

-----------------------------------------------------------------------------
(***************************************************************************)
(* capture, and populate_l1 by a caller that wrote to L2 itself            *)
(***************************************************************************)

\* L2 accepts the entry. The backend returns Ok also for a capture it only
\* counted (noise, a duplicate), and then holds no memory of this id.
CaptureL2(t) ==
    /\ pc[t] = "idle"
    /\ \E i \in Ids, c \in Codes :
         /\ stored' \in {stored, stored \cup {i}}
         /\ arg' = [arg EXCEPT ![t] = [NoArg EXCEPT !.id = i, !.code = c]]
    /\ Goto(t, "accepted")
    /\ UNCHANGED <<byCode, associations, locks, stale>>

LockNovelty(t) ==
    /\ pc[t] = "accepted" /\ novelty = NoTask
    /\ novelty' = t
    /\ Goto(t, "novelty")
    /\ UNCHANGED <<stored, byCode, associations, writer, readers, arg, stale>>

\* Mutant: the limit is noticed one entry late.
EvictLate(t) ==
    /\ pc[t] = "novelty" /\ Writable
    /\ writer' = t
    /\ IF Cardinality(Cached) > MaxEntries
       THEN \E w \in Cached :
              /\ byCode' = [byCode EXCEPT ![w] = NoId]
              /\ stale' = [stale EXCEPT ![t] = {w}]
       ELSE UNCHANGED <<byCode, stale>>
    /\ Goto(t, "inserting")
    /\ UNCHANGED <<stored, associations, novelty, readers, arg>>

\* by_code is locked; at the limit some entry goes, even if the code to be
\* inserted is there already.
EvictWeakest(t) ==
    /\ pc[t] = "novelty" /\ Writable
    /\ writer' = t
    /\ IF Cardinality(Cached) >= MaxEntries
       THEN \E w \in Cached :
              /\ byCode' = [byCode EXCEPT ![w] = NoId]
              /\ stale' = [stale EXCEPT ![t] = {w}]
       ELSE UNCHANGED <<byCode, stale>>
    /\ Goto(t, "inserting")
    /\ UNCHANGED <<stored, associations, novelty, readers, arg>>

\* The evicted entry's associations go, the new entry takes its code, and
\* both locks are released.
Insert(t) ==
    /\ pc[t] = "inserting"
    /\ associations' = Without(stale[t])
    /\ byCode' = [byCode EXCEPT ![arg[t].code] = arg[t].id]
    /\ novelty' = NoTask /\ writer' = NoTask
    /\ Return(t)
    /\ UNCHANGED <<stored, readers>>

-----------------------------------------------------------------------------
(***************************************************************************)
(* link                                                                    *)
(***************************************************************************)
LinkL2(t) ==
    /\ pc[t] = "idle"
    /\ \E i, j \in stored, r \in Relations :
         arg' = [arg EXCEPT ![t] = [NoArg EXCEPT !.id = i, !.target = j, !.relation = r]]
    /\ Goto(t, "linked")
    /\ UNCHANGED <<stored, byCode, associations, locks, stale>>

\* Mutant: an association although the target has no entry.
FindSource(t) ==
    /\ pc[t] = "linked" /\ Readable
    /\ readers' = readers \cup {t}
    /\ \E c \in CodesOf(arg[t].id), d \in CodesOf(arg[t].target) \cup {NoCode} :
         arg' = [arg EXCEPT ![t].code = c, ![t].object = d]
    /\ Goto(t, "associating")
    /\ UNCHANGED <<stored, byCode, associations, novelty, writer, stale>>

\* Mutant: the read lock is let go before the association is made.
FindBothUnlocked(t) ==
    /\ pc[t] = "linked" /\ Readable
    /\ \E c \in CodesOf(arg[t].id), d \in CodesOf(arg[t].target) :
         arg' = [arg EXCEPT ![t].code = c, ![t].object = d]
    /\ Goto(t, "associating")
    /\ UNCHANGED <<stored, byCode, associations, locks, stale>>

\* by_code is read-locked and kept: both ends have an entry.
FindBoth(t) ==
    /\ pc[t] = "linked" /\ Readable
    /\ readers' = readers \cup {t}
    /\ \E c \in CodesOf(arg[t].id), d \in CodesOf(arg[t].target) :
         arg' = [arg EXCEPT ![t].code = c, ![t].object = d]
    /\ Goto(t, "associating")
    /\ UNCHANGED <<stored, byCode, associations, novelty, writer, stale>>

FindMissing(t) ==
    /\ pc[t] = "linked" /\ Readable
    /\ CodesOf(arg[t].id) = {} \/ CodesOf(arg[t].target) = {}
    /\ Return(t)
    /\ UNCHANGED <<stored, byCode, associations, locks>>

\* One association per subject and relation: an older one is replaced.
Others(s, r) == {a \in associations : ~(a.subject = s /\ a.relation = r)}

\* Mutant: the limit is noticed one association late.
CappedLate(S) == IF Cardinality(S) > MaxAssociations THEN {S \ {a} : a \in S} ELSE {S}

\* At the limit one association goes before another comes.
Capped(S) == IF Cardinality(S) >= MaxAssociations THEN {S \ {a} : a \in S} ELSE {S}

Associate(t) ==
    /\ pc[t] = "associating"
    /\ \E kept \in Capped(Others(arg[t].code, arg[t].relation)) :
         associations' = kept \cup
           {[subject |-> arg[t].code, relation |-> arg[t].relation,
             object |-> arg[t].object, memory |-> arg[t].target]}
    /\ readers' = readers \ {t}
    /\ Return(t)
    /\ UNCHANGED <<stored, byCode, novelty, writer>>

-----------------------------------------------------------------------------
(***************************************************************************)
(* Deletions: L2 first, then evict_by_id                                   *)
(***************************************************************************)
DeleteL2(t) ==
    /\ pc[t] = "idle"
    /\ \E i \in stored :
         /\ stored' = stored \ {i}
         /\ arg' = [arg EXCEPT ![t] = [NoArg EXCEPT !.id = i]]
    /\ Goto(t, "deleted")
    /\ UNCHANGED <<byCode, associations, locks, stale>>

\* Mutant: with no entry to remove, the call looks again and again.
EvictRetrying(t) ==
    /\ pc[t] = "deleted" /\ Writable
    /\ IF CodesOf(arg[t].id) = {}
       THEN UNCHANGED <<byCode, arg, stale, pc>>
       ELSE /\ byCode' = [c \in Codes |-> IF byCode[c] = arg[t].id THEN NoId ELSE byCode[c]]
            /\ stale' = [stale EXCEPT ![t] = CodesOf(arg[t].id)]
            /\ Goto(t, "cleaning")
            /\ UNCHANGED arg
    /\ UNCHANGED <<stored, associations, locks>>

\* by_code is locked for the removal only.
EvictEntries(t) ==
    /\ pc[t] = "deleted" /\ Writable
    /\ byCode' = [c \in Codes |-> IF byCode[c] = arg[t].id THEN NoId ELSE byCode[c]]
    /\ IF CodesOf(arg[t].id) = {}
       THEN Return(t)
       ELSE /\ stale' = [stale EXCEPT ![t] = CodesOf(arg[t].id)]
            /\ Goto(t, "cleaning")
            /\ UNCHANGED arg
    /\ UNCHANGED <<stored, associations, locks>>

CleanAssociations(t) ==
    /\ pc[t] = "cleaning"
    /\ associations' = Without(stale[t])
    /\ Return(t)
    /\ UNCHANGED <<stored, byCode, locks>>

\* consolidate goes straight to L2: what it prunes stays cached.
Consolidate(t) ==
    /\ pc[t] = "idle"
    /\ \E S \in SUBSET stored \ {{}} : stored' = stored \ S
    /\ UNCHANGED <<byCode, associations, locks, pc, arg, stale>>

-----------------------------------------------------------------------------
Capture(t) == CaptureL2(t) \/ LockNovelty(t) \/ EvictWeakest(t) \/ Insert(t)
Link(t) == LinkL2(t) \/ FindBoth(t) \/ FindMissing(t) \/ Associate(t)
Remove(t) == DeleteL2(t) \/ EvictEntries(t) \/ CleanAssociations(t) \/ Consolidate(t)

Next == \E t \in Tasks : Capture(t) \/ Link(t) \/ Remove(t)

Spec == Init /\ [][Next]_vars

\* The steps a task takes under locks it has, and those it waits for a lock
\* to take; a call is at one of them at a time.
Working(t) == Insert(t) \/ Associate(t) \/ CleanAssociations(t)
Waiting(t) == LockNovelty(t) \/ EvictWeakest(t) \/ FindBoth(t) \/ FindMissing(t) \/ EvictEntries(t)

\* A task that runs goes on, and one that waits for a lock gets it in the end
\* if it is free again and again (parking_lot hands its locks over fairly).
\* No task has to begin a call.
Fairness == \A t \in Tasks : WF_vars(Working(t)) /\ SF_vars(Waiting(t))

FairSpec == Spec /\ Fairness

-----------------------------------------------------------------------------
(***************************************************************************)
(* Properties                                                              *)
(***************************************************************************)

\* Both codes of an association are codes of cached entries, or codes some
\* task has just evicted and is about to drop the associations of: capture,
\* link and evict_by_id never leave one that nothing will clean up.
AssociationsBacked ==
    \A a \in associations : \A c \in {a.subject, a.object} :
        c \in Cached \/ \E t \in Tasks : c \in stale[t]

\* The limits hold however many captures and links run at the same time:
\* entries never outnumber max_entries (or what warm loaded, which checks no
\* limit), associations never outnumber max_associations.
WithinLimits ==
    /\ Cardinality(Cached) <= MaxEntries \/ Cardinality(Cached) <= WarmLimit
    /\ Cardinality(associations) <= MaxAssociations

\* Every call on the cache returns: no lock order deadlocks, and no lock is
\* kept by a call that has returned.
CallsReturn == \A t \in Tasks : pc[t] # "idle" ~> pc[t] = "idle"

=============================================================================
