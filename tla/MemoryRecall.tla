---------------------------- MODULE MemoryRecall ----------------------------
(***************************************************************************)
(* What EngramStore's reads show of a vault that changes under them        *)
(* (src/src/store.rs): search_related, which reads the links under one     *)
(* lock and the memories under the next, listings fetched page by page,    *)
(* the searches with their quarantine filter, and the links that captures, *)
(* edits and the backfill infer.                                           *)
(*                                                                         *)
(* One action is what runs under one lock of the connection.               *)
(*                                                                         *)
(* Abstracted: which memories match a query, who shares a source, session  *)
(* or tag, and every score are choices; two memories are near each other,  *)
(* or not, for good (constant Near).  Strength, rank and weight orders are *)
(* therefore any order; created_at, which pages are cut by, is kept.  Link *)
(* kinds are what inference tells apart: explicit stands for every kind a  *)
(* caller gave.  The capture gates and the index are in EngramVault.       *)
(***************************************************************************)
EXTENDS Naturals, FiniteSets

CONSTANTS
    Ids,         \* memory ids
    Callers,     \* callers of the slow reads
    NoId,
    Near,        \* pairs of ids whose vectors are similar enough
    Workloads,   \* sets of the calls the clients of one vault make
    Limit,       \* the limit of search_related and of the searches
    PageSize,    \* the limit of list
    MaxNeighbors,\* LinkInferenceConfig::max_links
    MaxTime,     \* bound: created_at values
    MaxLinks     \* bound: links stored at a time

CallNames == {"write",   \* captures and edits...
              "infer",   \* ... of memories that have a source in common
              "embed",   \* ... and vectors, stored with a capture or later
              "link", "delete", "backfill", "related", "list", "search"}
ASSUME RecallAssumption ==
    /\ IsFiniteSet(Ids) /\ NoId \notin Ids /\ Near \subseteq Ids \X Ids
    /\ \A p \in Near : <<p[2], p[1]>> \in Near
    /\ Workloads \subseteq SUBSET CallNames
    /\ Limit \in Nat /\ PageSize \in Nat \ {0} /\ MaxNeighbors \in Nat
    /\ MaxTime \in Nat \ {0} /\ MaxLinks \in Nat

VARIABLES
    calls,   \* the workload, chosen once
    status,  \* id -> absent, live, or quarantined (imagined and not grounded)
    created, \* id -> created_at, 0 where there is no row
    links,   \* pair of ids -> link kind, None where there is no link
    vectors, \* the ids that have an embedding
    asked,   \* caller -> search_related between its two locks
    paging,  \* caller -> a listing under way
    shown    \* the answer the last step gave, if it gave one

tables == <<status, created, links, vectors>>
vars == <<calls, tables, asked, paging, shown>>

Times == 1..MaxTime
Kinds == {"explicit", "temporal", "associative"}
None == "none"
Statuses == {"absent", "live", "quarantined"}
Filters == {"All", "LiveOnly", "QuarantinedOnly"}
NotAsked == [of |-> NoId, targets |-> {}]
NotPaging == [filter |-> "All", offset |-> 0, seen |-> {}, due |-> {},
              left |-> 0, entered |-> 0, repeated |-> 0, open |-> FALSE]
Surfaces == {"nothing", "related", "list", "layer", "content", "tags", "fallback",
             "vector", "context", "duplicates", "stale", "backend"}
Silent == [surface |-> "nothing", live |-> FALSE, ids |-> {}]
Count == 0..Cardinality(Ids)

\* Every variable holds a value of its kind, and no call more than its limit.
TypeOK ==
    /\ calls \in Workloads
    /\ status \in [Ids -> Statuses]
    /\ created \in [Ids -> 0..MaxTime]
    /\ links \in [Ids \X Ids -> Kinds \cup {None}]
    /\ vectors \subseteq Ids
    /\ asked \in [Callers -> [of: Ids \cup {NoId}, targets: SUBSET Ids]]
    /\ \A c \in Callers : Cardinality(asked[c].targets) <= Limit
    /\ paging \in [Callers -> [filter: Filters, offset: Nat, seen: SUBSET Ids,
                               due: SUBSET Ids, left: Count, entered: Count,
                               repeated: Count, open: BOOLEAN]]
    /\ shown \in [surface: Surfaces, live: BOOLEAN, ids: SUBSET Ids]

\* QuarantineFilter.
Kept(filter, s) ==
    {i \in Ids : /\ s[i] # "absent"
                 /\ filter = "LiveOnly" => s[i] = "live"
                 /\ filter = "QuarantinedOnly" => s[i] = "quarantined"}
Stored == Kept("All", status)
LiveIds == Kept("LiveOnly", status)

Linked(L, i) == {j \in Ids : L[<<i, j>>] # None}
Neighbors(i) == {j \in vectors \ {i} : <<i, j>> \in Near}

\* The first n of S in an order that is left open.
Best(n, S) == {B \in SUBSET S : Cardinality(B) = n \/ (Cardinality(S) < n /\ B = S)}

Capped(n) == IF n > Cardinality(Ids) THEN Cardinality(Ids) ELSE n

\* What is listed under a filter before and after a step, at the same date.
Unmoved(filter) ==
    {i \in Kept(filter, status) \cap Kept(filter, status') : created'[i] = created[i]}

\* History of a listing: how many memories have left and entered what it
\* lists, one that is dated anew having done both, and which of those it
\* began with have stayed.
Watch ==
    paging' = [c \in Callers |->
        LET p == paging[c]  same == Unmoved(p.filter)
        IN  IF ~p.open THEN p
            ELSE [p EXCEPT !.due = @ \cap same,
                           !.left = Capped(@ + Cardinality(Kept(p.filter, status) \ same)),
                           !.entered = Capped(@ + Cardinality(Kept(p.filter, status') \ same))]]

Change ==
    /\ Cardinality({p \in Ids \X Ids : links'[p] # None}) <= MaxLinks
    /\ Watch
    /\ shown' = Silent /\ UNCHANGED <<calls, asked>>

Init ==
    /\ calls \in Workloads
    /\ status = [i \in Ids |-> "absent"]
    /\ created = [i \in Ids |-> 0]
    /\ links = [p \in Ids \X Ids |-> None]
    /\ vectors = {}
    /\ asked = [c \in Callers |-> NotAsked]
    /\ paging = [c \in Callers |-> NotPaging]
    /\ shown = Silent

-----------------------------------------------------------------------------
(***************************************************************************)
(* Writes and the links they infer                                         *)
(***************************************************************************)

\* A link to no memory is none, and no caller links a memory to itself.
With(L, P, kind) == [p \in Ids \X Ids |-> IF p \in P THEN kind ELSE L[p]]

\* Mutant: the heuristics do not look at what is linked already.
FillAlways(L, i, prev, like) ==
    LET one == With(L, {<<i, prev>>}, "temporal")
    IN  With(one, {<<i, like>>}, "associative")

\* generate_links: the temporal predecessor and the best tag match, neither
\* where i has had a link already (read once, before both).
FillGaps(L, i, prev, like) ==
    LET one == IF prev \in Linked(L, i) THEN L ELSE With(L, {<<i, prev>>}, "temporal")
    IN  IF like \in Linked(L, i) THEN one ELSE With(one, {<<i, like>>}, "associative")

Kin(i) == {NoId} \cup IF "infer" \in calls THEN Stored \ {i} ELSE {}

\* generate_semantic_links: both ways to the nearest memories that are live.
Semantic(L, i, T) == With(L, ({i} \X T) \cup (T \X {i}), "associative")

\* Whoever writes brings created_at, of an edit too; it matters to listings
\* only, where no two memories have the same.
Stamps(i) ==
    IF "list" \in calls THEN {t \in Times : \A j \in Stored \ {i} : created[j] # t} ELSE {1}

\* A write: the row, its vector if it carries one, the explicit links whose
\* targets exist, the semantic links of a capture with a vector, and the
\* heuristic ones, which an edit of an old memory generates like a capture.
Write(i) ==
    /\ "write" \in calls
    /\ \E s \in Statuses \ {"absent"} : status' = [status EXCEPT ![i] = s]
    /\ \E t \in Stamps(i) : created' = [created EXCEPT ![i] = t]
    /\ \E fresh \in (IF "embed" \in calls THEN BOOLEAN ELSE {FALSE}) :
         /\ vectors' = IF fresh THEN vectors \cup {i} ELSE vectors
         /\ \E carried \in SUBSET (IF "link" \in calls THEN Stored \ {i} ELSE {}),
               near \in Best(IF fresh THEN MaxNeighbors ELSE 0, Neighbors(i) \cap LiveIds),
               prev \in Kin(i), like \in Kin(i) :
              links' = FillGaps(Semantic(With(links, {i} \X carried, "explicit"), i, near),
                                i, prev, like)
    /\ Change

Link(i, j) ==
    /\ "link" \in calls /\ i # j /\ {i, j} \subseteq Stored
    /\ links' = With(links, {<<i, j>>}, "explicit")
    /\ UNCHANGED <<status, created, vectors>>
    /\ Change

Delete(i) ==
    /\ "delete" \in calls /\ i \in Stored
    /\ status' = [status EXCEPT ![i] = "absent"]
    /\ created' = [created EXCEPT ![i] = 0]
    /\ links' = With(links, ({i} \X Ids) \cup (Ids \X {i}), None)
    /\ vectors' = vectors \ {i}
    /\ Change

Embed(i) ==
    /\ "embed" \in calls /\ i \in Stored
    /\ vectors' = vectors \cup {i}
    /\ UNCHANGED <<status, created, links>>
    /\ Change

\* Every live memory with a vector to its nearest; an earlier link of the
\* pair is replaced, whatever its kind.
Backfill ==
    /\ "backfill" \in calls
    /\ \E nearest \in [LiveIds \cap vectors -> SUBSET (LiveIds \cap vectors)] :
         /\ \A i \in LiveIds \cap vectors :
              nearest[i] \in Best(MaxNeighbors, Neighbors(i) \cap LiveIds)
         /\ links' = With(links, {p \in Ids \X Ids : p[1] \in LiveIds \cap vectors
                                                     /\ p[2] \in nearest[p[1]]}, "associative")
    /\ UNCHANGED <<status, created, vectors>>
    /\ Change

-----------------------------------------------------------------------------
(***************************************************************************)
(* search_related                                                          *)
(***************************************************************************)

\* The rows a read returns, turned into engrams: the model keeps their ids.
Show(surface, live, ids) == shown' = [surface |-> surface, live |-> live, ids |-> ids]

\* Mutant: the links are not cut at the limit.
ReadAllLinks(c, i) ==
    /\ "related" \in calls /\ asked[c] = NotAsked
    /\ asked' = [asked EXCEPT ![c] = [of |-> i, targets |-> Linked(links, i)]]
    /\ shown' = Silent
    /\ UNCHANGED <<calls, tables, paging>>

\* get_links, under its own lock, cut at the limit.
ReadLinks(c, i) ==
    /\ "related" \in calls /\ asked[c] = NotAsked
    /\ \E T \in Best(Limit, Linked(links, i)) :
         asked' = [asked EXCEPT ![c] = [of |-> i, targets |-> T]]
    /\ shown' = Silent
    /\ UNCHANGED <<calls, tables, paging>>

\* The live neighbours of i that are not among the ids found already.
Fallback(i, found) ==
    IF i \in vectors THEN (Neighbors(i) \cap LiveIds) \ found ELSE {}

\* get_inner: of the ids read earlier, those still stored, live or not.
Found(T) == T \cap Stored

\* Mutant: the links are answered as they were read.
AnswerAsRead(c) ==
    /\ asked[c] # NotAsked
    /\ \E more \in Best(Limit - Cardinality(asked[c].targets),
                        Fallback(asked[c].of, asked[c].targets)) :
         Show("related", TRUE, asked[c].targets \cup more)
    /\ asked' = [asked EXCEPT ![c] = NotAsked]
    /\ UNCHANGED <<calls, tables, paging>>

\* Under the next lock: the targets still stored, and live neighbours by
\* vector where they do not fill the limit.
Answer(c) ==
    /\ asked[c] # NotAsked
    /\ LET found == Found(asked[c].targets)
       IN  \E more \in Best(Limit - Cardinality(found), Fallback(asked[c].of, found)) :
              Show("related", TRUE, found \cup more)
    /\ asked' = [asked EXCEPT ![c] = NotAsked]
    /\ UNCHANGED <<calls, tables, paging>>

-----------------------------------------------------------------------------
(***************************************************************************)
(* Listings and searches                                                   *)
(***************************************************************************)

Rank(i, S) == Cardinality({j \in S : created[j] > created[i]})

\* Mutant: the filter is applied to a page instead of in its query.
PageFilteredLate(filter, offset) ==
    {i \in Stored : Rank(i, Stored) \in offset..(offset + PageSize - 1)}
        \cap Kept(filter, status)

\* ORDER BY created_at DESC LIMIT PageSize OFFSET offset.
Page(filter, offset) ==
    LET S == Kept(filter, status)
    IN  {i \in S : Rank(i, S) \in offset..(offset + PageSize - 1)}

\* The caller asks for a listing and walks it from the top.
StartList(c) ==
    /\ "list" \in calls /\ ~paging[c].open
    /\ \E f \in Filters :
         paging' = [paging EXCEPT ![c] = [NotPaging EXCEPT !.filter = f, !.open = TRUE,
                                                           !.due = Kept(f, status)]]
    /\ shown' = Silent
    /\ UNCHANGED <<calls, tables, asked>>

\* A short page is the last one.
NextPage(c) ==
    /\ paging[c].open
    /\ LET p == paging[c]  page == Page(p.filter, p.offset)
       IN  /\ paging' = [paging EXCEPT ![c] =
                 [p EXCEPT !.offset = @ + PageSize, !.seen = @ \cup page,
                           !.repeated = Capped(@ + Cardinality(page \cap p.seen)),
                           !.open = Cardinality(page) = PageSize]]
           /\ Show("list", p.filter = "LiveOnly", page)
    /\ UNCHANGED <<calls, tables, asked>>

\* A search shows at most Limit of the memories that match.
Shows(surface, live, S) == \E ids \in Best(Limit, S) : Show(surface, live, ids)

\* By layer, content or tags, under a filter in the query.
ShowsKept(surface, match) ==
    \E f \in Filters : Shows(surface, f = "LiveOnly", match \cap Kept(f, status))
SearchLayer(match) == ShowsKept("layer", match)
SearchContent(match) == ShowsKept("content", match)
SearchTags(match) == ShowsKept("tags", match)

\* By LIKE, where FTS5 cannot parse the query: whatever filter the caller gave.
SearchLike(match) == \E f \in Filters : Shows("fallback", f = "LiveOnly", match \cap Stored)

\* By vector, and by the context a turn brings: there is no filter to give.
SearchVector(match) == Shows("vector", FALSE, match \cap vectors)
SearchContext(match) == Shows("context", FALSE, match \cap Stored)

Pairs(S) == {{p[1], p[2]} : p \in {q \in Near : q[1] # q[2] /\ {q[1], q[2]} \subseteq S}}

\* The decay report: pairs of near duplicates, among live memories, and
\* memories that read like a stale working state, under no filter.
SearchDuplicates(match) ==
    \E P \in Best(Limit, Pairs(match \cap vectors \cap LiveIds)) :
        Show("duplicates", TRUE, UNION P)
SearchStale(match) == Shows("stale", FALSE, match \cap Stored)

\* Through MemoryBackend there is no filter either. The store cuts at the
\* limit and then drops what is too weak; the adapter drops first.
SearchStore(match) ==
    \E weak \in SUBSET match, ids \in Best(Limit, match \cap Stored) :
        Show("backend", FALSE, ids \ weak)
SearchAdapter(match) ==
    \E weak \in SUBSET match : Shows("backend", FALSE, (match \cap Stored) \ weak)

Search ==
    /\ "search" \in calls
    /\ \E match \in SUBSET Ids :
         \/ SearchLayer(match) \/ SearchContent(match) \/ SearchTags(match)
         \/ SearchLike(match) \/ SearchVector(match) \/ SearchContext(match)
         \/ SearchDuplicates(match) \/ SearchStale(match) \/ SearchStore(match)
         \/ SearchAdapter(match)
    /\ UNCHANGED <<calls, tables, asked, paging>>

-----------------------------------------------------------------------------
Writes(i) == Write(i) \/ Delete(i) \/ Embed(i) \/ \E j \in Ids : Link(i, j)
Read(c) == Answer(c) \/ StartList(c) \/ NextPage(c) \/ \E i \in Ids : ReadLinks(c, i)

Next == (\E i \in Ids : Writes(i)) \/ Backfill \/ (\E c \in Callers : Read(c)) \/ Search

Spec == Init /\ [][Next]_vars

-----------------------------------------------------------------------------
(***************************************************************************)
(* Properties                                                              *)
(***************************************************************************)

\* A listing by pages misses no more memories than left it, or were dated
\* anew, while it was walked, and repeats no more than entered it or were:
\* without writes in between the pages are the whole listing, once.
PagesAddUp ==
    \A c \in Callers :
      LET p == paging[c]
      IN  /\ ~p.open => Cardinality(p.due \ p.seen) <= p.left
          /\ p.repeated <= p.entered

\* A link a caller gave is not overwritten by the heuristics: only vector
\* similarity, in a capture or the backfill, replaces it.
GivenLinksKept ==
    [][\A i, j \in Ids :
         (links[<<i, j>>] = "explicit" /\ {i, j} \subseteq Kept("All", status'))
           => \/ links'[<<i, j>>] = "explicit"
              \/ links'[<<i, j>>] = "associative" /\ {i, j} \subseteq vectors']_vars

\* An answer of search_related is current although its links were read
\* earlier: it holds stored memories only, live ones where they were not
\* linked, keeps the limit, and leaves room only when every live neighbour is
\* in it.
RelatedCurrent ==
    [][\A c \in Callers :
         (asked[c] # NotAsked /\ asked'[c] = NotAsked)
           => /\ shown'.ids \subseteq Stored
              /\ shown'.ids \ asked[c].targets \subseteq LiveIds
              /\ Cardinality(shown'.ids) <= Limit
              /\ Cardinality(shown'.ids) < Limit
                   => Fallback(asked[c].of, shown'.ids) = {}]_vars

\* What is asked for live, and every related memory, is live, however memories
\* are quarantined between the links and the answer.
LiveSurface == shown.live => shown.ids \subseteq LiveIds

=============================================================================
