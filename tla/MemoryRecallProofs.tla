------------------------- MODULE MemoryRecallProofs -------------------------
(***************************************************************************)
(* What the reads of a changing vault guarantee for any number of          *)
(* memories, callers and links, any limits, and any mix of calls.          *)
(*                                                                         *)
(* A search answers from one state of the vault, and search_related from   *)
(* one with the targets it read in an earlier one, so their properties     *)
(* follow from the types.  A listing is walked over many states: its       *)
(* argument counts, at each place the walk has reached, the memories that  *)
(* slipped past it and those that will come twice.                         *)
(***************************************************************************)
EXTENDS MemoryRecall, FiniteSetTheorems, FunctionTheorems, TLAPS

\* No two memories of a vault that is listed were created at the same time,
\* and only such a vault has a listing under way.
Dated ==
    /\ "list" \in calls => \A i, j \in Stored : created[i] = created[j] => i = j
    /\ \A c \in Callers : paging[c].open => "list" \in calls

\* The parts of TypeOK: the tables, what the callers carry, the last answer.
TablesOK ==
    /\ calls \in Workloads
    /\ status \in [Ids -> Statuses]
    /\ created \in [Ids -> 0..MaxTime]
    /\ links \in [Ids \X Ids -> Kinds \cup {None}]
    /\ vectors \subseteq Ids
AskedOK ==
    /\ asked \in [Callers -> [of: Ids \cup {NoId}, targets: SUBSET Ids]]
    /\ \A c \in Callers : Cardinality(asked[c].targets) <= Limit
Walk == [filter: Filters, offset: Nat, seen: SUBSET Ids, due: SUBSET Ids, left: Count,
         entered: Count, repeated: Count, open: BOOLEAN]
PagingOK == paging \in [Callers -> Walk]
ShownOK == shown \in [surface: Surfaces, live: BOOLEAN, ids: SUBSET Ids]

Typed == TypeOK /\ Dated

LEMMA TypeParts ==
    /\ TypeOK <=> TablesOK /\ AskedOK /\ PagingOK /\ ShownOK
    /\ TypeOK' <=> TablesOK' /\ AskedOK' /\ PagingOK' /\ ShownOK'
BY DEF TypeOK, TablesOK, AskedOK, PagingOK, Walk, ShownOK

LEMMA Numbers ==
    /\ IsFiniteSet(Ids) /\ NoId \notin Ids
    /\ Limit \in Nat /\ MaxNeighbors \in Nat
    /\ PageSize \in Nat /\ PageSize > 0 /\ MaxTime \in Nat /\ MaxTime > 0
    /\ Cardinality(Ids) \in Nat /\ Count = 0..Cardinality(Ids)
BY RecallAssumption, FS_CardinalityType DEF Count

\* Sets of memories are finite.
LEMMA Counted ==
    ASSUME NEW S \in SUBSET Ids
    PROVE  /\ IsFiniteSet(S)
           /\ Cardinality(S) \in Count /\ Cardinality(S) \in Nat
           /\ Cardinality(S) = 0 <=> S = {}
BY Numbers, FS_Subset, FS_CardinalityType, FS_EmptySet

LEMMA Smaller ==
    ASSUME NEW S \in SUBSET Ids, NEW T \in SUBSET S
    PROVE  Cardinality(T) <= Cardinality(S)
BY Counted, FS_Subset

LEMMA CappedCount ==
    ASSUME NEW n \in Nat
    PROVE  /\ Capped(n) \in Count
           /\ Capped(n) <= n
           /\ Capped(n) = n \/ Capped(n) = Cardinality(Ids)
BY Numbers DEF Capped

LEMMA KeptIds ==
    ASSUME NEW f, NEW s
    PROVE  Kept(f, s) \subseteq Ids
BY DEF Kept

\* What the best of S is: a part of S, as large as asked for or all of it.
LEMMA BestPart ==
    ASSUME NEW n \in Nat, NEW S \in SUBSET Ids, NEW B \in Best(n, S)
    PROVE  /\ B \subseteq S
           /\ Cardinality(B) <= n
           /\ Cardinality(B) < n => B = S
           /\ n = 0 => B = {}
BY Counted DEF Best

LEMMA WithType ==
    ASSUME NEW L \in [Ids \X Ids -> Kinds \cup {None}], NEW P, NEW kind \in Kinds \cup {None}
    PROVE  With(L, P, kind) \in [Ids \X Ids -> Kinds \cup {None}]
BY DEF With

LEMMA FillGapsType ==
    ASSUME NEW L \in [Ids \X Ids -> Kinds \cup {None}], NEW i, NEW prev, NEW like
    PROVE  FillGaps(L, i, prev, like) \in [Ids \X Ids -> Kinds \cup {None}]
<1> DEFINE one == IF prev \in Linked(L, i) THEN L ELSE With(L, {<<i, prev>>}, "temporal")
<1>1. one \in [Ids \X Ids -> Kinds \cup {None}]
  BY WithType DEF Kinds
<1>2. FillGaps(L, i, prev, like) =
        IF like \in Linked(L, i) THEN one ELSE With(one, {<<i, like>>}, "associative")
  BY DEF FillGaps
<1> HIDE DEF one
<1>3. With(one, {<<i, like>>}, "associative") \in [Ids \X Ids -> Kinds \cup {None}]
  BY <1>1, WithType DEF Kinds
<1> QED
  BY <1>1, <1>2, <1>3

-----------------------------------------------------------------------------
(***************************************************************************)
(* Types                                                                   *)
(***************************************************************************)
LEMMA InitTyped == Init => Typed
<1> SUFFICES ASSUME Init PROVE Typed
  OBVIOUS
<1>1. TablesOK
  BY Numbers DEF Init, TablesOK, Statuses, None
<1>2. AskedOK
  <2>1. Cardinality({}) <= Limit
    BY Numbers, FS_EmptySet
  <2> QED
    BY <2>1 DEF Init, AskedOK, NotAsked
<1>3. PagingOK
  BY Numbers DEF Init, PagingOK, Walk, NotPaging, Filters
<1>4. ShownOK
  BY DEF Init, ShownOK, Silent, Surfaces
<1>5. Dated
  BY DEF Init, Dated, Stored, Kept, NotPaging
<1> QED
  BY <1>1, <1>2, <1>3, <1>4, <1>5, TypeParts DEF Typed

\* Watch keeps what it does not count.
LEMMA WatchKeeps ==
    ASSUME PagingOK, Watch, NEW c \in Callers
    PROVE  /\ paging'[c] \in Walk
           /\ paging'[c].open = paging[c].open
           /\ paging'[c].filter = paging[c].filter
           /\ paging'[c].offset = paging[c].offset
           /\ paging'[c].seen = paging[c].seen
           /\ paging'[c].repeated = paging[c].repeated
<1> DEFINE p == paging[c]
           old == Kept(p.filter, status)
           new == Kept(p.filter, status')
           same == Unmoved(p.filter)
           q == [p EXCEPT !.due = @ \cap same,
                          !.left = Capped(@ + Cardinality(old \ same)),
                          !.entered = Capped(@ + Cardinality(new \ same))]
<1>1. p \in Walk
  BY DEF PagingOK
<1>2. paging'[c] = IF ~p.open THEN p ELSE q
  BY DEF Watch
<1>3. old \ same \subseteq Ids /\ new \ same \subseteq Ids
  BY KeptIds
<1>4. Cardinality(old \ same) \in Nat /\ Cardinality(new \ same) \in Nat
  BY <1>3, Counted
<1> HIDE DEF old, new, same
<1>0. p.left \in Nat /\ p.entered \in Nat
  BY <1>1, Numbers DEF Walk
<1>5. /\ Capped(p.left + Cardinality(old \ same)) \in Count
      /\ Capped(p.entered + Cardinality(new \ same)) \in Count
  <2> HIDE DEF p, q
  <2>1. /\ p.left + Cardinality(old \ same) \in Nat
        /\ p.entered + Cardinality(new \ same) \in Nat
    BY <1>0, <1>4
  <2> QED
    BY <2>1, CappedCount
<1>6. q \in Walk /\ q.open = p.open /\ q.filter = p.filter /\ q.offset = p.offset
      /\ q.seen = p.seen /\ q.repeated = p.repeated
  BY <1>1, <1>5 DEF Walk
<1> QED
  BY <1>1, <1>2, <1>6

LEMMA WatchTyped ==
    ASSUME PagingOK, Watch
    PROVE  PagingOK'
<1>1. paging' = [c \in Callers |-> paging'[c]]
  BY DEF Watch
<1> QED
  BY <1>1, WatchKeeps DEF PagingOK

\* A change of the tables keeps all types if it keeps theirs.
LEMMA ChangeTyped ==
    ASSUME Typed, Change, TablesOK',
           "list" \in calls => \A i, j \in Stored' : created'[i] = created'[j] => i = j
    PROVE  Typed'
<1>1. AskedOK' /\ calls' = calls
  BY TypeParts DEF Change, Typed, AskedOK
<1>2. ShownOK'
  BY DEF Change, ShownOK, Silent, Surfaces
<1>3. PagingOK' /\ \A c \in Callers : paging'[c].open = paging[c].open
  BY TypeParts, WatchTyped, WatchKeeps DEF Change, Typed
<1>4. Dated'
  BY <1>1, <1>3 DEF Typed, Dated
<1> QED
  BY <1>1, <1>2, <1>3, <1>4, TypeParts DEF Typed

\* What is written is dated apart from whatever else is stored.
LEMMA StampsApart ==
    ASSUME Typed, NEW i \in Ids, NEW t \in Stamps(i), NEW s \in Statuses \ {"absent"},
           status' = [status EXCEPT ![i] = s], created' = [created EXCEPT ![i] = t]
    PROVE  /\ t \in 0..MaxTime
           /\ "list" \in calls => \A j, k \in Stored' : created'[j] = created'[k] => j = k
<1>0. TablesOK /\ Dated
  BY TypeParts DEF Typed
<1>1. t \in 0..MaxTime
  BY <1>0, Numbers DEF Stamps, TablesOK, Times
<1>2. Stored' = Stored \cup {i}
  BY <1>0 DEF Stored, Kept, TablesOK, Statuses
<1>3. ASSUME "list" \in calls, NEW j \in Stored, j # i PROVE created[j] # t
  BY <1>3 DEF Stamps
<1>4. ASSUME "list" \in calls, NEW j \in Stored', NEW k \in Stored', created'[j] = created'[k]
      PROVE  j = k
  <2>1. Stored \subseteq Ids
    BY KeptIds DEF Stored
  <2> QED
    BY <1>0, <1>2, <1>3, <1>4, <2>1 DEF TablesOK, Dated
<1> QED
  BY <1>1, <1>4

\* The links a write leaves.
LEMMA WriteType ==
    ASSUME Typed, NEW i \in Ids, Write(i)
    PROVE  Typed'
<1>0. TablesOK
  BY TypeParts DEF Typed
<1>1. PICK s \in Statuses \ {"absent"}, t \in Stamps(i) :
        status' = [status EXCEPT ![i] = s] /\ created' = [created EXCEPT ![i] = t]
  BY DEF Write
<1>2. /\ t \in 0..MaxTime
      /\ "list" \in calls => \A j, k \in Stored' : created'[j] = created'[k] => j = k
  BY <1>1, StampsApart
<1>3. links' \in [Ids \X Ids -> Kinds \cup {None}] /\ vectors' \subseteq Ids
  <2>1. PICK carried, near, prev, like :
          links' = FillGaps(Semantic(With(links, {i} \X carried, "explicit"), i, near),
                            i, prev, like)
    BY DEF Write
  <2>2. With(links, {i} \X carried, "explicit") \in [Ids \X Ids -> Kinds \cup {None}]
    BY <1>0, WithType DEF TablesOK, Kinds
  <2>3. Semantic(With(links, {i} \X carried, "explicit"), i, near)
          \in [Ids \X Ids -> Kinds \cup {None}]
    BY <2>2, WithType DEF Semantic, Kinds
  <2> QED
    BY <1>0, <2>1, <2>3, FillGapsType DEF Write, TablesOK
<1>4. TablesOK'
  BY <1>0, <1>1, <1>2, <1>3 DEF TablesOK, Write, Change
<1> QED
  BY <1>2, <1>4, ChangeTyped DEF Write

\* The changes that date no memory anew.
LEMMA TablesType ==
    ASSUME Typed, \/ \E i \in Ids : Delete(i) \/ Embed(i) \/ \E j \in Ids : Link(i, j)
                  \/ Backfill
    PROVE  Typed'
<1>0. TablesOK /\ Dated
  BY TypeParts DEF Typed
<1>1. Stored \subseteq Ids
  BY KeptIds DEF Stored
<1>2. ASSUME NEW i \in Ids, Delete(i) PROVE Typed'
  <2>1. links' \in [Ids \X Ids -> Kinds \cup {None}]
    BY <1>0, <1>2, WithType DEF Delete, TablesOK
  <2>2. status' \in [Ids -> Statuses]
    BY <1>0, <1>2 DEF Delete, TablesOK, Statuses
  <2>3. created' \in [Ids -> 0..MaxTime]
    BY <1>0, <1>2, Numbers DEF Delete, TablesOK
  <2>4. TablesOK'
    BY <1>0, <1>2, <2>1, <2>2, <2>3 DEF Delete, TablesOK, Change
  <2>5. Stored' = Stored \ {i} /\ \A j \in Ids \ {i} : created'[j] = created[j]
    BY <1>0, <1>2 DEF Delete, TablesOK, Stored, Kept
  <2>6. calls' = calls
    BY <1>2 DEF Delete, Change
  <2>7. "list" \in calls => \A j, k \in Stored' : created'[j] = created'[k] => j = k
    BY <1>0, <1>1, <2>5 DEF Dated
  <2> QED
    BY <1>2, <2>4, <2>7, ChangeTyped DEF Delete
<1>3. ASSUME NEW i \in Ids, NEW j \in Ids, Link(i, j) PROVE Typed'
  <2>1. TablesOK'
    BY <1>0, <1>3, WithType DEF Link, TablesOK, Change, Kinds
  <2> QED
    BY <1>0, <1>3, <2>1, ChangeTyped DEF Link, Dated, Stored, Kept
<1>4. ASSUME NEW i \in Ids, Embed(i) PROVE Typed'
  <2>1. TablesOK'
    BY <1>0, <1>4 DEF Embed, TablesOK, Change
  <2> QED
    BY <1>0, <1>4, <2>1, ChangeTyped DEF Embed, Dated, Stored, Kept
<1>5. CASE Backfill
  <2>1. links' \in [Ids \X Ids -> Kinds \cup {None}]
    <3>1. PICK nearest : links' = With(links, {p \in Ids \X Ids : p[1] \in LiveIds \cap vectors
                                          /\ p[2] \in nearest[p[1]]}, "associative")
      BY <1>5 DEF Backfill
    <3> QED
      BY <1>0, <3>1, WithType DEF TablesOK, Kinds
  <2>2. TablesOK'
    BY <1>0, <1>5, <2>1 DEF Backfill, TablesOK, Change
  <2> QED
    BY <1>0, <1>5, <2>2, ChangeTyped DEF Backfill, Dated, Stored, Kept
<1> QED
  BY <1>2, <1>3, <1>4, <1>5

\* The reads that leave all listings alone.
LEMMA RelatedType ==
    ASSUME Typed, NEW c \in Callers, Answer(c) \/ \E i \in Ids : ReadLinks(c, i)
    PROVE  Typed'
<1>0. TablesOK /\ AskedOK /\ PagingOK /\ Dated
  BY TypeParts DEF Typed
<1>1. TablesOK' /\ PagingOK' /\ Dated'
  BY <1>0 DEF Answer, ReadLinks, tables, TablesOK, PagingOK, Dated, Stored, Kept
<1>2. ASSUME NEW i \in Ids, ReadLinks(c, i) PROVE AskedOK' /\ ShownOK'
  <2>1. PICK T \in Best(Limit, Linked(links, i)) :
          asked' = [asked EXCEPT ![c] = [of |-> i, targets |-> T]]
    BY <1>2 DEF ReadLinks
  <2>2. Linked(links, i) \subseteq Ids
    BY DEF Linked
  <2>3. T \subseteq Ids /\ Cardinality(T) <= Limit
    BY <2>2, BestPart, Numbers
  <2>4. AskedOK'
    BY <1>0, <2>1, <2>3 DEF AskedOK
  <2> QED
    BY <1>2, <2>4 DEF ReadLinks, ShownOK, Silent, Surfaces
<1>3. CASE Answer(c)
  <2>1. AskedOK'
    BY <1>0, <1>3, Numbers, FS_EmptySet DEF Answer, AskedOK, NotAsked
  <2>2. ShownOK'
    <3>1. PICK more \in Best(Limit - Cardinality(Found(asked[c].targets)),
                             Fallback(asked[c].of, Found(asked[c].targets))) :
            shown' = [surface |-> "related", live |-> TRUE,
                      ids |-> Found(asked[c].targets) \cup more]
      BY <1>3 DEF Answer, Show
    <3>2. Found(asked[c].targets) \subseteq Ids
      BY KeptIds DEF Found, Stored
    <3>3. more \subseteq Ids
      BY KeptIds DEF Best, Fallback, LiveIds
    <3> QED
      BY <3>1, <3>2, <3>3 DEF Surfaces, ShownOK
  <2> QED
    BY <1>1, <2>1, <2>2, TypeParts DEF Typed
<1> QED
  BY <1>1, <1>2, <1>3, TypeParts DEF Typed

LEMMA PageIds == ASSUME NEW f, NEW n PROVE Page(f, n) \subseteq Kept(f, status)
BY DEF Page

\* What a listing is when it begins and after a page.
LEMMA StartListTo ==
    ASSUME PagingOK, NEW c \in Callers, StartList(c)
    PROVE  \E f \in Filters :
             /\ paging' = [paging EXCEPT ![c] = paging'[c]]
             /\ paging'[c] \in Walk
             /\ paging'[c] = [NotPaging EXCEPT !.filter = f, !.open = TRUE, !.due = Kept(f, status)]
<1>1. PICK f \in Filters :
        paging' = [paging EXCEPT ![c] = [NotPaging EXCEPT !.filter = f, !.open = TRUE,
                                                          !.due = Kept(f, status)]]
  BY DEF StartList
<1>2. [NotPaging EXCEPT !.filter = f, !.open = TRUE, !.due = Kept(f, status)] \in Walk
  <2>1. 0 \in Count /\ {} \subseteq Ids /\ Kept(f, status) \subseteq Ids
    BY KeptIds, Numbers
  <2> QED
    BY <2>1 DEF NotPaging, Walk
<1> QED
  BY <1>1, <1>2 DEF PagingOK

LEMMA NextPageTo ==
    ASSUME PagingOK, NEW c \in Callers, NextPage(c)
    PROVE  LET p == paging[c]
               page == Page(p.filter, p.offset)
           IN  /\ page \subseteq Ids
               /\ paging' = [paging EXCEPT ![c] = paging'[c]]
               /\ paging'[c] \in Walk
               /\ paging'[c].filter = p.filter /\ paging'[c].due = p.due
               /\ paging'[c].left = p.left /\ paging'[c].entered = p.entered
               /\ paging'[c].offset = p.offset + PageSize
               /\ paging'[c].seen = p.seen \cup page
               /\ paging'[c].repeated = Capped(p.repeated + Cardinality(page \cap p.seen))
               /\ paging'[c].open = (Cardinality(page) = PageSize)
<1> DEFINE p == paging[c]
           page == Page(p.filter, p.offset)
           q == [p EXCEPT !.offset = @ + PageSize, !.seen = @ \cup page,
                          !.repeated = Capped(@ + Cardinality(page \cap p.seen)),
                          !.open = Cardinality(page) = PageSize]
<1>1. p \in Walk /\ page \subseteq Ids
  BY PageIds, KeptIds DEF PagingOK
<1>2. paging' = [paging EXCEPT ![c] = q]
  BY DEF NextPage
<1>3. Cardinality(page \cap p.seen) \in Nat
  BY <1>1, Counted
<1> HIDE DEF page
<1>4. Capped(p.repeated + Cardinality(page \cap p.seen)) \in Count
  <2>1. p.repeated \in Nat
    BY <1>1, Numbers DEF Walk
  <2> HIDE DEF p
  <2> QED
    BY <2>1, <1>3, CappedCount
<1>5. q \in Walk
  <2> DEFINE r == Capped(p.repeated + Cardinality(page \cap p.seen))
  <2>1. r \in Count
    BY <1>4
  <2>2. p.offset + PageSize \in Nat /\ p.seen \cup page \subseteq Ids
    BY <1>1, Numbers DEF Walk
  <2> HIDE DEF r
  <2>3. [p EXCEPT !.offset = @ + PageSize, !.seen = @ \cup page, !.repeated = r,
                  !.open = Cardinality(page) = PageSize] \in Walk
    <3> HIDE DEF p
    <3> QED
      BY <1>1, <2>1, <2>2 DEF Walk
  <2> QED
    BY <2>3 DEF r
<1>6. paging'[c] = q
  BY <1>2 DEF PagingOK
<1>7. /\ q.filter = p.filter /\ q.due = p.due /\ q.left = p.left /\ q.entered = p.entered
      /\ q.offset = p.offset + PageSize /\ q.seen = p.seen \cup page
      /\ q.repeated = Capped(p.repeated + Cardinality(page \cap p.seen))
      /\ q.open = (Cardinality(page) = PageSize)
  BY <1>1 DEF Walk
<1> HIDE DEF q
<1> QED
  BY <1>1, <1>2, <1>5, <1>6, <1>7 DEF page

LEMMA ListType ==
    ASSUME Typed, NEW c \in Callers, StartList(c) \/ NextPage(c)
    PROVE  Typed'
<1>0. TablesOK /\ AskedOK /\ PagingOK /\ Dated
  BY TypeParts DEF Typed
<1>1. TablesOK' /\ AskedOK' /\ calls' = calls /\ status' = status /\ created' = created
  BY <1>0 DEF StartList, NextPage, tables, TablesOK, AskedOK
<1>2. "list" \in calls
  BY <1>0 DEF StartList, NextPage, Dated
<1>3. Dated'
  BY <1>0, <1>1, <1>2 DEF Dated, Stored, Kept
<1>4. PagingOK'
  BY <1>0, StartListTo, NextPageTo DEF PagingOK
<1>5. CASE StartList(c)
  BY <1>1, <1>3, <1>4, <1>5, TypeParts DEF Typed, StartList, ShownOK, Silent, Surfaces
<1>6. CASE NextPage(c)
  <2>1. Page(paging[c].filter, paging[c].offset) \subseteq Ids
    BY <1>0, <1>6, NextPageTo
  <2>2. ShownOK'
    BY <1>6, <2>1 DEF NextPage, Show, ShownOK, Surfaces
  <2> QED
    BY <1>1, <1>3, <1>4, <2>2, TypeParts DEF Typed
<1> QED
  BY <1>5, <1>6

\* A search shows memories, and moves nothing.
LEMMA BestIds ==
    ASSUME NEW n, NEW S \in SUBSET Ids, NEW B \in Best(n, S)
    PROVE  B \subseteq S /\ B \subseteq Ids
BY DEF Best

LEMMA PairsIds ==
    ASSUME NEW S, NEW n, NEW P \in Best(n, Pairs(S))
    PROVE  UNION P \subseteq S
BY DEF Best, Pairs

LEMMA SearchShows ==
    ASSUME Typed, Search
    PROVE  ShownOK'
<1>0. TablesOK /\ Stored \subseteq Ids /\ LiveIds \subseteq Ids /\ vectors \subseteq Ids
  BY TypeParts, KeptIds DEF Typed, Stored, LiveIds, TablesOK
<1>2. PICK match \in SUBSET Ids :
         \/ SearchLayer(match) \/ SearchContent(match) \/ SearchTags(match)
         \/ SearchLike(match) \/ SearchVector(match) \/ SearchContext(match)
         \/ SearchDuplicates(match) \/ SearchStale(match) \/ SearchStore(match)
         \/ SearchAdapter(match)
  BY DEF Search
<1>3. ASSUME NEW surface \in Surfaces, NEW live \in BOOLEAN, NEW ids \in SUBSET Ids,
             Show(surface, live, ids)
      PROVE  ShownOK'
  BY <1>3 DEF Show, ShownOK
<1>4. ASSUME NEW surface \in {"layer", "content", "tags"}, ShowsKept(surface, match)
      PROVE  ShownOK'
  <2>0. PICK f \in Filters : Shows(surface, f = "LiveOnly", match \cap Kept(f, status))
    BY <1>4 DEF ShowsKept
  <2>1. PICK ids \in Best(Limit, match \cap Kept(f, status)) : Show(surface, f = "LiveOnly", ids)
    BY <2>0 DEF Shows
  <2>2. ids \subseteq match \cap Kept(f, status) /\ ids \subseteq Ids
    BY BestIds
  <2> DEFINE live == f = "LiveOnly"
  <2>3. live \in BOOLEAN /\ Show(surface, live, ids)
    BY <2>1
  <2>4. surface \in Surfaces
    BY DEF Surfaces
  <2> HIDE DEF live
  <2> QED
    BY <1>3, <2>2, <2>3, <2>4
<1>5. CASE SearchLike(match)
  <2>1. PICK f \in Filters, ids \in Best(Limit, match \cap Stored) :
          Show("fallback", f = "LiveOnly", ids)
    BY <1>5 DEF SearchLike, Shows
  <2>2. ids \subseteq Ids
    BY BestIds
  <2> DEFINE live == f = "LiveOnly"
  <2>3. live \in BOOLEAN /\ Show("fallback", live, ids) /\ "fallback" \in Surfaces
    BY <2>1 DEF Surfaces
  <2> HIDE DEF live
  <2> QED
    BY <1>3, <2>2, <2>3
<1>6. ASSUME NEW surface \in {"vector", "context", "stale"}, NEW S \in SUBSET Ids,
             Shows(surface, FALSE, match \cap S)
      PROVE  ShownOK'
  <2>1. PICK ids \in Best(Limit, match \cap S) : Show(surface, FALSE, ids)
    BY <1>6 DEF Shows
  <2>2. ids \subseteq Ids
    BY BestIds
  <2> QED
    BY <1>3, <2>1, <2>2 DEF Surfaces
<1>7. CASE SearchDuplicates(match)
  <2>1. PICK P \in Best(Limit, Pairs(match \cap vectors \cap LiveIds)) :
          Show("duplicates", TRUE, UNION P)
    BY <1>7 DEF SearchDuplicates
  <2>2. UNION P \subseteq match \cap vectors \cap LiveIds
    BY PairsIds
  <2>3. UNION P \subseteq Ids
    BY <2>2
  <2> QED
    BY <1>3, <2>1, <2>3 DEF Surfaces
<1>8. CASE SearchStore(match)
  <2>1. PICK weak \in SUBSET match, ids \in Best(Limit, match \cap Stored) :
          Show("backend", FALSE, ids \ weak)
    BY <1>8 DEF SearchStore
  <2> DEFINE strong == ids \ weak
  <2>2. strong \subseteq Ids /\ Show("backend", FALSE, strong)
    BY <2>1, BestIds
  <2>3. "backend" \in Surfaces /\ FALSE \in BOOLEAN
    BY DEF Surfaces
  <2> HIDE DEF strong
  <2> QED
    BY <1>3, <2>2, <2>3
<1>9. CASE SearchAdapter(match)
  <2>1. PICK weak \in SUBSET match : Shows("backend", FALSE, (match \cap Stored) \ weak)
    BY <1>9 DEF SearchAdapter
  <2>2. PICK ids \in Best(Limit, (match \cap Stored) \ weak) : Show("backend", FALSE, ids)
    BY <2>1 DEF Shows
  <2>3. ids \subseteq Ids
    BY BestIds
  <2> QED
    BY <1>3, <2>2, <2>3 DEF Surfaces
<1> QED
  BY <1>0, <1>2, <1>4, <1>5, <1>6, <1>7, <1>8, <1>9
     DEF SearchLayer, SearchContent, SearchTags, SearchVector, SearchContext, SearchStale

LEMMA SearchType == Typed /\ Search => Typed'
<1> SUFFICES ASSUME Typed, Search PROVE Typed'
  OBVIOUS
<1>1. TablesOK' /\ AskedOK' /\ PagingOK' /\ Dated'
  BY TypeParts DEF Typed, Search, tables, TablesOK, AskedOK, PagingOK, Dated, Stored, Kept
<1> QED
  BY <1>1, SearchShows, TypeParts DEF Typed

LEMMA StepTyped == Typed /\ [Next]_vars => Typed'
<1> SUFFICES ASSUME Typed, [Next]_vars PROVE Typed'
  OBVIOUS
<1>1. ASSUME NEW i \in Ids, Writes(i) PROVE Typed'
  BY <1>1, WriteType, TablesType DEF Writes
<1>2. CASE Backfill
  BY <1>2, TablesType
<1>3. ASSUME NEW c \in Callers, Read(c) PROVE Typed'
  BY <1>3, RelatedType, ListType DEF Read
<1>4. CASE Search
  BY <1>4, SearchType
<1>5. CASE UNCHANGED vars
  BY <1>5, TypeParts DEF Typed, vars, tables, TablesOK, AskedOK, PagingOK, ShownOK, Dated,
                        Stored, Kept
<1> QED
  BY <1>1, <1>2, <1>3, <1>4, <1>5 DEF Next

LEMMA AlwaysTyped == Spec => []Typed
BY InitTyped, StepTyped, PTL DEF Spec

\* Whatever is captured, edited, deleted, linked and read: ids, dates, links
\* and answers stay what the tables and the reads can hold, and no caller of
\* search_related carries more targets than the limit.
THEOREM TypeCorrect == Spec => []TypeOK
BY AlwaysTyped, PTL DEF Typed

-----------------------------------------------------------------------------
(***************************************************************************)
(* The links callers gave                                                  *)
(***************************************************************************)

\* Where there is a link, the heuristics leave it as it is.
LEMMA FillGapsKeeps ==
    ASSUME NEW L \in [Ids \X Ids -> Kinds \cup {None}], NEW a, NEW prev, NEW like,
           NEW i \in Ids, NEW j \in Ids, L[<<i, j>>] # None
    PROVE  FillGaps(L, a, prev, like)[<<i, j>>] = L[<<i, j>>]
<1> DEFINE one == IF prev \in Linked(L, a) THEN L ELSE With(L, {<<a, prev>>}, "temporal")
<1>1. i = a => j \in Linked(L, a)
  BY DEF Linked
<1>2. one[<<i, j>>] = L[<<i, j>>]
  BY <1>1 DEF With
<1> HIDE DEF one
<1>3. like \notin Linked(L, a)
        => With(one, {<<a, like>>}, "associative")[<<i, j>>] = one[<<i, j>>]
  BY <1>1 DEF With
<1>4. FillGaps(L, a, prev, like) =
        IF like \in Linked(L, a) THEN one ELSE With(one, {<<a, like>>}, "associative")
  BY DEF FillGaps, one
<1> QED
  BY <1>2, <1>3, <1>4

\* What a write does to a link a caller gave.
LEMMA WriteLinks ==
    ASSUME Typed, NEW k \in Ids, Write(k), NEW i \in Ids, NEW j \in Ids,
           links[<<i, j>>] = "explicit"
    PROVE  \/ links'[<<i, j>>] = "explicit"
           \/ links'[<<i, j>>] = "associative" /\ {i, j} \subseteq vectors'
<1>0. TablesOK
  BY TypeParts DEF Typed
<1>1. PICK fresh \in (IF "embed" \in calls THEN BOOLEAN ELSE {FALSE}) :
        /\ vectors' = IF fresh THEN vectors \cup {k} ELSE vectors
        /\ \E carried \in SUBSET (IF "link" \in calls THEN Stored \ {k} ELSE {}),
              near \in Best(IF fresh THEN MaxNeighbors ELSE 0, Neighbors(k) \cap LiveIds),
              prev \in Kin(k), like \in Kin(k) :
             links' = FillGaps(Semantic(With(links, {k} \X carried, "explicit"), k, near),
                               k, prev, like)
  BY DEF Write
<1>2. PICK carried \in SUBSET (IF "link" \in calls THEN Stored \ {k} ELSE {}),
           near \in Best(IF fresh THEN MaxNeighbors ELSE 0, Neighbors(k) \cap LiveIds),
           prev \in Kin(k), like \in Kin(k) :
        links' = FillGaps(Semantic(With(links, {k} \X carried, "explicit"), k, near),
                          k, prev, like)
  BY <1>1
<1> DEFINE given == With(links, {k} \X carried, "explicit")
           L == Semantic(given, k, near)
<1>3. given \in [Ids \X Ids -> Kinds \cup {None}] /\ given[<<i, j>>] = "explicit"
  BY <1>0, WithType DEF With, TablesOK, Kinds
<1>4. near \subseteq vectors /\ (~fresh => near = {})
  <2>1. (Neighbors(k) \cap LiveIds) \subseteq Ids /\ Neighbors(k) \subseteq vectors
    BY <1>0 DEF Neighbors, TablesOK
  <2>2. near \subseteq Neighbors(k) \cap LiveIds
    BY DEF Best
  <2>3. ~fresh => near = {}
    BY <2>1, BestPart
  <2> QED
    BY <2>1, <2>2, <2>3
<1>5. L \in [Ids \X Ids -> Kinds \cup {None}]
  BY <1>3, WithType DEF Semantic, Kinds
<1>6. \/ L[<<i, j>>] = "explicit"
      \/ L[<<i, j>>] = "associative" /\ <<i, j>> \in ({k} \X near) \cup (near \X {k})
  BY <1>3 DEF Semantic, With
<1>7. <<i, j>> \in ({k} \X near) \cup (near \X {k}) => {i, j} \subseteq vectors'
  BY <1>1, <1>4
<1>8. links' = FillGaps(L, k, prev, like)
  BY <1>2
<1> HIDE DEF given, L
<1>9. links'[<<i, j>>] = L[<<i, j>>]
  <2>1. L[<<i, j>>] # None
    BY <1>6 DEF None
  <2>2. FillGaps(L, k, prev, like)[<<i, j>>] = L[<<i, j>>]
    BY <1>5, <2>1, FillGapsKeeps
  <2> QED
    BY <1>8, <2>2
<1> QED
  BY <1>6, <1>7, <1>9

LEMMA StepGivenLinks ==
    ASSUME Typed, [Next]_vars, NEW i \in Ids, NEW j \in Ids,
           links[<<i, j>>] = "explicit", {i, j} \subseteq Kept("All", status')
    PROVE  \/ links'[<<i, j>>] = "explicit"
           \/ links'[<<i, j>>] = "associative" /\ {i, j} \subseteq vectors'
<1>0. TablesOK
  BY TypeParts DEF Typed
<1>1. ASSUME links' = links PROVE links'[<<i, j>>] = "explicit"
  BY <1>1
<1>2. ASSUME NEW k \in Ids, Write(k)
      PROVE  \/ links'[<<i, j>>] = "explicit"
             \/ links'[<<i, j>>] = "associative" /\ {i, j} \subseteq vectors'
  BY <1>2, WriteLinks
<1>3. ASSUME NEW k \in Ids, Delete(k) PROVE links'[<<i, j>>] = "explicit"
  <2>1. i # k /\ j # k
    BY <1>0, <1>3 DEF Delete, Kept, TablesOK
  <2> QED
    BY <1>3, <2>1 DEF Delete, With
<1>4. ASSUME NEW k \in Ids, NEW m \in Ids, Link(k, m) PROVE links'[<<i, j>>] = "explicit"
  BY <1>4 DEF Link, With
<1>5. ASSUME Backfill
      PROVE  \/ links'[<<i, j>>] = "explicit"
             \/ links'[<<i, j>>] = "associative" /\ {i, j} \subseteq vectors'
  <2>1. PICK nearest \in [LiveIds \cap vectors -> SUBSET (LiveIds \cap vectors)] :
          links' = With(links, {p \in Ids \X Ids : p[1] \in LiveIds \cap vectors
                                                   /\ p[2] \in nearest[p[1]]}, "associative")
    BY <1>5 DEF Backfill
  <2>2. vectors' = vectors
    BY <1>5 DEF Backfill
  <2> QED
    BY <2>1, <2>2 DEF With
<1>6. ASSUME NEW c \in Callers, Read(c) PROVE links' = links
  BY <1>6 DEF Read, Answer, StartList, NextPage, ReadLinks, tables
<1> QED
  BY <1>1, <1>2, <1>3, <1>4, <1>5, <1>6 DEF Next, Writes, Embed, Search, vars, tables

\* As long as both memories are stored, a link a caller gave is replaced by
\* the similarity of their vectors and by nothing else: not by the temporal
\* and tag heuristics of any capture or edit, nor by another caller's links.
THEOREM GivenLinks == Spec => GivenLinksKept
<1>1. Typed /\ [Next]_vars
        => [\A i, j \in Ids :
              (links[<<i, j>>] = "explicit" /\ {i, j} \subseteq Kept("All", status'))
                => \/ links'[<<i, j>>] = "explicit"
                   \/ links'[<<i, j>>] = "associative" /\ {i, j} \subseteq vectors']_vars
  BY StepGivenLinks
<1> QED
  BY <1>1, AlwaysTyped, PTL DEF Spec, GivenLinksKept

-----------------------------------------------------------------------------
(***************************************************************************)
(* search_related                                                          *)
(***************************************************************************)
LEMMA AnswerCurrent ==
    ASSUME Typed, NEW c \in Callers, Answer(c)
    PROVE  /\ shown'.ids \subseteq Stored
           /\ shown'.ids \ asked[c].targets \subseteq LiveIds
           /\ Cardinality(shown'.ids) <= Limit
           /\ Cardinality(shown'.ids) < Limit => Fallback(asked[c].of, shown'.ids) = {}
<1> DEFINE T == asked[c].targets
           found == Found(T)
           rest == Fallback(asked[c].of, found)
<1>1. T \subseteq Ids /\ Cardinality(T) <= Limit
  BY TypeParts DEF Typed, AskedOK
<1>2. found \subseteq T /\ found \subseteq Stored /\ found \subseteq Ids
  BY <1>1 DEF Found
<1>3. rest \subseteq LiveIds /\ rest \cap found = {} /\ rest \subseteq Ids
  BY KeptIds DEF Fallback, LiveIds
<1>4. PICK more \in Best(Limit - Cardinality(found), rest) : shown'.ids = found \cup more
  BY DEF Answer, Show
<1>5. LiveIds \subseteq Stored
  BY DEF LiveIds, Stored, Kept
<1> HIDE DEF found
<1>6. Cardinality(found) \in Nat /\ Cardinality(found) <= Limit
  <2>1. Cardinality(found) <= Cardinality(T)
    BY <1>1, <1>2, Smaller
  <2> HIDE DEF T
  <2> QED
    BY <1>1, <1>2, <2>1, Counted, Numbers
<1> HIDE DEF rest
<1>7. Limit - Cardinality(found) \in Nat
  BY <1>6, Numbers
<1>8. /\ more \subseteq rest /\ more \subseteq Ids
      /\ Cardinality(more) <= Limit - Cardinality(found)
      /\ Cardinality(more) < Limit - Cardinality(found) => more = rest
  BY <1>3, <1>7, BestPart
<1>9. Cardinality(found \cup more) = Cardinality(found) + Cardinality(more)
  <2>1. found \cap more = {}
    BY <1>3, <1>8
  <2>2. IsFiniteSet(found) /\ IsFiniteSet(more) /\ Cardinality(found) \in Nat /\ Cardinality(more) \in Nat
    BY <1>2, <1>8, Counted
  <2>3. Cardinality(found \cup more)
          = Cardinality(found) + Cardinality(more) - Cardinality(found \cap more)
    BY <2>2, FS_Union
  <2>4. Cardinality(found \cap more) = 0
    BY <2>1, FS_EmptySet
  <2> QED
    BY <2>2, <2>3, <2>4
<1>10. Cardinality(more) \in Nat
  BY <1>8, Counted
<1>11. Cardinality(found \cup more) < Limit => more = rest
  BY <1>6, <1>8, <1>9, <1>10, Numbers
<1>12. more = rest => Fallback(asked[c].of, found \cup more) = {}
  BY DEF Fallback, rest
<1>13. Cardinality(found \cup more) <= Limit
  BY <1>6, <1>8, <1>9, <1>10, Numbers
<1> QED
  BY <1>2, <1>3, <1>4, <1>5, <1>8, <1>11, <1>12, <1>13

\* Only an answer ends a search_related.
LEMMA AnswersOnly ==
    ASSUME Typed, [Next]_vars, NEW c \in Callers, asked[c] # NotAsked, asked'[c] = NotAsked
    PROVE  Answer(c)
<1>0. AskedOK
  BY TypeParts DEF Typed
<1>1. asked' # asked
  OBVIOUS
<1>2. PICK d \in Callers : Answer(d) \/ \E i \in Ids : ReadLinks(d, i)
  BY <1>1 DEF Next, Writes, Write, Link, Delete, Embed, Backfill, Change, Read, StartList,
              NextPage, Search, vars
<1>3. ASSUME NEW i \in Ids, ReadLinks(d, i) PROVE FALSE
  <2>1. asked[d] = NotAsked /\ \E T : asked' = [asked EXCEPT ![d] = [of |-> i, targets |-> T]]
    BY <1>3 DEF ReadLinks
  <2>2. c # d
    BY <2>1
  <2> QED
    BY <1>0, <2>1, <2>2 DEF AskedOK
<1>4. d = c
  BY <1>0, <1>2, <1>3 DEF Answer, AskedOK
<1> QED
  BY <1>2, <1>3, <1>4

\* search_related answers from the vault as it is under its second lock,
\* whatever was written since it read the links: what it returns is stored,
\* what was not linked is live, and the limit is kept and used.
THEOREM Related == Spec => RelatedCurrent
<1>1. ASSUME Typed, [Next]_vars, NEW c \in Callers, asked[c] # NotAsked, asked'[c] = NotAsked
      PROVE  /\ shown'.ids \subseteq Stored
             /\ shown'.ids \ asked[c].targets \subseteq LiveIds
             /\ Cardinality(shown'.ids) <= Limit
             /\ Cardinality(shown'.ids) < Limit
                  => Fallback(asked[c].of, shown'.ids) = {}
  BY <1>1, AnswersOnly, AnswerCurrent
<1>2. Typed /\ [Next]_vars
        => [\A c \in Callers :
              (asked[c] # NotAsked /\ asked'[c] = NotAsked)
                => /\ shown'.ids \subseteq Stored
                   /\ shown'.ids \ asked[c].targets \subseteq LiveIds
                   /\ Cardinality(shown'.ids) <= Limit
                   /\ Cardinality(shown'.ids) < Limit
                        => Fallback(asked[c].of, shown'.ids) = {}]_vars
  BY <1>1
<1> QED
  BY <1>2, AlwaysTyped, PTL DEF Spec, RelatedCurrent

-----------------------------------------------------------------------------
(***************************************************************************)
(* Places in a listing, for any dates                                      *)
(***************************************************************************)

\* Rank, of the dates d: the place of i among S, the newest first.
Newer(d, i, S) == {j \in S : d[j] > d[i]}
Place(d, i, S) == Cardinality(Newer(d, i, S))

\* The members of S have dates, no two the same.
Apart(d, S) ==
    /\ S \subseteq Ids /\ \A i \in S : d[i] \in Nat
    /\ \A i, j \in S : d[i] = d[j] => i = j

LEMMA PlaceType ==
    ASSUME NEW S \in SUBSET Ids, NEW d, NEW i
    PROVE  Place(d, i, S) \in Nat
<1>1. Newer(d, i, S) \subseteq Ids
  BY DEF Newer
<1> QED
  BY <1>1, Counted DEF Place

\* A newer memory comes first.
LEMMA NewerFirst ==
    ASSUME NEW S, NEW d, Apart(d, S), NEW i \in S, NEW j \in S, d[i] < d[j]
    PROVE  Place(d, j, S) < Place(d, i, S)
<1>1. Newer(d, j, S) \subseteq Newer(d, i, S) /\ Newer(d, i, S) \subseteq Ids
  BY DEF Newer, Apart
<1>2. j \in Newer(d, i, S) /\ j \notin Newer(d, j, S)
  BY DEF Newer, Apart
<1>3. /\ Cardinality(Newer(d, j, S)) <= Cardinality(Newer(d, i, S))
      /\ Cardinality(Newer(d, j, S)) # Cardinality(Newer(d, i, S))
  BY <1>1, <1>2, Counted, FS_Subset
<1> QED
  BY <1>1, <1>3, Counted DEF Place

LEMMA OnePlace ==
    ASSUME NEW S, NEW d, Apart(d, S), NEW i \in S, NEW j \in S, Place(d, i, S) = Place(d, j, S)
    PROVE  i = j
<1>1. Place(d, i, S) \in Nat /\ Place(d, j, S) \in Nat
  BY PlaceType DEF Apart
<1>2. ~(d[i] < d[j]) /\ ~(d[j] < d[i])
  BY <1>1, NewerFirst
<1> QED
  BY <1>2 DEF Apart

LEMMA PlaceBelow ==
    ASSUME NEW S, NEW d, Apart(d, S), NEW i \in S
    PROVE  Place(d, i, S) \in 0..(Cardinality(S) - 1)
<1>1. Newer(d, i, S) \subseteq S /\ i \notin Newer(d, i, S) /\ S \subseteq Ids
  BY DEF Newer, Apart
<1>2. /\ Cardinality(Newer(d, i, S)) <= Cardinality(S)
      /\ Cardinality(Newer(d, i, S)) # Cardinality(S)
  BY <1>1, Counted, FS_Subset
<1> QED
  BY <1>1, <1>2, Counted DEF Place

\* Every place before the last is taken.
LEMMA EveryPlace ==
    ASSUME NEW S, NEW d, Apart(d, S), NEW n \in 0..(Cardinality(S) - 1)
    PROVE  \E i \in S : Place(d, i, S) = n
<1> DEFINE at == [i \in S |-> Place(d, i, S)]
           places == 0..(Cardinality(S) - 1)
<1>1. Cardinality(S) \in Nat /\ IsFiniteSet(S)
  BY Counted DEF Apart
<1>2. at \in Injection(S, places)
  <2>1. at \in [S -> places]
    BY PlaceBelow
  <2>2. ASSUME NEW i \in S, NEW j \in S, at[i] = at[j] PROVE i = j
    BY <2>2, OnePlace
  <2> QED
    BY <2>1, <2>2 DEF Injection, IsInjective
<1>3. IsFiniteSet(places) /\ Cardinality(places) = Cardinality(S)
  <2>1. 0 \in Int /\ Cardinality(S) - 1 \in Int
    BY <1>1
  <2>2. /\ IsFiniteSet(places)
        /\ Cardinality(places) = IF 0 > Cardinality(S) - 1 THEN 0 ELSE Cardinality(S) - 1 - 0 + 1
    BY <2>1, FS_Interval
  <2> QED
    BY <1>1, <2>2
<1> HIDE DEF places, at
<1>4. at \in Surjection(S, places)
  BY <1>2, <1>3, FS_Injection
<1>5. \E i \in S : at[i] = n
  BY <1>4 DEF Surjection, places
<1> QED
  BY <1>5 DEF at

\* Dates that are the same on S put it in the same order.
LEMMA SamePlaces ==
    ASSUME NEW S, NEW d, NEW e, \A i \in S : d[i] = e[i], NEW i \in S
    PROVE  Place(d, i, S) = Place(e, i, S)
<1>1. Newer(d, i, S) = Newer(e, i, S)
  BY DEF Newer
<1> QED
  BY <1>1 DEF Place

\* A memory more shifts those it is newer than by one place.
LEMMA PlaceWith ==
    ASSUME NEW S, NEW d, NEW e, NEW i \in Ids \ S, Apart(d, S), Apart(e, S \cup {i}),
           \A j \in S : d[j] = e[j], NEW j \in S
    PROVE  Place(e, j, S \cup {i}) = Place(d, j, S) + (IF e[i] > e[j] THEN 1 ELSE 0)
<1>1. Newer(d, j, S) \subseteq S /\ IsFiniteSet(Newer(d, j, S))
      /\ Cardinality(Newer(d, j, S)) \in Nat
  <2>1. Newer(d, j, S) \subseteq S /\ Newer(d, j, S) \subseteq Ids
    BY DEF Newer, Apart
  <2> QED
    BY <2>1, Counted
<1>2. CASE e[i] > e[j]
  <2>1. Newer(e, j, S \cup {i}) = Newer(d, j, S) \cup {i}
    BY <1>2 DEF Newer
  <2>2. i \notin Newer(d, j, S)
    BY <1>1
  <2> QED
    BY <1>1, <1>2, <2>1, <2>2, FS_AddElement DEF Place
<1>3. CASE ~(e[i] > e[j])
  <2>1. Newer(e, j, S \cup {i}) = Newer(d, j, S)
    BY <1>3 DEF Newer
  <2> QED
    BY <1>1, <1>3, <2>1 DEF Place
<1> QED
  BY <1>2, <1>3

\* A page that is not full is the last: nothing is placed behind it.
LEMMA ShortPage ==
    ASSUME NEW S, NEW d, Apart(d, S), NEW n \in Nat,
           Cardinality({i \in S : Place(d, i, S) \in n..(n + PageSize - 1)}) # PageSize,
           NEW i \in S
    PROVE  Place(d, i, S) < n + PageSize
<1> DEFINE page == {j \in S : Place(d, j, S) \in n..(n + PageSize - 1)}
           places == n..(n + PageSize - 1)
           at == [j \in page |-> Place(d, j, S)]
<1>0. PageSize \in Nat /\ PageSize > 0
  BY Numbers
<1>1. IsFiniteSet(S) /\ Cardinality(S) \in Nat /\ IsFiniteSet(page)
  <2>1. S \subseteq Ids /\ page \subseteq Ids
    BY DEF Apart
  <2> QED
    BY <2>1, Counted
<1>2. SUFFICES ASSUME Cardinality(S) >= n + PageSize PROVE FALSE
  <2>1. Place(d, i, S) \in 0..(Cardinality(S) - 1)
    BY PlaceBelow
  <2> QED
    BY <1>0, <1>1, <1>2, <2>1
<1>3. at \in Injection(page, places)
  <2>1. at \in [page -> places]
    OBVIOUS
  <2>2. ASSUME NEW j \in page, NEW k \in page, at[j] = at[k] PROVE j = k
    BY <2>2, OnePlace
  <2> QED
    BY <2>1, <2>2 DEF Injection, IsInjective
<1>4. at \in Surjection(page, places)
  <2>1. ASSUME NEW m \in places PROVE \E j \in page : at[j] = m
    <3>1. m \in 0..(Cardinality(S) - 1)
      BY <1>0, <1>1, <1>2
    <3>2. PICK j \in S : Place(d, j, S) = m
      BY <3>1, EveryPlace
    <3> QED
      BY <3>2
  <2>2. at \in [page -> places]
    OBVIOUS
  <2> QED
    BY <2>1, <2>2 DEF Surjection
<1>5. IsFiniteSet(places) /\ Cardinality(places) = PageSize
  <2> DEFINE last == n + PageSize - 1
  <2>1. n \in Int /\ last \in Int /\ ~(n > last) /\ last - n + 1 = PageSize
    BY <1>0
  <2> HIDE DEF last
  <2>2. IsFiniteSet(n..last) /\ Cardinality(n..last) = PageSize
    BY <2>1, FS_Interval
  <2> QED
    BY <2>2 DEF last
<1> HIDE DEF places, at, page
<1>6. Cardinality(page) = Cardinality(places)
  BY <1>3, <1>4, <1>5, FS_Injection
<1> QED
  BY <1>5, <1>6 DEF page

\* At most one memory more is at most one more.
LEMMA OneMore ==
    ASSUME NEW S \in SUBSET Ids, NEW T \in SUBSET Ids,
           \A i, j \in T \ S : i = j
    PROVE  Cardinality(T) <= Cardinality(S) + 1
<1>0. /\ IsFiniteSet(S) /\ Cardinality(S) \in Nat
      /\ IsFiniteSet(T) /\ Cardinality(T) \in Nat
  BY Counted
<1>1. CASE T \subseteq S
  BY <1>0, <1>1, Smaller
<1>2. ASSUME NEW x \in T, x \notin S PROVE Cardinality(T) <= Cardinality(S) + 1
  <2>1. T \subseteq S \cup {x} /\ S \cup {x} \subseteq Ids
    BY <1>2
  <2>2. Cardinality(S \cup {x}) = Cardinality(S) + 1
    BY <1>0, <1>2, FS_AddElement
  <2> QED
    BY <2>1, <2>2, Smaller
<1> QED
  BY <1>1, <1>2

-----------------------------------------------------------------------------
(***************************************************************************)
(* A walk through a listing, for any dates and statuses                    *)
(***************************************************************************)

\* Of what the listing began with: passed over, in front of the offset now.
Slipped(p, d, S) == {i \in p.due \ p.seen : Place(d, i, S) < p.offset}

\* Shown already and still to come.
Again(p, d, S) == {i \in p.seen \cap S : Place(d, i, S) >= p.offset}

\* What slips past an open walk is no more than what left; what was repeated
\* or still will be is no more than what entered (or all, the bound of the
\* counters).  When the walk is over, that says it of the whole listing.
WalkAddsUp(p, d, S) ==
    IF p.open
    THEN /\ p.due \subseteq S
         /\ Cardinality(Slipped(p, d, S)) <= p.left
         /\ p.entered # Cardinality(Ids)
              => p.repeated + Cardinality(Again(p, d, S)) <= p.entered
    ELSE Cardinality(p.due \ p.seen) <= p.left /\ p.repeated <= p.entered

AddUp == \A c \in Callers : WalkAddsUp(paging[c], created, Kept(paging[c].filter, status))

LEMMA WalkSets ==
    ASSUME NEW p \in Walk, NEW d, NEW S \in SUBSET Ids
    PROVE  /\ p.due \subseteq Ids /\ p.seen \subseteq Ids /\ p.offset \in Nat
           /\ p.left \in Nat /\ p.left <= Cardinality(Ids)
           /\ p.entered \in Nat /\ p.entered <= Cardinality(Ids)
           /\ p.repeated \in Nat /\ p.repeated <= Cardinality(Ids)
           /\ Slipped(p, d, S) \subseteq Ids /\ Cardinality(Slipped(p, d, S)) \in Nat
           /\ Cardinality(Slipped(p, d, S)) <= Cardinality(Ids)
           /\ Again(p, d, S) \subseteq Ids /\ Cardinality(Again(p, d, S)) \in Nat
           /\ Cardinality(Again(p, d, S)) <= Cardinality(Ids)
<1>1. /\ p.due \subseteq Ids /\ p.seen \subseteq Ids /\ p.offset \in Nat
      /\ p.left \in Count /\ p.entered \in Count /\ p.repeated \in Count
  BY DEF Walk
<1>2. Slipped(p, d, S) \subseteq Ids /\ Again(p, d, S) \subseteq Ids
  BY <1>1 DEF Slipped, Again
<1> QED
  BY <1>1, <1>2, Counted, Numbers

\* A change of the tables leaves where the walk is alone.
SameWalk(p, q) ==
    /\ q.open = p.open /\ q.offset = p.offset /\ q.seen = p.seen /\ q.repeated = p.repeated

\* One memory leaves the listing.  Those behind it move up, and at most one
\* of them, the first of the next page, past the offset.
LEMMA WalkLeft ==
    ASSUME NEW p \in Walk, p.open, NEW S \in SUBSET Ids, NEW d, NEW e, NEW i \in S,
           Apart(d, S), Apart(e, S \ {i}), \A j \in S \ {i} : d[j] = e[j],
           WalkAddsUp(p, d, S), NEW q \in Walk, SameWalk(p, q),
           q.due = p.due \cap (S \ {i}), q.left = Capped(p.left + 1), q.entered = p.entered
    PROVE  WalkAddsUp(q, e, S \ {i})
<1> DEFINE T == S \ {i}
<1>1. q.due = p.due \cap T /\ q.seen = p.seen /\ q.offset = p.offset /\ p.offset \in Nat
  BY WalkSets DEF SameWalk
<1>2. T \subseteq Ids /\ S = T \cup {i} /\ i \in Ids \ T
  OBVIOUS
<1>3. Apart(e, T) /\ Apart(d, T \cup {i}) /\ \A j \in T : e[j] = d[j]
  BY <1>2
<1> HIDE DEF T
<1>4. ASSUME NEW j \in T
      PROVE  /\ Place(d, j, S) = Place(e, j, T) \/ Place(d, j, S) = Place(e, j, T) + 1
             /\ Place(e, j, T) \in Nat /\ Place(d, j, S) \in Nat
  <2>1. Place(d, j, T \cup {i}) = Place(e, j, T) + (IF d[i] > d[j] THEN 1 ELSE 0)
    BY <1>2, <1>3, PlaceWith
  <2>2. Place(e, j, T) \in Nat /\ Place(d, j, S) \in Nat
    BY <1>2, PlaceType
  <2> QED
    BY <1>2, <2>1, <2>2
<1>5. Cardinality(Slipped(q, e, T)) <= Cardinality(Slipped(p, d, S)) + 1
  <2>1. ASSUME NEW j \in Slipped(q, e, T) \ Slipped(p, d, S)
        PROVE  j \in S /\ Place(d, j, S) = p.offset
    <3>1. j \in T /\ j \in p.due \ p.seen /\ Place(e, j, T) < p.offset
      BY <1>1 DEF Slipped
    <3>2. ~(Place(d, j, S) < p.offset)
      BY <3>1 DEF Slipped
    <3> QED
      BY <1>1, <1>2, <1>4, <3>1, <3>2
  <2>2. \A j, k \in Slipped(q, e, T) \ Slipped(p, d, S) : j = k
    BY <2>1, OnePlace
  <2> QED
    BY <1>2, <2>2, WalkSets, OneMore
<1>6. Cardinality(Again(q, e, T)) <= Cardinality(Again(p, d, S))
  <2>1. ASSUME NEW j \in Again(q, e, T) PROVE j \in Again(p, d, S)
    <3>1. j \in T /\ j \in p.seen /\ Place(e, j, T) >= p.offset
      BY <1>1 DEF Again
    <3>2. Place(d, j, S) >= p.offset
      BY <1>1, <1>4, <3>1
    <3> QED
      BY <1>2, <3>1, <3>2 DEF Again
  <2> QED
    BY <1>2, <2>1, WalkSets, Smaller
<1>7. Cardinality(Slipped(q, e, T)) <= q.left
  <2>1. Cardinality(Slipped(p, d, S)) <= p.left
    BY DEF WalkAddsUp
  <2>2. /\ p.left \in Nat /\ Cardinality(Slipped(p, d, S)) \in Nat
        /\ Cardinality(Slipped(q, e, T)) \in Nat
        /\ Cardinality(Slipped(q, e, T)) <= Cardinality(Ids)
    BY <1>2, WalkSets
  <2>3. q.left = p.left + 1 \/ q.left = Cardinality(Ids)
    BY <2>2, CappedCount
  <2> QED
    BY <1>5, <2>1, <2>2, <2>3
<1>8. q.entered # Cardinality(Ids) => q.repeated + Cardinality(Again(q, e, T)) <= q.entered
  BY <1>2, <1>6, WalkSets DEF WalkAddsUp, SameWalk
<1>9. q.due \subseteq T /\ q.open
  BY <1>1 DEF SameWalk
<1> QED
  BY <1>7, <1>8, <1>9 DEF WalkAddsUp, T

\* One memory enters the listing.  Either it is one shown before that will
\* come again, or those behind it move down, and at most one of them, the
\* last of the page shown last, past the offset.
LEMMA WalkEntered ==
    ASSUME NEW p \in Walk, p.open, NEW S \in SUBSET Ids, NEW d, NEW e, NEW i \in Ids \ S,
           Apart(d, S), Apart(e, S \cup {i}), \A j \in S : d[j] = e[j],
           WalkAddsUp(p, d, S), NEW q \in Walk, SameWalk(p, q),
           q.due = p.due, q.left = p.left, q.entered = Capped(p.entered + 1)
    PROVE  WalkAddsUp(q, e, S \cup {i})
<1> DEFINE T == S \cup {i}
<1>1. q.seen = p.seen /\ q.offset = p.offset /\ p.offset \in Nat /\ p.due \subseteq S
  BY WalkSets DEF SameWalk, WalkAddsUp
<1>2. T \subseteq Ids /\ i \in T /\ S \subseteq T
  OBVIOUS
<1>3. ASSUME NEW j \in S
      PROVE  /\ Place(e, j, T) = Place(d, j, S) + (IF e[i] > e[j] THEN 1 ELSE 0)
             /\ Place(e, j, T) \in Nat /\ Place(d, j, S) \in Nat
  BY PlaceWith, PlaceType
<1>4. Cardinality(Slipped(q, e, T)) <= Cardinality(Slipped(p, d, S))
  <2>1. ASSUME NEW j \in Slipped(q, e, T) PROVE j \in Slipped(p, d, S)
    <3>1. j \in S /\ j \in p.due \ p.seen /\ Place(e, j, T) < p.offset
      BY <1>1 DEF Slipped
    <3>2. Place(d, j, S) < p.offset
      BY <1>1, <1>3, <3>1
    <3> QED
      BY <3>1, <3>2 DEF Slipped
  <2> QED
    BY <2>1, WalkSets, Smaller
<1>5. ASSUME NEW j \in Again(q, e, T) \ Again(p, d, S), j # i
      PROVE  j \in S /\ Place(e, j, T) = p.offset /\ e[i] > e[j]
  <2>1. j \in S /\ j \in p.seen /\ Place(e, j, T) >= p.offset
    BY <1>1, <1>5 DEF Again
  <2>2. ~(Place(d, j, S) >= p.offset)
    BY <1>5, <2>1 DEF Again
  <2> QED
    BY <1>1, <1>3, <2>1, <2>2
<1>6. \A j, k \in Again(q, e, T) \ Again(p, d, S) : j = k
  <2>1. ASSUME NEW j \in Again(q, e, T) \ Again(p, d, S), j # i, i \in Again(q, e, T)
        PROVE  FALSE
    <3>1. j \in S /\ Place(e, j, T) = p.offset /\ e[i] > e[j]
      BY <1>5, <2>1
    <3>2. Place(e, i, T) < Place(e, j, T)
      <4>1. e[j] < e[i]
        BY <1>2, <3>1 DEF Apart
      <4> QED
        BY <1>2, <3>1, <4>1, NewerFirst
    <3>3. Place(e, i, T) >= p.offset
      BY <1>1, <2>1 DEF Again
    <3>4. Place(e, i, T) \in Nat
      BY <1>2, PlaceType
    <3> QED
      BY <1>1, <3>1, <3>2, <3>3, <3>4
  <2>2. ASSUME NEW j \in Again(q, e, T) \ Again(p, d, S),
               NEW k \in Again(q, e, T) \ Again(p, d, S), j # i, k # i
        PROVE  j = k
    <3>1. j \in T /\ k \in T /\ Place(e, j, T) = Place(e, k, T)
      BY <1>2, <1>5, <2>2
    <3> QED
      BY <3>1, OnePlace
  <2> QED
    BY <2>1, <2>2
<1> HIDE DEF T
<1>7. Cardinality(Again(q, e, T)) <= Cardinality(Again(p, d, S)) + 1
  BY <1>2, <1>6, WalkSets, OneMore
<1>8. q.entered # Cardinality(Ids) => q.repeated + Cardinality(Again(q, e, T)) <= q.entered
  <2>1. /\ p.entered \in Nat /\ p.repeated \in Nat /\ Cardinality(Again(p, d, S)) \in Nat
        /\ Cardinality(Again(q, e, T)) \in Nat /\ p.entered <= Cardinality(Ids)
        /\ Cardinality(Ids) \in Nat
    BY <1>2, WalkSets, Numbers
  <2>2. SUFFICES ASSUME q.entered # Cardinality(Ids)
                 PROVE  q.repeated + Cardinality(Again(q, e, T)) <= q.entered
    OBVIOUS
  <2>3. q.entered = p.entered + 1 /\ p.entered # Cardinality(Ids)
    BY <2>1, <2>2 DEF Capped
  <2>4. p.repeated + Cardinality(Again(p, d, S)) <= p.entered
    BY <2>3 DEF WalkAddsUp
  <2>5. q.repeated = p.repeated
    BY DEF SameWalk
  <2> QED
    BY <1>7, <2>1, <2>3, <2>4, <2>5
<1>9. Cardinality(Slipped(q, e, T)) <= q.left
  BY <1>2, <1>4, WalkSets DEF WalkAddsUp
<1>10. q.due \subseteq T /\ q.open
  BY <1>1, <1>2 DEF SameWalk
<1> QED
  BY <1>8, <1>9, <1>10 DEF WalkAddsUp, T

\* Nothing leaves or enters the listing.
LEMMA WalkStays ==
    ASSUME NEW p \in Walk, p.open, NEW S \in SUBSET Ids, NEW d, NEW e,
           \A j \in S : d[j] = e[j], WalkAddsUp(p, d, S), NEW q \in Walk, SameWalk(p, q),
           q.due = p.due, q.left = p.left, q.entered = p.entered
    PROVE  WalkAddsUp(q, e, S)
<1>1. \A j \in S : Place(d, j, S) = Place(e, j, S)
  BY SamePlaces
<1>2. p.due \subseteq S /\ q.seen = p.seen /\ q.offset = p.offset /\ q.open
  BY DEF WalkAddsUp, SameWalk
<1>3. Slipped(q, e, S) = Slipped(p, d, S) /\ Again(q, e, S) = Again(p, d, S)
  BY <1>1, <1>2 DEF Slipped, Again
<1> QED
  BY <1>2, <1>3 DEF WalkAddsUp, SameWalk

\* A page shows what is placed between the offset and the next; a short one
\* shows the rest.
LEMMA WalkPage ==
    ASSUME NEW p \in Walk, p.open, NEW S \in SUBSET Ids, NEW d, Apart(d, S),
           WalkAddsUp(p, d, S), NEW q \in Walk, NEW page,
           page = {i \in S : Place(d, i, S) \in p.offset..(p.offset + PageSize - 1)},
           q.due = p.due, q.left = p.left, q.entered = p.entered,
           q.offset = p.offset + PageSize, q.seen = p.seen \cup page,
           q.repeated = Capped(p.repeated + Cardinality(page \cap p.seen)),
           q.open = (Cardinality(page) = PageSize)
    PROVE  WalkAddsUp(q, d, S)
<1>0. PageSize \in Nat /\ PageSize > 0 /\ p.offset \in Nat /\ p.due \subseteq S
  BY Numbers, WalkSets DEF WalkAddsUp
<1>1. \A i \in S : Place(d, i, S) \in Nat
  BY PlaceType
<1>2. Slipped(q, d, S) \subseteq Slipped(p, d, S)
  <2>1. ASSUME NEW i \in Slipped(q, d, S) PROVE i \in Slipped(p, d, S)
    <3>1. i \in S /\ i \in p.due \ p.seen /\ i \notin page /\ Place(d, i, S) < p.offset + PageSize
      BY <1>0 DEF Slipped
    <3>2. Place(d, i, S) < p.offset
      BY <1>0, <1>1, <3>1
    <3> QED
      BY <3>1, <3>2 DEF Slipped
  <2> QED
    BY <2>1
<1>3. Again(q, d, S) \subseteq Again(p, d, S) \ page
  <2>1. ASSUME NEW i \in Again(q, d, S) PROVE i \in Again(p, d, S) \ page
    <3>1. i \in S /\ i \in p.seen \cup page /\ Place(d, i, S) >= p.offset + PageSize
      BY DEF Again
    <3>2. i \notin page /\ Place(d, i, S) >= p.offset
      BY <1>0, <1>1, <3>1
    <3> QED
      BY <3>1, <3>2 DEF Again
  <2> QED
    BY <2>1
<1>4. page \cap p.seen \subseteq Again(p, d, S)
  BY <1>0, <1>1 DEF Again
<1>5. /\ Cardinality(Slipped(q, d, S)) <= p.left
      /\ Cardinality(Slipped(q, d, S)) \in Nat
  BY <1>2, WalkSets, Smaller DEF WalkAddsUp
<1>6. /\ Cardinality(Again(q, d, S)) + Cardinality(page \cap p.seen) <= Cardinality(Again(p, d, S))
      /\ Cardinality(Again(q, d, S)) \in Nat /\ Cardinality(page \cap p.seen) \in Nat
  <2> DEFINE A == Again(q, d, S)  B == page \cap p.seen
  <2>1. A \cap B = {} /\ A \cup B \subseteq Again(p, d, S)
    BY <1>3, <1>4
  <2>2. Again(p, d, S) \subseteq Ids
    BY WalkSets
  <2>3. /\ IsFiniteSet(A) /\ IsFiniteSet(B) /\ Cardinality(A) \in Nat /\ Cardinality(B) \in Nat
        /\ Cardinality(A \cap B) = 0
    BY <2>1, <2>2, Counted, FS_EmptySet
  <2> HIDE DEF A, B
  <2>4. Cardinality(A \cup B) = Cardinality(A) + Cardinality(B)
    <3>1. Cardinality(A \cup B) = Cardinality(A) + Cardinality(B) - Cardinality(A \cap B)
      BY <2>3, FS_Union
    <3> QED
      BY <2>3, <3>1
  <2>5. Cardinality(A \cup B) <= Cardinality(Again(p, d, S))
    BY <2>1, <2>2, Smaller
  <2> QED
    BY <2>3, <2>4, <2>5 DEF A, B
<1>7. /\ q.repeated \in Nat /\ q.repeated <= Cardinality(Ids)
      /\ q.repeated <= p.repeated + Cardinality(page \cap p.seen)
  BY <1>6, WalkSets, CappedCount
<1>8. p.entered # Cardinality(Ids) => q.repeated + Cardinality(Again(q, d, S)) <= p.entered
  BY <1>6, <1>7, WalkSets DEF WalkAddsUp
<1>9. CASE q.open
  BY <1>0, <1>5, <1>8, <1>9 DEF WalkAddsUp
<1>10. CASE ~q.open
  <2>1. Cardinality(page) # PageSize
    BY <1>10
  <2>2. ASSUME NEW i \in p.due \ q.seen PROVE i \in Slipped(q, d, S)
    <3>1. Place(d, i, S) < p.offset + PageSize
      BY <1>0, <2>1, ShortPage
    <3> QED
      BY <3>1 DEF Slipped
  <2>3. Cardinality(q.due \ q.seen) <= Cardinality(Slipped(q, d, S))
    BY <2>2, WalkSets, Smaller
  <2>4. Cardinality(q.due \ q.seen) \in Nat
    <3>1. q.due \ q.seen \subseteq Ids
      BY WalkSets
    <3> QED
      BY <3>1, Counted
  <2>5. q.repeated <= q.entered
    BY <1>6, <1>7, <1>8, WalkSets
  <2>6. Cardinality(q.due \ q.seen) <= q.left
    BY <1>5, <2>3, <2>4, WalkSets
  <2> QED
    BY <1>10, <2>5, <2>6 DEF WalkAddsUp
<1> QED
  BY <1>9, <1>10

-----------------------------------------------------------------------------
(***************************************************************************)
(* Listings                                                                *)
(***************************************************************************)
LEMMA RankIsPlace ==
    ASSUME NEW f, NEW n
    PROVE  Page(f, n) = {i \in Kept(f, status) :
                           Place(created, i, Kept(f, status)) \in n..(n + PageSize - 1)}
BY DEF Page, Rank, Place, Newer

\* What is listed while a walk is open is dated apart.
\* So it is for every walk under way and every filter.
AllApart == \A c \in Callers : paging[c].open => \A f : Apart(created, Kept(f, status))

LEMMA ListedApart == Typed => AllApart
<1> SUFFICES ASSUME Typed, NEW c \in Callers, paging[c].open, NEW f
             PROVE  Apart(created, Kept(f, status))
  BY DEF AllApart
<1>1. "list" \in calls /\ created \in [Ids -> 0..MaxTime]
  BY TypeParts DEF Typed, Dated, TablesOK
<1>2. Kept(f, status) \subseteq Stored /\ Stored \subseteq Ids
  BY DEF Stored, Kept
<1>3. \A i \in Ids : created[i] \in Nat
  BY <1>1, Numbers
<1> QED
  BY <1>1, <1>2, <1>3 DEF Typed, Dated, Apart

LEMMA ListedApartNext == Typed' => AllApart'
BY ListedApart, PTL

\* What Watch counts.
LEMMA WatchCounts ==
    ASSUME PagingOK, Watch, NEW c \in Callers, paging[c].open
    PROVE  LET old == Kept(paging[c].filter, status)
               new == Kept(paging[c].filter, status')
               same == Unmoved(paging[c].filter)
           IN  /\ paging'[c].due = paging[c].due \cap same
               /\ paging'[c].left = Capped(paging[c].left + Cardinality(old \ same))
               /\ paging'[c].entered = Capped(paging[c].entered + Cardinality(new \ same))
<1> DEFINE p == paging[c]
           old == Kept(p.filter, status)
           new == Kept(p.filter, status')
           same == Unmoved(p.filter)
<1>1. p \in Walk
  BY DEF PagingOK
<1>2. paging'[c] = [p EXCEPT !.due = @ \cap same,
                             !.left = Capped(@ + Cardinality(old \ same)),
                             !.entered = Capped(@ + Cardinality(new \ same))]
  BY DEF Watch
<1> HIDE DEF old, new, same, p
<1>3. /\ paging'[c].due = p.due \cap same
      /\ paging'[c].left = Capped(p.left + Cardinality(old \ same))
      /\ paging'[c].entered = Capped(p.entered + Cardinality(new \ same))
  BY <1>1, <1>2 DEF Walk
<1> QED
  BY <1>3 DEF old, new, same, p

\* One memory of the listing is dated anew: it leaves, and enters elsewhere.
LEMMA WalkMoved ==
    ASSUME NEW p \in Walk, p.open, NEW S \in SUBSET Ids, NEW d, NEW e, NEW i \in S,
           Apart(d, S), Apart(e, S), \A j \in S \ {i} : d[j] = e[j],
           WalkAddsUp(p, d, S), NEW q \in Walk, SameWalk(p, q), q.due = p.due \cap (S \ {i}),
           q.left = Capped(p.left + 1), q.entered = Capped(p.entered + 1)
    PROVE  WalkAddsUp(q, e, S)
<1> DEFINE T == S \ {i}
           r == [q EXCEPT !.entered = p.entered]
<1>1. /\ r \in Walk /\ r.due = q.due /\ r.left = q.left /\ r.entered = p.entered
      /\ SameWalk(p, r) /\ SameWalk(r, q) /\ r.open
  BY DEF Walk, SameWalk
<1>2. T \subseteq Ids /\ i \in Ids \ T /\ T \cup {i} = S /\ Apart(e, T) /\ Apart(e, T \cup {i})
  BY DEF Apart
<1> HIDE DEF r
<1>3. WalkAddsUp(r, e, T)
  BY <1>1, <1>2, WalkLeft
<1> HIDE DEF T
<1>4. WalkAddsUp(q, e, T \cup {i})
  BY <1>1, <1>2, <1>3, WalkEntered
<1> QED
  BY <1>2, <1>4

\* A change of one memory keeps all walks adding up.
LEMMA ChangeAddsUp ==
    ASSUME Typed, Typed', Watch, AddUp, NEW i,
           \A j \in Ids \ {i} : status'[j] = status[j] /\ created'[j] = created[j]
    PROVE  AddUp'
<1> SUFFICES ASSUME NEW c \in Callers
             PROVE  WalkAddsUp(paging'[c], created', Kept(paging'[c].filter, status'))
  BY DEF AddUp
<1> DEFINE p == paging[c]  q == paging'[c]
           old == Kept(p.filter, status)
           new == Kept(p.filter, status')
           same == Unmoved(p.filter)
<1>1. PagingOK /\ PagingOK' /\ p \in Walk /\ q \in Walk
  BY TypeParts DEF Typed, PagingOK
<1>2. WalkAddsUp(p, created, old)
  BY DEF AddUp
<1>3. q.filter = p.filter /\ SameWalk(p, q)
  BY <1>1, WatchKeeps DEF SameWalk
<1>4. CASE ~p.open
  <2>1. q = p
    BY <1>4 DEF Watch
  <2> QED
    BY <1>2, <1>4, <2>1 DEF WalkAddsUp
<1>5. CASE p.open
  <2>1. Apart(created, old) /\ Apart(created', new)
    <3>1. q.open
      BY <1>3, <1>5 DEF SameWalk
    <3>2. Apart(created, old)
      BY <1>5, ListedApart DEF AllApart
    <3>3. Apart(created', new)
      BY <3>1, ListedApartNext DEF AllApart
    <3> QED
      BY <3>2, <3>3
  <2>2. old \subseteq Ids /\ new \subseteq Ids /\ p.due \subseteq old
    BY <1>2, <1>5 DEF WalkAddsUp, Kept
  <2>3. \A j \in Ids \ {i} : j \in old <=> j \in new
    BY DEF Kept
  <2>4. /\ q.due = p.due \cap same
        /\ q.left = Capped(p.left + Cardinality(old \ same))
        /\ q.entered = Capped(p.entered + Cardinality(new \ same))
    BY <1>1, <1>5, WatchCounts
  <2>5. \A j : j \in same <=> j \in old /\ j \in new /\ created'[j] = created[j]
    BY DEF Unmoved
  <2>0. \A j \in (old \cup new) \ {i} : created'[j] = created[j]
    BY <2>2
  <2>6. Capped(p.left + 0) = p.left /\ Capped(p.entered + 0) = p.entered
    <3>1. /\ p.left \in Nat /\ p.left <= Cardinality(Ids)
          /\ p.entered \in Nat /\ p.entered <= Cardinality(Ids)
      BY <1>1, WalkSets
    <3> QED
      BY <3>1, Numbers DEF Capped
  <2>7. Cardinality({}) = 0 /\ Cardinality({i}) = 1
    BY FS_EmptySet, FS_Singleton
  <2> HIDE DEF p, q, old, new, same
  <2>8. CASE new = old /\ (i \in old => created'[i] = created[i])
    <3>0. same = old
      BY <2>0, <2>5, <2>8
    <3>1. old \ same = {} /\ new \ same = {} /\ q.due = p.due
      BY <2>2, <2>4, <2>8, <3>0
    <3>2. q.left = p.left /\ q.entered = p.entered
      BY <2>4, <2>6, <2>7, <3>1
    <3>3. WalkAddsUp(q, created', old)
      BY <1>1, <1>2, <1>3, <1>5, <2>0, <2>2, <2>8, <3>1, <3>2, WalkStays
    <3> QED
      BY <1>3, <2>8, <3>3 DEF new, q
  <2>11. CASE new = old /\ i \in old /\ created'[i] # created[i]
    <3>1. same = old \ {i}
      BY <2>0, <2>5, <2>11
    <3>2. old \ same = {i} /\ new \ same = {i}
      BY <2>11, <3>1
    <3>3. q.due = p.due \cap (old \ {i}) /\ q.left = Capped(p.left + 1)
          /\ q.entered = Capped(p.entered + 1)
      BY <2>4, <2>7, <3>1, <3>2
    <3>4. WalkAddsUp(q, created', old)
      BY <1>1, <1>2, <1>3, <1>5, <2>0, <2>1, <2>2, <2>11, <3>3, WalkMoved
    <3> QED
      BY <1>3, <2>11, <3>4 DEF new, q
  <2>9. CASE i \in old /\ i \notin new
    <3>0. new = old \ {i} /\ same = old \ {i}
      BY <2>0, <2>2, <2>3, <2>5, <2>9
    <3>1. new = old \ {i} /\ same = new /\ old \ same = {i} /\ new \ same = {}
      BY <2>9, <3>0
    <3>2. q.left = Capped(p.left + 1) /\ q.entered = p.entered
      BY <2>4, <2>6, <2>7, <3>1
    <3>3. WalkAddsUp(q, created', old \ {i})
      BY <1>1, <1>2, <1>3, <1>5, <2>0, <2>1, <2>2, <2>4, <2>9, <3>1, <3>2, WalkLeft
    <3> QED
      BY <1>3, <3>1, <3>3 DEF new, q
  <2>10. CASE i \notin old /\ i \in new
    <3>0. new = old \cup {i} /\ same = old /\ i \in Ids \ old
      BY <2>0, <2>2, <2>3, <2>5, <2>10
    <3>1. new = old \cup {i} /\ same = old /\ old \ same = {} /\ new \ same = {i} /\ i \in Ids \ old
      BY <2>10, <3>0
    <3>2. q.left = p.left /\ q.entered = Capped(p.entered + 1) /\ q.due = p.due
      BY <2>2, <2>4, <2>6, <2>7, <3>1
    <3>3. WalkAddsUp(q, created', old \cup {i})
      BY <1>1, <1>2, <1>3, <1>5, <2>0, <2>1, <2>2, <3>1, <3>2, WalkEntered
    <3> QED
      BY <1>3, <3>1, <3>3 DEF new, q
  <2> QED
    BY <2>2, <2>3, <2>8, <2>9, <2>10, <2>11
<1> QED
  BY <1>4, <1>5

LEMMA StepAddsUp == Typed /\ Typed' /\ AddUp /\ [Next]_vars => AddUp'
<1> SUFFICES ASSUME Typed, Typed', AddUp, [Next]_vars PROVE AddUp'
  OBVIOUS
<1>0. TablesOK /\ PagingOK
  BY TypeParts DEF Typed
<1>1. ASSUME NEW i \in Ids, Write(i) PROVE AddUp'
  <2>1. PICK s \in Statuses \ {"absent"}, t \in Stamps(i) :
          status' = [status EXCEPT ![i] = s] /\ created' = [created EXCEPT ![i] = t]
    BY <1>1 DEF Write
  <2>3. \A j \in Ids \ {i} : status'[j] = status[j] /\ created'[j] = created[j]
    BY <1>0, <2>1 DEF TablesOK
  <2>4. Watch
    BY <1>1 DEF Write, Change
  <2> QED
    BY <2>3, <2>4, ChangeAddsUp
<1>2. ASSUME NEW i \in Ids, Delete(i) PROVE AddUp'
  <2>1. \A j \in Ids \ {i} : status'[j] = status[j] /\ created'[j] = created[j]
    BY <1>0, <1>2 DEF Delete, TablesOK
  <2>3. Watch
    BY <1>2 DEF Delete, Change
  <2> QED
    BY <2>1, <2>3, ChangeAddsUp
<1>3. ASSUME Watch, status' = status, created' = created PROVE AddUp'
  BY <1>3, ChangeAddsUp
<1>4. ASSUME status' = status, created' = created, NEW c \in Callers, PagingOK',
             paging' = [paging EXCEPT ![c] = paging'[c]],
             WalkAddsUp(paging'[c], created, Kept(paging'[c].filter, status))
      PROVE  AddUp'
  <2>1. \A d \in Callers \ {c} : paging'[d] = paging[d]
    BY <1>0, <1>4 DEF PagingOK
  <2> QED
    BY <1>4, <2>1 DEF AddUp
<1>5. ASSUME NEW c \in Callers, StartList(c) PROVE AddUp'
  <2>1. PICK f \in Filters :
          /\ paging' = [paging EXCEPT ![c] = paging'[c]]
          /\ paging'[c] = [NotPaging EXCEPT !.filter = f, !.open = TRUE, !.due = Kept(f, status)]
    BY <1>0, <1>5, StartListTo
  <2> DEFINE q == paging'[c]  S == Kept(f, status)
  <2>2. /\ q.filter = f /\ q.open /\ q.due = S /\ q.seen = {} /\ q.offset = 0
        /\ q.left = 0 /\ q.entered = 0 /\ q.repeated = 0
    BY <2>1 DEF NotPaging
  <2>3. S \subseteq Ids /\ \A i \in S : Place(created, i, S) \in Nat
    BY KeptIds, PlaceType
  <2> HIDE DEF S, q
  <2>4. Slipped(q, created, S) = {} /\ Again(q, created, S) = {}
    BY <2>2, <2>3 DEF Slipped, Again
  <2>5. WalkAddsUp(q, created, S)
    BY <2>2, <2>4, FS_EmptySet DEF WalkAddsUp
  <2>6. status' = status /\ created' = created /\ PagingOK'
    BY <1>5, TypeParts DEF StartList, tables, Typed
  <2> QED
    BY <1>4, <2>1, <2>2, <2>5, <2>6 DEF q, S
<1>6. ASSUME NEW c \in Callers, NextPage(c) PROVE AddUp'
  <2> DEFINE p == paging[c]  q == paging'[c]
             S == Kept(p.filter, status)
             page == Page(p.filter, p.offset)
  <2>1. /\ paging' = [paging EXCEPT ![c] = q] /\ q \in Walk /\ q.filter = p.filter
        /\ q.due = p.due /\ q.left = p.left /\ q.entered = p.entered
        /\ q.offset = p.offset + PageSize /\ q.seen = p.seen \cup page
        /\ q.repeated = Capped(p.repeated + Cardinality(page \cap p.seen))
        /\ q.open = (Cardinality(page) = PageSize)
    BY <1>0, <1>6, NextPageTo
  <2>2. p.open /\ p \in Walk
    BY <1>0, <1>6 DEF NextPage, PagingOK
  <2>3. page = {i \in S : Place(created, i, S) \in p.offset..(p.offset + PageSize - 1)}
    BY RankIsPlace
  <2>4. Apart(created, S) /\ S \subseteq Ids
    BY <2>2, ListedApart, KeptIds DEF AllApart
  <2>5. WalkAddsUp(p, created, S)
    BY DEF AddUp
  <2>6. status' = status /\ created' = created /\ PagingOK'
    BY <1>6, TypeParts DEF NextPage, tables, Typed
  <2> HIDE DEF p, q, S, page
  <2>7. WalkAddsUp(q, created, S)
    BY <2>1, <2>2, <2>3, <2>4, <2>5, WalkPage
  <2> QED
    BY <1>4, <2>1, <2>6, <2>7 DEF q, S
<1>7. ASSUME UNCHANGED <<tables, paging>> PROVE AddUp'
  BY <1>7 DEF AddUp, tables
<1>8. ASSUME NEW i \in Ids, Writes(i) PROVE AddUp'
  BY <1>1, <1>2, <1>3, <1>8 DEF Writes, Link, Embed, Change
<1>9. CASE Backfill
  BY <1>3, <1>9 DEF Backfill, Change
<1>10. ASSUME NEW c \in Callers, Read(c) PROVE AddUp'
  BY <1>5, <1>6, <1>7, <1>10 DEF Read, Answer, ReadLinks
<1>11. CASE Search
  BY <1>7, <1>11 DEF Search
<1>12. CASE UNCHANGED vars
  BY <1>7, <1>12 DEF vars
<1> QED
  BY <1>8, <1>9, <1>10, <1>11, <1>12 DEF Next

LEMMA AlwaysAddUp == Spec => []AddUp
<1>1. Init => AddUp
  <2>1. NotPaging.due \ NotPaging.seen = {} /\ ~NotPaging.open
    BY DEF NotPaging
  <2>2. Cardinality(NotPaging.due \ NotPaging.seen) = 0
    BY <2>1, FS_EmptySet
  <2>3. \A d, S : WalkAddsUp(NotPaging, d, S)
    BY <2>1, <2>2 DEF WalkAddsUp, NotPaging
  <2> QED
    BY <2>3 DEF Init, AddUp
<1> QED
  BY <1>1, StepAddsUp, AlwaysTyped, PTL DEF Spec

\* A walk over a listing by pages, with any writes in between, misses no more
\* of what it began with than has left the listing since, and shows no more
\* twice than has entered it, a memory dated anew counting as both: a page is cut by an offset into whatever the
\* listing is then, and every memory that leaves or enters moves at most one
\* other across that offset.
THEOREM Pages == Spec => []PagesAddUp
<1>1. Typed /\ AddUp => PagesAddUp
  <2> SUFFICES ASSUME Typed, AddUp, NEW c \in Callers
               PROVE  /\ ~paging[c].open
                           => Cardinality(paging[c].due \ paging[c].seen) <= paging[c].left
                      /\ paging[c].repeated <= paging[c].entered
    BY DEF PagesAddUp
  <2> DEFINE p == paging[c]  S == Kept(p.filter, status)
  <2>1. p \in Walk /\ WalkAddsUp(p, created, S) /\ S \subseteq Ids
    BY TypeParts, KeptIds DEF Typed, PagingOK, AddUp
  <2> HIDE DEF p, S
  <2>2. p.repeated <= p.entered
    BY <2>1, WalkSets DEF WalkAddsUp
  <2> QED
    BY <2>1, <2>2 DEF WalkAddsUp, p
<1> QED
  BY <1>1, AlwaysTyped, AlwaysAddUp, PTL

\* Nothing left and nothing entered while a listing was walked: its pages are
\* the whole of it, once.
QuietListing ==
    \A c \in Callers :
      LET p == paging[c]
      IN  (~p.open /\ p.left = 0 /\ p.entered = 0) => p.due \subseteq p.seen /\ p.repeated = 0

\* Without writes in between, pages leave nothing out and repeat nothing.
THEOREM WholeListing == Spec => []QuietListing
<1>1. Typed /\ AddUp => QuietListing
  <2> SUFFICES ASSUME Typed, AddUp, NEW c \in Callers, ~paging[c].open,
                      paging[c].left = 0, paging[c].entered = 0
               PROVE  paging[c].due \subseteq paging[c].seen /\ paging[c].repeated = 0
    BY DEF QuietListing
  <2> DEFINE p == paging[c]  S == Kept(p.filter, status)
  <2>1. p \in Walk /\ WalkAddsUp(p, created, S) /\ S \subseteq Ids
    BY TypeParts, KeptIds DEF Typed, PagingOK, AddUp
  <2> HIDE DEF S
  <2>2. Cardinality(p.due \ p.seen) <= 0 /\ p.repeated <= 0
    BY <2>1 DEF WalkAddsUp
  <2>3. p.due \ p.seen \subseteq Ids /\ p.repeated \in Nat
    BY <2>1, WalkSets
  <2>4. Cardinality(p.due \ p.seen) = 0
    BY <2>2, <2>3, Counted
  <2>5. p.due \ p.seen = {}
    BY <2>3, <2>4, Counted
  <2> QED
    BY <2>2, <2>3, <2>5
<1> QED
  BY <1>1, AlwaysTyped, AlwaysAddUp, PTL

=============================================================================
