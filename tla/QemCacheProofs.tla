--------------------------- MODULE QemCacheProofs ---------------------------
(***************************************************************************)
(* What holds of the cache for any number of tasks, memories and codes.    *)
(*                                                                         *)
(* The argument is about the locks: whoever holds by_code for writing does *)
(* so while it inserts, whoever holds it for reading is about to make an   *)
(* association, and the two codes of that association stay cached until it *)
(* lets go. An entry that goes leaves its code in the stale set of the     *)
(* task that removed it until its associations are gone too.               *)
(***************************************************************************)
EXTENDS QemCache, FiniteSetTheorems, TLAPS

\* A task holds the locks its place in its call says, and no others; nobody
\* reads by_code while somebody writes it.
LocksOK ==
    /\ \A t \in Tasks : writer = t <=> pc[t] = "inserting"
    /\ \A t \in Tasks : t \in readers <=> pc[t] = "associating"
    /\ writer # NoTask => readers = {}

\* A call works on what its steps so far have found: a capture on a memory
\* and its code, a link on two codes that are cached as long as it holds
\* by_code.
ArgsOK == \A t \in Tasks :
    /\ pc[t] \in {"accepted", "novelty", "inserting"} =>
         arg[t].id \in Ids /\ arg[t].code \in Codes
    /\ pc[t] \in {"linked", "associating"} =>
         arg[t].id \in Ids /\ arg[t].target \in Ids /\ arg[t].relation \in Relations
    /\ pc[t] = "associating" => arg[t].code \in Cached /\ arg[t].object \in Cached
    /\ pc[t] \in {"deleted", "cleaning"} => arg[t].id \in Ids

\* Only a call that has still to drop associations keeps stale codes.
StaleOK == \A t \in Tasks : stale[t] # {} => pc[t] \in {"inserting", "cleaning"}

IInv == TypeOK /\ LocksOK /\ ArgsOK /\ StaleOK

-----------------------------------------------------------------------------
\* A cache just warmed satisfies the invariant: no call is running.
LEMMA InitInvariant == Init => IInv
  <1> SUFFICES ASSUME Init PROVE IInv
    OBVIOUS
  <1>1. TypeOK
    BY DEF Init, TypeOK, Arg, NoArg, PCs
  <1>2. LocksOK
    BY NullAssumption DEF Init, LocksOK
  <1>3. ArgsOK
    BY DEF Init, ArgsOK
  <1>4. StaleOK
    BY DEF Init, StaleOK
  <1> QED
    BY <1>1, <1>2, <1>3, <1>4 DEF IInv

\* A call that returns keeps pc, arg and stale of their types.
LEMMA ReturnType ==
  ASSUME TypeOK, NEW t \in Tasks, Return(t)
  PROVE  pc' \in [Tasks -> PCs] /\ arg' \in [Tasks -> Arg] /\ stale' \in [Tasks -> SUBSET Codes]
  BY DEF TypeOK, Return, Goto, PCs, Arg, NoArg

\* Every step keeps the values of their kinds.
LEMMA StepType ==
  ASSUME IInv, NEW t \in Tasks, Capture(t) \/ Link(t) \/ Remove(t)
  PROVE  TypeOK'
  <1> USE DEF TypeOK, Goto, PCs, locks
  <1>0. TypeOK /\ ArgsOK
    BY DEF IInv
  <1>1. CASE CaptureL2(t)
    <2>1. PICK i \in Ids, c \in Codes :
            /\ stored' \in {stored, stored \cup {i}}
            /\ arg' = [arg EXCEPT ![t] = [NoArg EXCEPT !.id = i, !.code = c]]
      BY <1>1 DEF CaptureL2
    <2>2. [NoArg EXCEPT !.id = i, !.code = c] \in Arg
      BY DEF NoArg, Arg
    <2> QED
      BY <1>0, <1>1, <2>1, <2>2 DEF CaptureL2
  <1>2. CASE LockNovelty(t)
    BY <1>0, <1>2 DEF LockNovelty
  <1>3. CASE EvictWeakest(t)
    BY <1>0, <1>3 DEF EvictWeakest, Cached
  <1>4. CASE Insert(t)
    <2>1. arg[t].id \in Ids /\ associations' \subseteq associations
      BY <1>0, <1>4 DEF Insert, ArgsOK, Without
    <2> QED
      BY <1>0, <1>4, <2>1, ReturnType DEF Insert
  <1>5. CASE LinkL2(t)
    <2>1. PICK i \in stored, j \in stored, r \in Relations :
            arg' = [arg EXCEPT ![t] = [NoArg EXCEPT !.id = i, !.target = j, !.relation = r]]
      BY <1>5 DEF LinkL2
    <2>2. [NoArg EXCEPT !.id = i, !.target = j, !.relation = r] \in Arg
      BY <1>0 DEF NoArg, Arg
    <2> QED
      BY <1>0, <1>5, <2>1, <2>2 DEF LinkL2
  <1>6. CASE FindBoth(t)
    <2>1. PICK c \in Codes, d \in Codes :
            arg' = [arg EXCEPT ![t].code = c, ![t].object = d]
      BY <1>6 DEF FindBoth, CodesOf
    <2>2. arg[t] \in Arg
      BY <1>0
    <2>3. [arg[t] EXCEPT !.code = c, !.object = d] \in Arg
      BY <2>2 DEF Arg
    <2>4. arg' = [arg EXCEPT ![t] = [arg[t] EXCEPT !.code = c, !.object = d]]
      BY <1>0, <2>1
    <2>5. arg' \in [Tasks -> Arg]
      BY <1>0, <2>3, <2>4
    <2> QED
      BY <1>0, <1>6, <2>5 DEF FindBoth
  <1>7. CASE FindMissing(t)
    BY <1>0, <1>7, ReturnType DEF FindMissing
  <1>8. CASE Associate(t)
    <2>1. PICK kept \in Capped(Others(arg[t].code, arg[t].relation)) :
            associations' = kept \cup
              {[subject |-> arg[t].code, relation |-> arg[t].relation,
                object |-> arg[t].object, memory |-> arg[t].target]}
      BY <1>8 DEF Associate
    <2>2. kept \subseteq associations
      BY <2>1 DEF Capped, Others
    <2>3. /\ arg[t].code \in Codes /\ arg[t].relation \in Relations
          /\ arg[t].object \in Codes /\ arg[t].target \in Ids
      BY <1>0, <1>8 DEF Associate, ArgsOK, Cached
    <2>4. associations' \subseteq Association
      BY <1>0, <2>1, <2>2, <2>3 DEF Association
    <2> QED
      BY <1>0, <1>8, <2>4, ReturnType DEF Associate
  <1>9. CASE DeleteL2(t)
    <2>1. PICK i \in stored :
            /\ stored' = stored \ {i}
            /\ arg' = [arg EXCEPT ![t] = [NoArg EXCEPT !.id = i]]
      BY <1>9 DEF DeleteL2
    <2>2. [NoArg EXCEPT !.id = i] \in Arg
      BY <1>0 DEF NoArg, Arg
    <2> QED
      BY <1>0, <1>9, <2>1, <2>2 DEF DeleteL2
  <1>10. CASE EvictEntries(t)
    <2>1. byCode' \in [Codes -> Ids \cup {NoId}]
      BY <1>0, <1>10 DEF EvictEntries
    <2>2. CASE CodesOf(arg[t].id) = {}
      BY <1>0, <1>10, <2>1, <2>2, ReturnType DEF EvictEntries
    <2>3. CASE CodesOf(arg[t].id) # {}
      BY <1>0, <1>10, <2>1, <2>3 DEF EvictEntries, CodesOf
    <2> QED
      BY <2>2, <2>3
  <1>11. CASE CleanAssociations(t)
    BY <1>0, <1>11, ReturnType DEF CleanAssociations, Without
  <1>12. CASE Consolidate(t)
    BY <1>0, <1>12 DEF Consolidate
  <1> QED
    BY <1>1, <1>2, <1>3, <1>4, <1>5, <1>6, <1>7, <1>8, <1>9, <1>10, <1>11, <1>12
       DEF Capture, Link, Remove

\* Every step keeps the locks with those whose place says so.
LEMMA StepLocks ==
  ASSUME IInv, NEW t \in Tasks, Capture(t) \/ Link(t) \/ Remove(t)
  PROVE  LocksOK'
  <1> USE NullAssumption DEF LocksOK, Goto, locks
  <1>0. pc \in [Tasks -> PCs] /\ LocksOK /\ readers \subseteq Tasks
    BY DEF IInv, TypeOK
  <1>1. CASE CaptureL2(t)
    BY <1>0, <1>1 DEF CaptureL2
  <1>2. CASE LockNovelty(t)
    BY <1>0, <1>2 DEF LockNovelty
  <1>3. CASE EvictWeakest(t)
    BY <1>0, <1>3 DEF EvictWeakest, Writable
  <1>4. CASE Insert(t)
    BY <1>0, <1>4 DEF Insert, Return
  <1>5. CASE LinkL2(t)
    BY <1>0, <1>5 DEF LinkL2
  <1>6. CASE FindBoth(t)
    BY <1>0, <1>6 DEF FindBoth, Readable
  <1>7. CASE FindMissing(t)
    BY <1>0, <1>7 DEF FindMissing, Return
  <1>8. CASE Associate(t)
    BY <1>0, <1>8 DEF Associate, Return
  <1>9. CASE DeleteL2(t)
    BY <1>0, <1>9 DEF DeleteL2
  <1>10. CASE EvictEntries(t)
    BY <1>0, <1>10 DEF EvictEntries, Return
  <1>11. CASE CleanAssociations(t)
    BY <1>0, <1>11 DEF CleanAssociations, Return
  <1>12. CASE Consolidate(t)
    BY <1>0, <1>12 DEF Consolidate
  <1> QED
    BY <1>1, <1>2, <1>3, <1>4, <1>5, <1>6, <1>7, <1>8, <1>9, <1>10, <1>11, <1>12
       DEF Capture, Link, Remove

\* Whoever removes an entry from by_code does so when nobody reads it; all
\* other steps keep every entry.
LEMMA CachedKept ==
  ASSUME IInv, NEW t \in Tasks, Capture(t) \/ Link(t) \/ Remove(t),
         NEW u \in Tasks, pc[u] = "associating"
  PROVE  Cached \subseteq Cached'
  <1>0. TypeOK /\ LocksOK /\ ArgsOK
    BY DEF IInv
  <1>1. readers # {} /\ writer = NoTask
    BY <1>0, NullAssumption DEF LocksOK, TypeOK
  <1>2. CASE Insert(t)
    BY <1>0, <1>1, <1>2, NullAssumption DEF LocksOK, Insert
  <1>3. CASE EvictWeakest(t) \/ EvictEntries(t)
    BY <1>1, <1>3 DEF EvictWeakest, EvictEntries, Writable
  <1>4. CASE byCode' = byCode
    BY <1>4 DEF Cached
  <1> QED
    BY <1>2, <1>3, <1>4 DEF Capture, Link, Remove, CaptureL2, LockNovelty, LinkL2,
       FindBoth, FindMissing, Associate, DeleteL2, CleanAssociations, Consolidate

\* The calls of the other tasks keep what they have found.
LEMMA OtherCalls ==
  ASSUME IInv, NEW t \in Tasks, Capture(t) \/ Link(t) \/ Remove(t), NEW u \in Tasks \ {t}
  PROVE  pc'[u] = pc[u] /\ arg'[u] = arg[u] /\ stale'[u] = stale[u]
  <1>0. /\ pc \in [Tasks -> PCs] /\ arg \in [Tasks -> Arg]
        /\ stale \in [Tasks -> SUBSET Codes]
    BY DEF IInv, TypeOK
  <1> HIDE DEF PCs, Arg
  <1>1. CASE Capture(t)
    BY <1>0, <1>1 DEF Capture, CaptureL2, LockNovelty, EvictWeakest, Insert, Return, Goto
  <1>2. CASE Link(t)
    BY <1>0, <1>2 DEF Link, LinkL2, FindBoth, FindMissing, Associate, Return, Goto
  <1>3. CASE Remove(t)
    BY <1>0, <1>3 DEF Remove, DeleteL2, EvictEntries, CleanAssociations, Consolidate, Return, Goto
  <1> QED
    BY <1>1, <1>2, <1>3

\* Every step leaves each call with what its next steps work on.
LEMMA StepArgs ==
  ASSUME IInv, NEW t \in Tasks, Capture(t) \/ Link(t) \/ Remove(t)
  PROVE  ArgsOK' /\ StaleOK'
  <1>0. TypeOK /\ ArgsOK /\ StaleOK /\ pc \in [Tasks -> PCs]
        /\ arg \in [Tasks -> Arg] /\ stale \in [Tasks -> SUBSET Codes]
    BY DEF IInv, TypeOK
  <1> DEFINE Has(u) ==
        /\ pc'[u] \in {"accepted", "novelty", "inserting"} =>
             arg'[u].id \in Ids /\ arg'[u].code \in Codes
        /\ pc'[u] \in {"linked", "associating"} =>
             arg'[u].id \in Ids /\ arg'[u].target \in Ids /\ arg'[u].relation \in Relations
        /\ pc'[u] = "associating" => arg'[u].code \in Cached' /\ arg'[u].object \in Cached'
        /\ pc'[u] \in {"deleted", "cleaning"} => arg'[u].id \in Ids
        /\ stale'[u] # {} => pc'[u] \in {"inserting", "cleaning"}
  <1>1. ASSUME NEW u \in Tasks, u # t PROVE Has(u)
    <2>1. pc'[u] = pc[u] /\ arg'[u] = arg[u] /\ stale'[u] = stale[u]
      BY <1>1, OtherCalls
    <2>2. pc[u] = "associating" => Cached \subseteq Cached'
      BY <1>1, CachedKept
    <2> QED
      BY <1>0, <1>1, <2>1, <2>2 DEF ArgsOK, StaleOK
  <1>2. Has(t)
    <2> USE DEF Goto
    <2>1. CASE CaptureL2(t)
      <3>1. PICK i \in Ids, c \in Codes :
              arg' = [arg EXCEPT ![t] = [NoArg EXCEPT !.id = i, !.code = c]]
        BY <2>1 DEF CaptureL2
      <3>2. arg'[t].id = i /\ arg'[t].code = c
        BY <1>0, <3>1 DEF NoArg
      <3> QED
        BY <1>0, <2>1, <3>2 DEF CaptureL2, StaleOK
    <2>2. CASE LockNovelty(t)
      BY <1>0, <2>2 DEF LockNovelty, ArgsOK, StaleOK
    <2>3. CASE EvictWeakest(t)
      BY <1>0, <2>3 DEF EvictWeakest, ArgsOK, StaleOK
    <2>4. CASE Return(t)
      BY <1>0, <2>4 DEF Return
    <2>5. CASE LinkL2(t)
      <3>1. PICK i \in stored, j \in stored, r \in Relations :
              arg' = [arg EXCEPT ![t] = [NoArg EXCEPT !.id = i, !.target = j, !.relation = r]]
        BY <2>5 DEF LinkL2
      <3>2. arg'[t].id = i /\ arg'[t].target = j /\ arg'[t].relation = r
        BY <1>0, <3>1 DEF NoArg
      <3> QED
        BY <1>0, <2>5, <3>2 DEF LinkL2, TypeOK, StaleOK
    <2>6. CASE FindBoth(t)
      <3>1. PICK c \in CodesOf(arg[t].id), d \in CodesOf(arg[t].target) :
              arg' = [arg EXCEPT ![t].code = c, ![t].object = d]
        BY <2>6 DEF FindBoth
      <3>2. /\ arg'[t].code = c /\ arg'[t].object = d /\ arg'[t].id = arg[t].id
            /\ arg'[t].target = arg[t].target /\ arg'[t].relation = arg[t].relation
        BY <1>0, <3>1 DEF Arg
      <3>3. /\ arg[t].id \in Ids /\ arg[t].target \in Ids /\ arg[t].relation \in Relations
            /\ stale[t] = {}
        BY <1>0, <2>6 DEF FindBoth, ArgsOK, StaleOK
      <3>4. c \in Cached' /\ d \in Cached'
        BY <2>6, <3>3, NullAssumption DEF FindBoth, Cached, CodesOf
      <3> QED
        BY <1>0, <2>6, <3>2, <3>3, <3>4 DEF FindBoth
    <2>7. CASE DeleteL2(t)
      <3>1. PICK i \in stored : arg' = [arg EXCEPT ![t] = [NoArg EXCEPT !.id = i]]
        BY <2>7 DEF DeleteL2
      <3>2. arg'[t].id = i
        BY <1>0, <3>1 DEF NoArg
      <3> QED
        BY <1>0, <2>7, <3>2 DEF DeleteL2, TypeOK, StaleOK
    <2>8. CASE EvictEntries(t)
      <3>1. CASE CodesOf(arg[t].id) # {}
        BY <1>0, <2>8, <3>1 DEF EvictEntries, ArgsOK
      <3> QED
        BY <2>4, <2>8, <3>1 DEF EvictEntries
    <2>9. CASE Consolidate(t)
      BY <1>0, <2>9 DEF Consolidate, ArgsOK, StaleOK, Cached
    <2> QED
      BY <2>1, <2>2, <2>3, <2>4, <2>5, <2>6, <2>7, <2>8, <2>9
         DEF Capture, Link, Remove, Insert, FindMissing, Associate, CleanAssociations
  <1>3. \A u \in Tasks : Has(u)
    BY <1>1, <1>2
  <1> QED
    BY <1>3 DEF ArgsOK, StaleOK

\* The invariant is inductive.
LEMMA StepInvariant == IInv /\ [Next]_vars => IInv'
  <1> SUFFICES ASSUME IInv, [Next]_vars PROVE IInv'
    OBVIOUS
  <1>1. CASE Next
    <2>1. PICK t \in Tasks : Capture(t) \/ Link(t) \/ Remove(t)
      BY <1>1 DEF Next
    <2> QED
      BY <2>1, StepType, StepLocks, StepArgs DEF IInv
  <1>2. CASE UNCHANGED vars
    BY <1>2 DEF vars, locks, IInv, TypeOK, LocksOK, ArgsOK, StaleOK, Cached
  <1> QED
    BY <1>1, <1>2

\* The invariant holds in every state of every behaviour.
LEMMA AlwaysIInv == Spec => []IInv
  BY InitInvariant, StepInvariant, PTL DEF Spec

\* The cache, its locks and the running calls always hold values of their
\* kinds, for any number of tasks, memories and codes.
THEOREM TypeCorrect == Spec => []TypeOK
  <1>1. IInv => TypeOK
    BY DEF IInv
  <1> QED
    BY <1>1, AlwaysIInv, PTL

-----------------------------------------------------------------------------
\* What is left of the associations without the codes of S mentions none.
LEMMA WithoutMentions ==
  ASSUME NEW S, NEW a \in Without(S)
  PROVE  a \in associations /\ a.subject \notin S /\ a.object \notin S
  BY DEF Without

\* An association is only made between cached codes, and an entry only goes
\* into the stale codes of the call that removes it, which drops them when
\* no association mentions them any more.
LEMMA StepBacked == IInv /\ AssociationsBacked /\ [Next]_vars => AssociationsBacked'
  <1> SUFFICES ASSUME IInv, AssociationsBacked, [Next]_vars PROVE AssociationsBacked'
    OBVIOUS
  <1>0. TypeOK /\ LocksOK /\ ArgsOK /\ StaleOK /\ pc \in [Tasks -> PCs]
        /\ arg \in [Tasks -> Arg] /\ stale \in [Tasks -> SUBSET Codes]
        /\ byCode \in [Codes -> Ids \cup {NoId}] /\ associations \subseteq Association
    BY DEF IInv, TypeOK
  <1>1. CASE UNCHANGED vars
    BY <1>1 DEF vars, AssociationsBacked, Cached
  <1>2. ASSUME NEW t \in Tasks, Capture(t) \/ Link(t) \/ Remove(t) PROVE AssociationsBacked'
    <2> DEFINE Held(c) == c \in Cached' \/ \E u \in Tasks : c \in stale'[u]
    <2>1. \A u \in Tasks \ {t} : stale'[u] = stale[u]
      BY <1>2, OtherCalls
    <2>2. SUFFICES ASSUME NEW a \in associations', NEW c \in {a.subject, a.object}
                   PROVE  Held(c)
      BY DEF AssociationsBacked
    <2>3. ASSUME a \in associations, Cached \subseteq Cached', stale[t] \subseteq stale'[t]
          PROVE  Held(c)
      BY <2>1, <2>3 DEF AssociationsBacked
    <2>4. ASSUME a \in Without(stale[t]), Cached \subseteq Cached' PROVE Held(c)
      BY <2>1, <2>4, WithoutMentions DEF AssociationsBacked
    <2>5. CASE byCode' = byCode /\ associations' = associations /\ stale' = stale
      BY <2>3, <2>5 DEF Cached
    <2>6. CASE EvictWeakest(t)
      <3>1. stale[t] = {} /\ associations' = associations
        BY <1>0, <2>6 DEF EvictWeakest, StaleOK
      <3>2. CASE UNCHANGED <<byCode, stale>>
        BY <2>3, <3>1, <3>2 DEF Cached
      <3>3. ASSUME NEW w \in Cached, byCode' = [byCode EXCEPT ![w] = NoId],
                   stale' = [stale EXCEPT ![t] = {w}]
            PROVE  Held(c)
        <4>1. Cached \ {w} \subseteq Cached'
          BY <1>0, <3>3 DEF Cached
        <4>2. w \in stale'[t]
          BY <1>0, <3>3
        <4> QED
          BY <2>1, <3>1, <4>1, <4>2 DEF AssociationsBacked
      <3> QED
        BY <2>6, <3>2, <3>3 DEF EvictWeakest
    <2>7. CASE Insert(t)
      <3>1. arg[t].id # NoId
        BY <1>0, <2>7, NullAssumption DEF Insert, ArgsOK
      <3>2. Cached \subseteq Cached'
        BY <1>0, <2>7, <3>1 DEF Insert, Cached
      <3> QED
        BY <2>4, <2>7, <3>2 DEF Insert
    <2>8. CASE FindMissing(t)
      <3>1. stale[t] = {}
        BY <1>0, <2>8 DEF FindMissing, StaleOK
      <3> QED
        BY <2>3, <2>8, <3>1 DEF FindMissing, Cached
    <2>9. CASE Associate(t)
      <3>1. stale[t] = {} /\ Cached' = Cached
        BY <1>0, <2>9 DEF Associate, StaleOK, Cached
      <3>2. arg[t].code \in Cached /\ arg[t].object \in Cached
        BY <1>0, <2>9 DEF Associate, ArgsOK
      <3>3. \/ a \in associations
            \/ a = [subject |-> arg[t].code, relation |-> arg[t].relation,
                    object |-> arg[t].object, memory |-> arg[t].target]
        BY <2>9 DEF Associate, Capped, Others
      <3>4. CASE a \in associations
        BY <2>3, <3>1, <3>4
      <3>5. CASE a \notin associations
        BY <3>1, <3>2, <3>3, <3>5
      <3> QED
        BY <3>4, <3>5
    <2>10. CASE EvictEntries(t)
      <3>1. stale[t] = {} /\ associations' = associations /\ arg[t].id \in Ids
        BY <1>0, <2>10 DEF EvictEntries, StaleOK, ArgsOK
      <3>2. Cached \ CodesOf(arg[t].id) \subseteq Cached'
        BY <1>0, <2>10 DEF EvictEntries, Cached, CodesOf
      <3>3. stale'[t] = CodesOf(arg[t].id)
        BY <1>0, <2>10 DEF EvictEntries, Return
      <3> QED
        BY <2>1, <3>1, <3>2, <3>3 DEF AssociationsBacked
    <2>11. CASE CleanAssociations(t)
      BY <2>4, <2>11 DEF CleanAssociations, Cached
    <2> QED
      BY <1>2, <2>5, <2>6, <2>7, <2>8, <2>9, <2>10, <2>11 DEF Capture, Link, Remove,
         CaptureL2, LockNovelty, LinkL2, FindBoth, DeleteL2, Consolidate
  <1> QED
    BY <1>1, <1>2 DEF Next

\* No association outlives the cached entries of its two codes, but for the
\* moment between the removal of an entry and the clean-up by the same call:
\* the locks capture, link and evict_by_id take are enough for that, however
\* many tasks call them.
THEOREM Backed == Spec => []AssociationsBacked
  <1>1. Init => AssociationsBacked
    BY DEF Init, AssociationsBacked
  <1> QED
    BY <1>1, AlwaysIInv, StepBacked, PTL DEF Spec

-----------------------------------------------------------------------------
\* A step only drops associations, or replaces those that share subject and
\* relation with the one it adds.
LEMMA AssociationSteps ==
  ASSUME IInv, [Next]_vars
  PROVE  \/ associations' \subseteq associations
         \/ \E t \in Tasks : Associate(t)
  <1>1. CASE UNCHANGED vars
    BY <1>1 DEF vars
  <1>2. ASSUME NEW t \in Tasks, Capture(t) \/ Link(t) \/ Remove(t)
        PROVE  associations' \subseteq associations \/ Associate(t)
    BY <1>2 DEF Capture, Link, Remove, CaptureL2, LockNovelty, EvictWeakest, Insert, LinkL2,
       FindBoth, FindMissing, DeleteL2, EvictEntries, CleanAssociations, Consolidate, Without
  <1> QED
    BY <1>1, <1>2 DEF Next

-----------------------------------------------------------------------------
\* n entries are not too many: within max_entries, or no more than warm loads.
Fits(n) == n <= MaxEntries \/ n <= WarmLimit

\* The entries fit, with room for the one a capture is about to insert; the
\* associations fit and are finitely many.
RoomInv ==
    /\ Fits(Cardinality(Cached))
    /\ \A t \in Tasks : pc[t] = "inserting" => Fits(Cardinality(Cached) + 1)
    /\ IsFiniteSet(associations) /\ Cardinality(associations) <= MaxAssociations

\* The cached codes are finitely many, as are those of any smaller cache.
LEMMA CachedFinite == IsFiniteSet(Cached) /\ IsFiniteSet(Cached')
  BY FiniteAssumption, FS_Subset DEF Cached

\* A cache with fewer entries fits too.
LEMMA SmallerFits ==
  ASSUME NEW m \in Nat, NEW n \in Nat, m <= n, Fits(n)
  PROVE  Fits(m)
  BY ConfigAssumption DEF Fits

\* While one capture inserts no other does, for it holds by_code.
LEMMA OneInserts ==
  ASSUME LocksOK, NEW t \in Tasks, NEW u \in Tasks, pc[t] = "inserting", pc[u] = "inserting"
  PROVE  t = u
  BY DEF LocksOK

\* An association is added only where another has made room at the limit.
LEMMA StepAssociationRoom ==
  ASSUME IInv, RoomInv, [Next]_vars
  PROVE  IsFiniteSet(associations') /\ Cardinality(associations') <= MaxAssociations
  <1>0. /\ IsFiniteSet(associations) /\ Cardinality(associations) \in Nat
        /\ Cardinality(associations) <= MaxAssociations /\ MaxAssociations \in Nat \ {0}
    BY ConfigAssumption, FS_CardinalityType DEF RoomInv
  <1>1. ASSUME NEW S \in SUBSET associations
        PROVE  IsFiniteSet(S) /\ Cardinality(S) \in Nat /\ Cardinality(S) <= MaxAssociations
    <2>1. IsFiniteSet(S) /\ Cardinality(S) <= Cardinality(associations)
      BY <1>0, FS_Subset
    <2> QED
      BY <1>0, <2>1, FS_CardinalityType
  <1>2. ASSUME NEW t \in Tasks, Associate(t)
        PROVE  IsFiniteSet(associations') /\ Cardinality(associations') <= MaxAssociations
    <2> DEFINE old == Others(arg[t].code, arg[t].relation)
               new == [subject |-> arg[t].code, relation |-> arg[t].relation,
                       object |-> arg[t].object, memory |-> arg[t].target]
    <2>1. PICK kept \in Capped(old) : associations' = kept \cup {new}
      BY <1>2 DEF Associate
    <2>2. IsFiniteSet(old) /\ Cardinality(old) \in Nat /\ Cardinality(old) <= MaxAssociations
      BY <1>1 DEF Others
    <2>3. IsFiniteSet(kept) /\ Cardinality(kept) \in Nat /\ Cardinality(kept) < MaxAssociations
      <3>1. CASE Cardinality(old) >= MaxAssociations
        <4>1. PICK a \in old : kept = old \ {a}
          BY <2>1, <3>1 DEF Capped
        <4>2. IsFiniteSet(kept) /\ Cardinality(kept) = Cardinality(old) - 1
          BY <2>2, <4>1, FS_RemoveElement
        <4> QED
          BY <1>0, <2>2, <4>2, FS_CardinalityType
      <3>2. CASE ~(Cardinality(old) >= MaxAssociations)
        <4>1. kept = old
          BY <2>1, <3>2 DEF Capped
        <4> QED
          BY <1>0, <2>2, <3>2, <4>1
      <3> QED
        BY <3>1, <3>2
    <2>4. IsFiniteSet(kept \cup {new}) /\ Cardinality(kept \cup {new}) <= Cardinality(kept) + 1
      <3>1. /\ IsFiniteSet(kept \cup {new})
            /\ Cardinality(kept \cup {new}) =
                 IF new \in kept THEN Cardinality(kept) ELSE Cardinality(kept) + 1
        BY <2>3, FS_AddElement
      <3> QED
        BY <2>3, <3>1
    <2>5. Cardinality(kept \cup {new}) \in Nat
      BY <2>4, FS_CardinalityType
    <2> QED
      BY <1>0, <2>1, <2>3, <2>4, <2>5
  <1> QED
    BY <1>1, <1>2, AssociationSteps

\* An entry is added only by the capture that made room for it.
LEMMA StepEntryRoom ==
  ASSUME IInv, RoomInv, NEW t \in Tasks, Capture(t) \/ Link(t) \/ Remove(t)
  PROVE  /\ Fits(Cardinality(Cached'))
         /\ \A u \in Tasks : pc'[u] = "inserting" => Fits(Cardinality(Cached') + 1)
  <1>0. TypeOK /\ LocksOK /\ ArgsOK /\ pc \in [Tasks -> PCs] /\ LocksOK'
        /\ byCode \in [Codes -> Ids \cup {NoId}]
    BY StepLocks DEF IInv, TypeOK
  <1>1. Cardinality(Cached) \in Nat /\ Cardinality(Cached') \in Nat
    BY CachedFinite, FS_CardinalityType
  <1>2. ASSUME Cached' \subseteq Cached, \A u \in Tasks : pc'[u] = "inserting" => pc[u] = "inserting"
        PROVE  /\ Fits(Cardinality(Cached'))
               /\ \A u \in Tasks : pc'[u] = "inserting" => Fits(Cardinality(Cached') + 1)
    <2>1. Cardinality(Cached') <= Cardinality(Cached)
      BY <1>2, CachedFinite, FS_Subset
    <2>2. Fits(Cardinality(Cached'))
      BY <1>1, <2>1, SmallerFits DEF RoomInv
    <2>3. Fits(Cardinality(Cached) + 1) => Fits(Cardinality(Cached') + 1)
      BY <1>1, <2>1, SmallerFits
    <2> QED
      BY <1>2, <2>2, <2>3 DEF RoomInv
  <1>3. CASE EvictWeakest(t)
    <2>1. CASE Cardinality(Cached) >= MaxEntries
      <3>1. PICK w \in Cached : byCode' = [byCode EXCEPT ![w] = NoId]
        BY <1>3, <2>1 DEF EvictWeakest
      <3>2. Cached' = Cached \ {w}
        BY <1>0, <3>1 DEF Cached
      <3>3. Cardinality(Cached') = Cardinality(Cached) - 1
        BY <3>1, <3>2, CachedFinite, FS_RemoveElement
      <3>4. Fits(Cardinality(Cached') + 1) /\ Fits(Cardinality(Cached'))
        BY <1>1, <3>3, SmallerFits DEF RoomInv
      <3> QED
        BY <3>4
    <2>2. CASE ~(Cardinality(Cached) >= MaxEntries)
      <3>1. Cached' = Cached
        BY <1>3, <2>2 DEF EvictWeakest, Cached
      <3>2. Fits(Cardinality(Cached) + 1)
        BY <1>1, <2>2, ConfigAssumption DEF Fits
      <3> QED
        BY <3>1, <3>2 DEF RoomInv
    <2> QED
      BY <2>1, <2>2
  <1>4. CASE Insert(t)
    <2>1. Cached' \subseteq Cached \cup {arg[t].code}
      BY <1>0, <1>4 DEF Insert, Cached
    <2>2. /\ IsFiniteSet(Cached \cup {arg[t].code})
          /\ Cardinality(Cached \cup {arg[t].code}) =
               IF arg[t].code \in Cached THEN Cardinality(Cached) ELSE Cardinality(Cached) + 1
      BY CachedFinite, FS_AddElement
    <2>3. Cardinality(Cached') <= Cardinality(Cached \cup {arg[t].code})
      BY <2>1, <2>2, FS_Subset
    <2>4. Cardinality(Cached') <= Cardinality(Cached) + 1
      BY <1>1, <2>2, <2>3
    <2>5. Fits(Cardinality(Cached'))
      BY <1>1, <1>4, <2>4, SmallerFits DEF Insert, RoomInv
    <2>6. \A u \in Tasks : pc'[u] # "inserting"
      <3>1. writer' = NoTask
        BY <1>4 DEF Insert
      <3> QED
        BY <1>0, <3>1, NullAssumption DEF LocksOK
    <2> QED
      BY <2>5, <2>6
  <1>5. CASE EvictEntries(t)
    <2>1. Cached' \subseteq Cached
      BY <1>0, <1>5 DEF EvictEntries, Cached
    <2>2. \A u \in Tasks : pc'[u] = "inserting" => pc[u] = "inserting"
      BY <1>0, <1>5 DEF EvictEntries, Return, Goto
    <2> QED
      BY <1>2, <2>1, <2>2
  <1>6. CASE byCode' = byCode /\ ~EvictWeakest(t) /\ ~Insert(t) /\ ~EvictEntries(t)
    <2>1. \A u \in Tasks : pc'[u] = "inserting" => pc[u] = "inserting"
      BY <1>0, <1>6 DEF Capture, Link, Remove, CaptureL2, LockNovelty, LinkL2, FindBoth,
         FindMissing, Associate, DeleteL2, CleanAssociations, Consolidate, Return, Goto
    <2> QED
      BY <1>2, <1>6, <2>1 DEF Cached
  <1> QED
    BY <1>3, <1>4, <1>5, <1>6 DEF Capture, Link, Remove, CaptureL2, LockNovelty, LinkL2,
       FindBoth, FindMissing, Associate, DeleteL2, CleanAssociations, Consolidate

\* The two tables of the cache never outgrow their limits: a capture leaves
\* by_code locked between making room and using it, and a link associations.
\* Only what warm loads may exceed max_entries, and no capture adds to it.
THEOREM Limits == Spec => []WithinLimits
  <1>1. Init => RoomInv
    <2> SUFFICES ASSUME Init PROVE RoomInv
      OBVIOUS
    <2>1. IsFiniteSet(associations) /\ Cardinality(associations) = 0
      BY FS_EmptySet DEF Init
    <2> QED
      BY <2>1, ConfigAssumption DEF Init, RoomInv, Fits
  <1>2. IInv /\ RoomInv /\ [Next]_vars => RoomInv'
    <2> SUFFICES ASSUME IInv, RoomInv, [Next]_vars PROVE RoomInv'
      OBVIOUS
    <2>1. IsFiniteSet(associations') /\ Cardinality(associations') <= MaxAssociations
      BY StepAssociationRoom
    <2>2. CASE UNCHANGED vars
      BY <2>2 DEF vars, RoomInv, Fits, Cached
    <2>3. CASE Next
      BY <2>1, <2>3, StepEntryRoom DEF Next, RoomInv, Fits
    <2> QED
      BY <2>2, <2>3
  <1>3. RoomInv => WithinLimits
    BY DEF RoomInv, WithinLimits, Fits
  <1> QED
    BY <1>1, <1>2, <1>3, AlwaysIInv, PTL DEF Spec

-----------------------------------------------------------------------------
(***************************************************************************)
(* No deadlock                                                             *)
(*                                                                         *)
(* CallsReturn needs fairness and stays with TLC. What it rests on is a    *)
(* state property: the calls wait for each other along novelty, by_code    *)
(* and no further, so a running call always finds one that need not wait.  *)
(***************************************************************************)

\* Task t cannot take its next step while u holds a lock.
WaitsFor(t, u) ==
    \/ pc[t] = "accepted" /\ novelty = u
    \/ pc[t] = "novelty" /\ (writer = u \/ u \in readers)
    \/ pc[t] = "linked" /\ writer = u
    \/ pc[t] = "deleted" /\ (writer = u \/ u \in readers)

\* No task waits for one that waits for one that waits: above all, no ring of
\* tasks of any size waits for itself.
ShortWaits == \A t, u, v, w \in Tasks : ~(WaitsFor(t, u) /\ WaitsFor(u, v) /\ WaitsFor(v, w))

\* While calls are running, one of them waits for nobody.
SomeoneRuns ==
    (\E t \in Tasks : pc[t] # "idle") =>
        \E t \in Tasks : pc[t] # "idle" /\ \A u \in Tasks : ~WaitsFor(t, u)

\* novelty is held from its lock to the end of the insertion.
NoveltyOK == \A t \in Tasks : novelty = t <=> pc[t] \in {"novelty", "inserting"}

LEMMA StepNovelty == IInv /\ NoveltyOK /\ [Next]_vars => NoveltyOK'
  <1> SUFFICES ASSUME IInv, NoveltyOK, [Next]_vars, NEW u \in Tasks
               PROVE  novelty' = u <=> pc'[u] \in {"novelty", "inserting"}
    BY DEF NoveltyOK
  <1>1. novelty = u <=> pc[u] \in {"novelty", "inserting"}
    BY DEF NoveltyOK
  <1>2. pc \in [Tasks -> PCs] /\ NoTask \notin Tasks
    BY NullAssumption DEF IInv, TypeOK
  <1>3. CASE UNCHANGED vars
    BY <1>1, <1>3 DEF vars, locks
  <1>4. ASSUME NEW t \in Tasks, Capture(t)
        PROVE  novelty' = u <=> pc'[u] \in {"novelty", "inserting"}
    <2>1. CASE CaptureL2(t)
      BY <1>1, <1>2, <2>1 DEF CaptureL2, Goto, locks
    <2>2. CASE LockNovelty(t)
      BY <1>1, <1>2, <2>2 DEF LockNovelty, Goto
    <2>3. CASE EvictWeakest(t)
      BY <1>1, <1>2, <2>3 DEF EvictWeakest, Goto
    <2>4. CASE Insert(t)
      <3>1. novelty = t
        BY <2>4 DEF Insert, NoveltyOK
      <3> QED
        BY <1>1, <1>2, <2>4, <3>1 DEF Insert, Return, Goto
    <2> QED
      BY <1>4, <2>1, <2>2, <2>3, <2>4 DEF Capture
  <1>5. ASSUME NEW t \in Tasks, Link(t)
        PROVE  novelty' = u <=> pc'[u] \in {"novelty", "inserting"}
    BY <1>1, <1>2, <1>5
       DEF Link, LinkL2, FindBoth, FindMissing, Associate, Return, Goto, locks
  <1>6. ASSUME NEW t \in Tasks, Remove(t)
        PROVE  novelty' = u <=> pc'[u] \in {"novelty", "inserting"}
    BY <1>1, <1>2, <1>6
       DEF Remove, DeleteL2, EvictEntries, CleanAssociations, Consolidate, Return, Goto, locks
  <1> QED
    BY <1>3, <1>4, <1>5, <1>6 DEF Next

\* Only a task that holds novelty and waits for by_code is waited for and
\* waits itself.
LEMMA Waits ==
    ASSUME IInv, NoveltyOK, NEW t \in Tasks, NEW u \in Tasks, WaitsFor(t, u)
    PROVE  /\ pc[u] \in {"novelty", "inserting", "associating"}
           /\ pc[u] = "novelty" => pc[t] = "accepted"
           /\ pc[u] # "novelty" => \A v \in Tasks : ~WaitsFor(u, v)
  <1>1. pc[u] \in {"novelty", "inserting", "associating"}
    BY DEF WaitsFor, NoveltyOK, IInv, LocksOK
  <1>2. pc[u] = "novelty" => pc[t] = "accepted"
    BY DEF WaitsFor, IInv, LocksOK
  <1> QED
    BY <1>1, <1>2 DEF WaitsFor

LEMMA NobodyStuck == IInv /\ NoveltyOK => ShortWaits /\ SomeoneRuns
  <1> SUFFICES ASSUME IInv, NoveltyOK PROVE ShortWaits /\ SomeoneRuns
    OBVIOUS
  <1>1. ASSUME NEW t \in Tasks, NEW u \in Tasks, NEW v \in Tasks,
               WaitsFor(t, u), WaitsFor(u, v)
        PROVE  pc[v] # "idle" /\ \A w \in Tasks : ~WaitsFor(v, w)
    <2>1. pc[u] = "novelty"
      BY <1>1, Waits
    <2>2. pc[v] # "novelty"
      BY <1>1, <2>1, Waits
    <2>3. pc[v] # "idle"
      BY <1>1, Waits
    <2> QED
      BY <1>1, <2>2, <2>3, Waits
  <1>2. ShortWaits
    BY <1>1 DEF ShortWaits
  <1>3. ASSUME NEW t \in Tasks, NEW u \in Tasks, WaitsFor(t, u) PROVE pc[u] # "idle"
    BY <1>3, Waits
  <1>4. SomeoneRuns
    BY <1>1, <1>3 DEF SomeoneRuns
  <1> QED
    BY <1>2, <1>4

\* The locks of QemCache cannot deadlock: capture (novelty, then by_code),
\* link (by_code for reading) and evict_by_id (by_code) wait for one another
\* in no ring, and of the calls under way one can always go on.
THEOREM NoDeadlock == Spec => [](ShortWaits /\ SomeoneRuns)
  <1>1. Init => NoveltyOK
    BY NullAssumption DEF Init, NoveltyOK
  <1> QED
    BY <1>1, StepNovelty, NobodyStuck, AlwaysIInv, PTL DEF Spec

=============================================================================
