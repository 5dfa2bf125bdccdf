---------------------------- MODULE MemoryVault ----------------------------
(***************************************************************************)
(* What a vault promises its clients and its sync peers, without tables,   *)
(* statements or connections: a map from ids to memories in which every    *)
(* call is one step, and the set of deletions still to be announced.       *)
(*                                                                         *)
(* A memory leaves the map in two ways only: a local removal announces     *)
(* every id it removes in the same step; a removal ordered by a peer       *)
(* announces nothing.  EngramVault is shown to implement this module.      *)
(***************************************************************************)
EXTENDS Naturals

CONSTANTS
    Ids,      \* memory ids
    Hashes,   \* contents
    NoHash,   \* the content of no memory
    MaxTime   \* bound: timestamps

VARIABLES
    memories, \* id -> memory, Gone where there is none
    announced \* ids whose deletion is waiting to be pushed

mvars == <<memories, announced>>

Never == 0
Times == 1..MaxTime
Memory == [hash: Hashes, modified: Times, synced: Never..MaxTime]

Gone == [hash |-> NoHash, modified |-> 0, synced |-> Never]

Present == {i \in Ids : memories[i].modified # 0}

Init == memories = [i \in Ids |-> Gone] /\ announced = {}

\* A stored memory keeps the cursor of the one it replaces; a new one was
\* never synced.
Store(i, h, m) ==
    /\ memories' = [memories EXCEPT ![i] =
         [hash |-> h, modified |-> m, synced |-> @.synced]]
    /\ UNCHANGED announced

\* A repeated capture or a new link makes a memory due for a push again.
Restamp(i, m) ==
    /\ i \in Present
    /\ memories' = [memories EXCEPT ![i].modified = m]
    /\ UNCHANGED announced

Remove(S) ==
    /\ S \subseteq Present /\ S \cap announced = {}
    /\ memories' = [i \in Ids |-> IF i \in S THEN Gone ELSE memories[i]]
    /\ announced' = announced \cup S

ApplyRemote(i) ==
    /\ memories' = [memories EXCEPT ![i] = Gone]
    /\ UNCHANGED announced

\* Moves the cursors of the memories in S, and nothing else.
MoveCursors(S, at) ==
    /\ memories' = [i \in Ids |-> IF i \in S THEN [memories[i] EXCEPT !.synced = at[i]]
                                             ELSE memories[i]]
    /\ UNCHANGED announced

Announce(i) == announced' = announced \cup {i} /\ UNCHANGED memories
Acknowledge(S) == announced' = announced \ S /\ UNCHANGED memories

Next ==
    \/ \E i \in Ids :
         \/ \E m \in Times : Restamp(i, m) \/ \E h \in Hashes : Store(i, h, m)
         \/ ApplyRemote(i) \/ Announce(i)
    \/ \E S \in SUBSET Ids : Remove(S) \/ Acknowledge(S)
    \/ \E S \in SUBSET Present : \E at \in [S -> Never..MaxTime] : MoveCursors(S, at)

Spec == Init /\ [][Next]_mvars

=============================================================================
