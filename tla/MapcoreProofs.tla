---------------------------- MODULE MapcoreProofs ----------------------------
(***************************************************************************)
(* Theorems about Mapcore, for any people, titles, keys and requests: type *)
(* correctness, that at most one transaction talks to mAP about the        *)
(* project, and what the algorithm of a download achieves.                 *)
(***************************************************************************)
EXTENDS Mapcore, TLAPS

(***************************************************************************)
(* The inductive invariant.  A transaction that talks to mAP has the row.  *)
(***************************************************************************)
DatabaseOK == db \in Project /\ disk \in Project /\ owner \in Atomic \cup {None}

LocalOK ==
    /\ pc \in [Requests -> Places]
    /\ my \in [Requests -> Row \cup {None}]
    /\ \A w \in Requests : my[w] = None <=> pc[w] = "idle"
    /\ todo \in [Requests -> SUBSET (Call \cup Edit)]
    /\ outcome \in [Requests -> {"none", "ok", "error", "logged"}]

GroupOK == group \in [Keys -> Group]

BoundsOK == edits \in 0..MaxEdits /\ mapEdits \in 0..MaxMapEdits /\ failures \in 0..MaxFailures

Holds == \A w \in Atomic : Talks(w) => owner = w

IInv == DatabaseOK /\ LocalOK /\ GroupOK /\ BoundsOK /\ Holds

-----------------------------------------------------------------------------
LEMMA RowFields ==
    ASSUME NEW r \in Row
    PROVE  /\ \A t \in Titles : [r EXCEPT !.title = t] \in Row
           /\ \A k \in Keys : [r EXCEPT !.key = k] \in Row
           /\ \A b \in BOOLEAN : [r EXCEPT !.standby = b] \in Row
           /\ \A b \in BOOLEAN : [r EXCEPT !.locked = b] \in Row
           /\ \A b \in BOOLEAN : [r EXCEPT !.deleted = b] \in Row
           /\ r # None
BY MapcoreAssumption DEF Row

LEMMA ProjectFields ==
    ASSUME NEW p \in Project
    PROVE  /\ p.row \in Row /\ p.members \in Members /\ p.visible \in SUBSET Users
           /\ \A r \in Row : [p EXCEPT !.row = r] \in Project
BY DEF Project

LEMMA SeenIsProject == ASSUME IInv, NEW w \in Requests PROVE Seen(w) \in Project
BY DEF IInv, DatabaseOK, Seen

LEMMA BusyHasRow ==
    ASSUME IInv, NEW w \in Requests, pc[w] # "idle"
    PROVE  my[w] \in Row
BY DEF IInv, LocalOK

(***************************************************************************)
(* What a request that moves to another place owes the invariant.          *)
(***************************************************************************)
Moves(w, place) ==
    /\ place \in Places \ {"idle"}
    /\ pc[w] # "idle"
    /\ Goto(w, place)

LEMMA MoveKeepsLocal ==
    ASSUME IInv, NEW w \in Requests, NEW place, Moves(w, place),
           my' = my \/ \E r \in Row : my' = [my EXCEPT ![w] = r],
           todo' = todo \/ \E C \in SUBSET (Call \cup Edit) : todo' = [todo EXCEPT ![w] = C],
           outcome' = outcome \/
              \E o \in {"none", "ok", "error", "logged"} : outcome' = [outcome EXCEPT ![w] = o]
    PROVE  LocalOK' /\ pc'[w] = place /\ \A v \in Requests \ {w} : pc'[v] = pc[v]
<1> USE DEF Moves, Goto
<1>1. /\ my' \in [Requests -> Row \cup {None}] /\ my'[w] # None
      /\ \A v \in Requests \ {w} : my'[v] = my[v]
  BY RowFields DEF IInv, LocalOK
<1>2. pc' \in [Requests -> Places] /\ pc'[w] = place /\ \A v \in Requests \ {w} : pc'[v] = pc[v]
  BY DEF IInv, LocalOK
<1>3. \A v \in Requests : my'[v] = None <=> pc'[v] = "idle"
  BY <1>1, <1>2 DEF IInv, LocalOK
<1>4. todo' \in [Requests -> SUBSET (Call \cup Edit)]
  BY DEF IInv, LocalOK
<1>5. outcome' \in [Requests -> {"none", "ok", "error", "logged"}]
  BY DEF IInv, LocalOK
<1> QED  BY <1>1, <1>2, <1>3, <1>4, <1>5 DEF LocalOK

LEMMA LeaveKeepsLocal ==
    ASSUME IInv, NEW w \in Requests, Leave(w)
    PROVE  LocalOK' /\ pc'[w] = "idle" /\ \A v \in Requests \ {w} : pc'[v] = pc[v]
BY DEF IInv, LocalOK, Leave, Goto, Places

LEMMA StayKeepsLocal == ASSUME IInv, UNCHANGED local PROVE LocalOK'
BY DEF IInv, LocalOK, local

(***************************************************************************)
(* What a write does to the lock of the row.                               *)
(***************************************************************************)
LEMMA WriteKeepsDatabase ==
    ASSUME IInv, NEW w \in Requests, NEW p \in Project, Write(w, p)
    PROVE  /\ DatabaseOK'
           /\ w \in Atomic => owner' = w
           /\ \A v \in Atomic \ {w} : owner = v => owner' = v
BY MapcoreAssumption DEF IInv, DatabaseOK, Write, Requests

(***************************************************************************)
(* The others go on holding the row if they talk.                          *)
(***************************************************************************)
LEMMA HoldsStays ==
    ASSUME IInv, NEW w \in Requests,
           \A v \in Requests \ {w} : pc'[v] = pc[v],
           \A v \in Atomic \ {w} : owner = v => owner' = v,
           w \in Atomic /\ Talks(w)' => owner' = w
    PROVE  Holds'
BY DEF IInv, Holds, Talks, Requests

LEMMA InitInv == Init => IInv
<1> SUFFICES ASSUME Init PROVE IInv
  OBVIOUS
<1> USE MapcoreAssumption DEF Init
<1>1. OnlyAdmin(Creator) \in Members
  BY DEF OnlyAdmin, Members, Roles
<1>2. db.row \in Row /\ db.visible \subseteq Users
  BY DEF Row
<1>3. DatabaseOK
  BY <1>1, <1>2 DEF DatabaseOK, Project
<1>4. GroupOK
  BY <1>1 DEF GroupOK, Group
<1>5. LocalOK
  BY DEF LocalOK, Places
<1>6. BoundsOK
  BY DEF BoundsOK
<1>7. Holds
  BY DEF Holds, Talks, Requests
<1> QED  BY <1>3, <1>4, <1>5, <1>6, <1>7 DEF IInv

-----------------------------------------------------------------------------
(***************************************************************************)
(* The view loads the project, and changes it.                             *)
(***************************************************************************)
LEMMA LoadKeepsInv ==
    ASSUME IInv, NEW w \in Requests, Load(w)
    PROVE  IInv'
<1> USE MapcoreAssumption DEF Load
<1>1. DatabaseOK' /\ GroupOK'
  BY DEF IInv, DatabaseOK, GroupOK, database
<1>2. BoundsOK'
  BY DEF IInv, BoundsOK
<1>3. disk.row \in Row
  BY ProjectFields DEF IInv, DatabaseOK
<1>4. PICK place \in {"lock", "edit"} : pc' = [pc EXCEPT ![w] = place]
  BY DEF Goto
<1>5. /\ pc' \in [Requests -> Places] /\ pc'[w] = place /\ \A v \in Requests \ {w} : pc'[v] = pc[v]
      /\ my' \in [Requests -> Row \cup {None}] /\ my'[w] # None
      /\ \A v \in Requests \ {w} : my'[v] = my[v]
  BY <1>3, <1>4 DEF IInv, LocalOK, Places
<1>6. LocalOK'
  BY <1>5 DEF IInv, LocalOK
<1>7. Holds'
  BY <1>5, HoldsStays DEF Talks, database
<1> QED  BY <1>1, <1>2, <1>6, <1>7 DEF IInv

LEMMA EditNodeKeepsInv ==
    ASSUME IInv, NEW w \in Requests, EditNode(w)
    PROVE  IInv'
<1> USE DEF EditNode
<1>1. PICK t, r :
        /\ t \in Titles
        /\ r = [my[w] EXCEPT !.title = t]
        /\ WriteRow(w, r)
        /\ my' = [my EXCEPT ![w] = r]
  OBVIOUS
<1>2. r \in Row
  BY <1>1, BusyHasRow, RowFields
<1>3. [Seen(w) EXCEPT !.row = r] \in Project
  BY <1>2, SeenIsProject, ProjectFields
<1>4. DatabaseOK' /\ \A v \in Atomic \ {w} : owner = v => owner' = v
  BY <1>1, <1>3, WriteKeepsDatabase DEF WriteRow
<1>5. Moves(w, "lock")
  BY DEF Moves, Places
<1>6. LocalOK' /\ pc'[w] = "lock" /\ \A v \in Requests \ {w} : pc'[v] = pc[v]
  BY <1>1, <1>2, <1>5, MoveKeepsLocal
<1>7. GroupOK' /\ BoundsOK'
  BY DEF IInv, GroupOK, BoundsOK, bounds
<1>8. Holds'
  BY <1>4, <1>6, HoldsStays DEF Talks
<1> QED  BY <1>4, <1>6, <1>7, <1>8 DEF IInv

LEMMA CheckContributorsKeepsInv ==
    ASSUME IInv, NEW w \in Requests, CheckContributors(w)
    PROVE  IInv'
<1> USE MapcoreAssumption DEF CheckContributors
<1> DEFINE added(u) == Seen(w).members[u] = "none"
<1>1. PICK u \in Registered, r \in Roles, shown \in BOOLEAN :
        todo' = [todo EXCEPT ![w] =
           {[user |-> u, role |-> r, shown |-> shown, added |-> added(u)]}]
  OBVIOUS
<1>2. [user |-> u, role |-> r, shown |-> shown, added |-> added(u)] \in Edit
  BY <1>1 DEF Edit
<1>3. Moves(w, "save")
  BY DEF Moves, Places
<1>4. LocalOK' /\ pc'[w] = "save" /\ \A v \in Requests \ {w} : pc'[v] = pc[v]
  BY <1>1, <1>2, <1>3, MoveKeepsLocal
<1>5. DatabaseOK' /\ GroupOK' /\ BoundsOK'
  BY DEF IInv, DatabaseOK, GroupOK, BoundsOK, bounds, database
<1>6. Holds'
  BY <1>4, HoldsStays DEF Talks, database
<1> QED  BY <1>4, <1>5, <1>6 DEF IInv

LEMMA AbortKeepsDatabase ==
    ASSUME IInv, NEW w \in Requests, Abort(w)
    PROVE  /\ DatabaseOK' /\ LocalOK' /\ Holds'
<1>1. DatabaseOK' /\ \A v \in Atomic \ {w} : owner = v => owner' = v
  BY DEF Abort, IInv, DatabaseOK
<1>2. LocalOK' /\ pc'[w] = "idle" /\ \A v \in Requests \ {w} : pc'[v] = pc[v]
  BY LeaveKeepsLocal DEF Abort
<1>3. Holds'
  BY <1>1, <1>2, HoldsStays DEF Talks
<1> QED  BY <1>1, <1>2, <1>3

LEMMA SaveContributorsKeepsInv ==
    ASSUME IInv, NEW w \in Requests, SaveContributors(w)
    PROVE  IInv'
<1> USE DEF SaveContributors
<1>1. GroupOK' /\ BoundsOK'
  BY DEF IInv, GroupOK, BoundsOK, bounds
<1>2. CASE Abort(w)
  BY <1>1, <1>2, AbortKeepsDatabase DEF IInv
<1>3. CASE ~Abort(w)
  <2>1. PICK c, role, b :
          /\ c \in todo[w]
          /\ role \in {c.role, "none"}
          /\ Write(w, [row     |-> my[w],
                       members |-> [Seen(w).members EXCEPT ![c.user] = role],
                       visible |-> Shown(Seen(w).visible, c.user, b)])
          /\ todo' = [todo EXCEPT ![w] = {}]
          /\ Goto(w, "lock")
          /\ UNCHANGED <<my, outcome>>
    BY <1>3
  <2>2. c \in Call \cup Edit /\ my[w] \in Row
    BY <2>1, BusyHasRow DEF IInv, LocalOK
  <2>3. [Seen(w).members EXCEPT ![c.user] = role] \in Members
    <3>1. role \in Roles
      BY <2>1, <2>2 DEF Call, Edit, Roles
    <3>2. Seen(w).members \in Members
      BY SeenIsProject, ProjectFields
    <3> QED  BY <3>1, <3>2 DEF Members
  <2>4. [row     |-> my[w],
         members |-> [Seen(w).members EXCEPT ![c.user] = role],
         visible |-> Shown(Seen(w).visible, c.user, b)] \in Project
    <3>1. c.user \in Users
      BY <2>2 DEF Call, Edit
    <3>2. Shown(Seen(w).visible, c.user, b) \subseteq Users
      BY <3>1, SeenIsProject, ProjectFields DEF Shown
    <3> QED  BY <2>2, <2>3, <3>2 DEF Project
  <2>5. DatabaseOK' /\ \A v \in Atomic \ {w} : owner = v => owner' = v
    BY <2>1, <2>4, WriteKeepsDatabase
  <2>6. Moves(w, "lock")
    BY <2>1 DEF Moves, Places
  <2>7. LocalOK' /\ pc'[w] = "lock" /\ \A v \in Requests \ {w} : pc'[v] = pc[v]
    BY <2>1, <2>6, MoveKeepsLocal
  <2>8. Holds'
    BY <2>5, <2>7, HoldsStays DEF Talks
  <2> QED  BY <1>1, <2>5, <2>7, <2>8 DEF IInv
<1> QED  BY <1>2, <1>3

LEMMA SaveNodeKeepsInv ==
    ASSUME IInv, NEW w \in Requests, SaveNode(w)
    PROVE  IInv'
<1> USE DEF SaveNode
<1>1. GroupOK' /\ BoundsOK'
  BY DEF IInv, GroupOK, BoundsOK, bounds
<1>2. DatabaseOK'
  BY BusyHasRow, ProjectFields DEF IInv, DatabaseOK
<1>3. LocalOK' /\ pc'[w] = "idle" /\ \A v \in Requests \ {w} : pc'[v] = pc[v]
  BY LeaveKeepsLocal
<1>4. Holds'
  BY <1>3, HoldsStays DEF Talks
<1> QED  BY <1>1, <1>2, <1>3, <1>4 DEF IInv

-----------------------------------------------------------------------------
(***************************************************************************)
(* The flag, and what is to be done.                                       *)
(***************************************************************************)
LEMMA LockNodeKeepsInv ==
    ASSUME IInv, NEW w \in Requests, LockNode(w)
    PROVE  IInv'
<1> USE DEF LockNode
<1>1. GroupOK' /\ BoundsOK'
  BY DEF IInv, GroupOK, BoundsOK, bounds
<1>2. [Seen(w) EXCEPT !.row = [Seen(w).row EXCEPT !.locked = TRUE]] \in Project
  BY SeenIsProject, ProjectFields, RowFields
<1>3. /\ DatabaseOK' /\ (w \in Atomic => owner' = w)
      /\ \A v \in Atomic \ {w} : owner = v => owner' = v
  BY <1>2, WriteKeepsDatabase DEF WriteRow
<1>4. PICK place \in {"decide", "title"} : Moves(w, place)
  BY DEF Moves, Places
<1>5. LocalOK' /\ pc'[w] = place /\ \A v \in Requests \ {w} : pc'[v] = pc[v]
  BY <1>4, MoveKeepsLocal
<1>6. Holds'
  BY <1>3, <1>5, HoldsStays
<1> QED  BY <1>1, <1>3, <1>5, <1>6 DEF IInv

LEMMA FindLockedKeepsInv ==
    ASSUME IInv, NEW w \in Requests, FindLocked(w)
    PROVE  IInv'
<1> USE MapcoreAssumption DEF FindLocked
<1>1. GroupOK' /\ BoundsOK' /\ DatabaseOK' /\ LocalOK'
  BY DEF IInv, GroupOK, BoundsOK, DatabaseOK, LocalOK, bounds, local
<1>2. Holds'
  BY HoldsStays DEF local, Requests
<1> QED  BY <1>1, <1>2 DEF IInv

LEMMA EndWithMoves ==
    ASSUME IInv, NEW w \in Requests, pc[w] # "idle",
           NEW o \in {"none", "ok", "error", "logged"}, EndWith(w, o),
           my' = my \/ \E r \in Row : my' = [my EXCEPT ![w] = r]
    PROVE  LocalOK' /\ pc'[w] = "unlock" /\ \A v \in Requests \ {w} : pc'[v] = pc[v]
<1>1. Moves(w, "unlock")
  BY DEF EndWith, Moves, Places
<1> QED  BY <1>1, MoveKeepsLocal DEF EndWith

LEMMA SkipKeepsInv ==
    ASSUME IInv, NEW w \in Requests, Skip(w)
    PROVE  IInv'
<1> USE DEF Skip
<1>1. GroupOK' /\ BoundsOK' /\ DatabaseOK'
  BY DEF IInv, GroupOK, BoundsOK, DatabaseOK, bounds, database
<1>2. LocalOK' /\ pc'[w] = "unlock" /\ \A v \in Requests \ {w} : pc'[v] = pc[v]
  BY EndWithMoves
<1>3. Holds'
  BY <1>2, HoldsStays DEF IInv, Holds, Talks, database
<1> QED  BY <1>1, <1>2, <1>3 DEF IInv

LEMMA DecideKeepsInv ==
    ASSUME IInv, NEW w \in Requests, Decide(w)
    PROVE  IInv'
<1> USE DEF Decide
<1>1. GroupOK' /\ BoundsOK' /\ DatabaseOK'
  BY DEF IInv, GroupOK, BoundsOK, DatabaseOK, bounds, database
<1>2. PICK place \in {"create", "title", "download"} : Moves(w, place)
  BY DEF Moves, Places
<1>3. LocalOK' /\ pc'[w] = place /\ \A v \in Requests \ {w} : pc'[v] = pc[v]
  BY <1>2, MoveKeepsLocal
<1>4. Holds'
  BY <1>3, HoldsStays DEF IInv, Holds, Talks, database
<1> QED  BY <1>1, <1>3, <1>4 DEF IInv

-----------------------------------------------------------------------------
(***************************************************************************)
(* The calls to mAP.  What a request that talks writes keeps the row, and  *)
(* what it reads of a group is the data of a group.                        *)
(***************************************************************************)
LEMMA TalkerWrites ==
    ASSUME IInv, NEW w \in Requests, Talks(w), NEW p \in Project, Write(w, p),
           \A v \in Requests \ {w} : pc'[v] = pc[v]
    PROVE  DatabaseOK' /\ Holds'
<1>1. /\ DatabaseOK' /\ (w \in Atomic => owner' = w)
      /\ \A v \in Atomic \ {w} : owner = v => owner' = v
  BY WriteKeepsDatabase
<1> QED  BY <1>1, HoldsStays

LEMMA TalkerKeepsDatabase ==
    ASSUME IInv, NEW w \in Requests, Talks(w), UNCHANGED database,
           \A v \in Requests \ {w} : pc'[v] = pc[v]
    PROVE  DatabaseOK' /\ Holds'
<1>1. DatabaseOK'
  BY DEF IInv, DatabaseOK, database
<1>2. Holds'
  BY HoldsStays DEF IInv, Holds, database
<1> QED  BY <1>1, <1>2

LEMMA FailureIsCounted == ASSUME IInv, CallFails PROVE failures' \in 0..MaxFailures
BY MapcoreAssumption DEF IInv, BoundsOK, CallFails

LEMMA LinkedGroup ==
    ASSUME IInv, NEW w \in Requests, pc[w] # "idle", Linked(w)
    PROVE  my[w].key \in Keys /\ GroupOf(w) \in Group
<1>1. my[w].key \in Keys
  BY BusyHasRow DEF Linked, Row
<1> QED  BY <1>1 DEF GroupOf, IInv, GroupOK

LEMMA GroupFields ==
    ASSUME NEW g \in Group
    PROVE  /\ g.title \in Titles /\ g.members \in Members
           /\ \A t \in Titles : [g EXCEPT !.title = t] \in Group
           /\ \A u \in Users, r \in Roles : [g EXCEPT !.members[u] = r] \in Group
           /\ [g EXCEPT !.state = "gone"] \in Group
BY DEF Group, Members

LEMMA RemoveNodeKeepsInv ==
    ASSUME IInv, NEW w \in Requests, Talks(w), RemoveNode(w), UNCHANGED <<edits, mapEdits>>
    PROVE  IInv'
<1> USE DEF RemoveNode
<1>1. pc[w] # "idle"
  BY DEF Talks
<1>2. PICK b \in BOOLEAN : WriteRow(w, [Seen(w).row EXCEPT !.deleted = b])
  <2>1. Seen(w).row.deleted \in BOOLEAN /\ Deletable(Seen(w).members) \in BOOLEAN
    BY SeenIsProject, ProjectFields DEF Row, Deletable
  <2> QED  BY <2>1
<1>3. [Seen(w) EXCEPT !.row = [Seen(w).row EXCEPT !.deleted = b]] \in Project
  BY SeenIsProject, ProjectFields, RowFields
<1>4. LocalOK' /\ \A v \in Requests \ {w} : pc'[v] = pc[v]
  BY <1>1, EndWithMoves
<1>5. DatabaseOK' /\ Holds'
  BY <1>2, <1>3, <1>4, TalkerWrites DEF WriteRow
<1>6. GroupOK' /\ BoundsOK'
  BY DEF IInv, GroupOK, BoundsOK
<1> QED  BY <1>4, <1>5, <1>6 DEF IInv

\* A call that fails ends the synchronisation.
LEMMA FailKeepsInv ==
    ASSUME IInv, NEW w \in Requests, Talks(w), NEW o \in {"error", "logged"}, EndWith(w, o),
           UNCHANGED <<database, group, my, edits, mapEdits>>,
           CallFails \/ UNCHANGED failures
    PROVE  IInv'
<1>1. pc[w] # "idle"
  BY DEF Talks
<1>2. LocalOK' /\ \A v \in Requests \ {w} : pc'[v] = pc[v]
  BY <1>1, EndWithMoves
<1>3. DatabaseOK' /\ Holds'
  BY <1>2, TalkerKeepsDatabase
<1>4. GroupOK' /\ BoundsOK'
  BY FailureIsCounted DEF IInv, GroupOK, BoundsOK
<1> QED  BY <1>2, <1>3, <1>4 DEF IInv

LEMMA CreateGroupKeepsInv ==
    ASSUME IInv, NEW w \in Requests, CreateGroup(w)
    PROVE  IInv'
<1> USE DEF CreateGroup
<1>1. Talks(w)
  BY DEF Talks
<1>2. CASE CallFails /\ EndWith(w, "logged") /\ UNCHANGED <<database, group, my>>
  BY <1>1, <1>2, FailKeepsInv
<1>3. CASE Abort(w) /\ UNCHANGED <<group, failures>>
  BY <1>3, AbortKeepsDatabase DEF IInv, GroupOK, BoundsOK
<1>4. CASE /\ \E k \in NewKeys, u \in Admins(Seen(w).members) :
                 LET row == [my[w] EXCEPT !.key = k]
                 IN  /\ group' = [group EXCEPT ![k] =
                           [state |-> "live", title |-> my[w].title, members |-> OnlyAdmin(u)]]
                     /\ WriteRow(w, row)
                     /\ my' = [my EXCEPT ![w] = row]
           /\ Goto(w, "title")
           /\ UNCHANGED <<todo, outcome, failures>>
  <2>1. PICK k, u, r :
          /\ k \in NewKeys
          /\ u \in Admins(Seen(w).members)
          /\ r = [my[w] EXCEPT !.key = k]
          /\ group' = [group EXCEPT ![k] =
                 [state |-> "live", title |-> my[w].title, members |-> OnlyAdmin(u)]]
          /\ WriteRow(w, r)
          /\ my' = [my EXCEPT ![w] = r]
    BY <1>4
  <2>2. k \in Keys
    BY <2>1 DEF NewKeys
  <2>3. my[w] \in Row
    BY BusyHasRow
  <2>4. r \in Row
    BY <2>1, <2>2, <2>3, RowFields
  <2>5. [state |-> "live", title |-> my[w].title, members |-> OnlyAdmin(u)] \in Group
    BY <2>3 DEF Group, Row, OnlyAdmin, Members, Roles
  <2>6. GroupOK'
    BY <2>1, <2>2, <2>5 DEF IInv, GroupOK
  <2>7. Moves(w, "title")
    BY <1>4 DEF Moves, Places
  <2>8. LocalOK' /\ \A v \in Requests \ {w} : pc'[v] = pc[v]
    BY <1>4, <2>1, <2>4, <2>7, MoveKeepsLocal
  <2>9. [Seen(w) EXCEPT !.row = r] \in Project
    BY <2>4, SeenIsProject, ProjectFields
  <2>10. DatabaseOK' /\ Holds'
    BY <1>1, <2>1, <2>8, <2>9, TalkerWrites DEF WriteRow
  <2>11. BoundsOK'
    BY <1>4 DEF IInv, BoundsOK
  <2> QED  BY <2>6, <2>8, <2>10, <2>11 DEF IInv
<1> QED  BY <1>2, <1>3, <1>4

LEMMA UpdateGroupKeepsInv ==
    ASSUME IInv, NEW w \in Requests, UpdateGroup(w)
    PROVE  IInv'
<1> USE DEF UpdateGroup
<1>1. Talks(w)
  BY DEF Talks
<1>2. CASE RemoveNode(w)
  BY <1>1, <1>2, RemoveNodeKeepsInv
<1>3. CASE PushFails(w)
  BY <1>1, <1>3, FailKeepsInv DEF PushFails
<1>4. CASE /\ Reaches(w)
           /\ group' = [group EXCEPT ![my[w].key].title = my[w].title]
           /\ Goto(w, "read")
           /\ UNCHANGED <<database, my, todo, outcome, failures>>
  <2>1. my[w] \in Row /\ my[w].title \in Titles
    BY BusyHasRow DEF Row
  <2>2. my[w].key \in Keys /\ group[my[w].key] \in Group
    BY <1>4, LinkedGroup DEF Reaches, GroupOf
  <2>3. [group[my[w].key] EXCEPT !.title = my[w].title] \in Group
    BY <2>1, <2>2, GroupFields
  <2>4. GroupOK'
    BY <1>4, <2>2, <2>3 DEF IInv, GroupOK
  <2>5. Moves(w, "read")
    BY <1>4 DEF Moves, Places
  <2>6. LocalOK' /\ \A v \in Requests \ {w} : pc'[v] = pc[v]
    BY <1>4, <2>5, MoveKeepsLocal
  <2>7. DatabaseOK' /\ Holds'
    BY <1>1, <1>4, <2>6, TalkerKeepsDatabase
  <2>8. BoundsOK'
    BY <1>4 DEF IInv, BoundsOK
  <2> QED  BY <2>4, <2>6, <2>7, <2>8 DEF IInv
<1> QED  BY <1>2, <1>3, <1>4

LEMMA ComparedAreCalls ==
    ASSUME NEW rdm \in Members, NEW map \in Members
    PROVE  compare_members(rdm, map) \subseteq Call
BY DEF compare_members, Call, Members, Rank

LEMMA ReadGroupKeepsInv ==
    ASSUME IInv, NEW w \in Requests, ReadGroup(w)
    PROVE  IInv'
<1> USE DEF ReadGroup
<1>1. Talks(w)
  BY DEF Talks
<1>2. CASE RemoveNode(w)
  BY <1>1, <1>2, RemoveNodeKeepsInv
<1>3. CASE PushFails(w)
  BY <1>1, <1>3, FailKeepsInv DEF PushFails
<1>4. CASE ~RemoveNode(w) /\ ~PushFails(w)
  <2>1. PICK calls : calls = compare_members(Seen(w).members, GroupOf(w).members)
    OBVIOUS
  <2>2. /\ Reaches(w) /\ UNCHANGED <<group, my, failures, edits, mapEdits>>
        /\ IF calls = {} THEN EndWith(w, "ok")
           ELSE /\ todo' = [todo EXCEPT ![w] = calls]
                /\ Goto(w, "push")
                /\ UNCHANGED outcome
        /\ UNCHANGED database \/ WriteRow(w, my[w])
    BY <1>4, <2>1
  <2>3. calls \subseteq Call
    BY <2>1, <2>2, SeenIsProject, ProjectFields, LinkedGroup, GroupFields, ComparedAreCalls DEF Reaches
  <2>4. LocalOK' /\ \A v \in Requests \ {w} : pc'[v] = pc[v]
    <3>1. CASE EndWith(w, "ok")
      BY <2>2, <3>1, EndWithMoves
    <3>2. CASE todo' = [todo EXCEPT ![w] = calls] /\ Goto(w, "push") /\ UNCHANGED outcome
      <4>1. Moves(w, "push")
        BY <3>2 DEF Moves, Places
      <4> QED  BY <2>2, <2>3, <3>2, <4>1, MoveKeepsLocal
    <3> QED  BY <2>2, <3>1, <3>2
  <2>5. DatabaseOK' /\ Holds'
    <3>1. [Seen(w) EXCEPT !.row = my[w]] \in Project
      BY SeenIsProject, ProjectFields, BusyHasRow
    <3> QED  BY <1>1, <2>2, <2>4, <3>1, TalkerKeepsDatabase, TalkerWrites DEF WriteRow
  <2>6. GroupOK' /\ BoundsOK'
    BY <2>2 DEF IInv, GroupOK, BoundsOK
  <2> QED  BY <2>4, <2>5, <2>6 DEF IInv
<1> QED  BY <1>2, <1>3, <1>4

LEMMA PushKeepsInv ==
    ASSUME IInv, NEW w \in Requests, Push(w)
    PROVE  IInv'
<1> USE DEF Push
<1>1. Talks(w)
  BY DEF Talks
<1>2. CASE RemoveNode(w)
  BY <1>1, <1>2, RemoveNodeKeepsInv
<1>3. CASE PushFails(w)
  BY <1>1, <1>3, FailKeepsInv DEF PushFails
<1>4. CASE ~RemoveNode(w) /\ ~PushFails(w)
  <2>1. PICK c \in todo[w] :
          /\ Reaches(w)
          /\ group' = [group EXCEPT ![my[w].key].members[c.user] = c.role]
          /\ IF todo[w] = {c} THEN EndWith(w, "ok")
             ELSE todo' = [todo EXCEPT ![w] = @ \ {c}] /\ UNCHANGED <<pc, outcome>>
    BY <1>4
  <2>2. UNCHANGED <<database, my, failures, edits, mapEdits>>
    BY <1>4
  <2>3. c \in Call \cup Edit /\ c.user \in Users /\ c.role \in Roles
    BY DEF IInv, LocalOK, Call, Edit
  <2>4. my[w].key \in Keys /\ group[my[w].key] \in Group
    BY <2>1, LinkedGroup DEF Reaches, GroupOf
  <2>5. [group[my[w].key] EXCEPT !.members[c.user] = c.role] \in Group
    BY <2>3, <2>4, GroupFields
  <2>6. GroupOK'
    BY <2>1, <2>4, <2>5 DEF IInv, GroupOK
  <2>7. LocalOK' /\ \A v \in Requests \ {w} : pc'[v] = pc[v]
    <3>1. CASE EndWith(w, "ok")
      BY <2>2, <3>1, EndWithMoves
    <3>2. CASE todo' = [todo EXCEPT ![w] = @ \ {c}] /\ UNCHANGED <<pc, outcome>>
      BY <2>2, <3>2 DEF IInv, LocalOK
    <3> QED  BY <2>1, <3>1, <3>2
  <2>8. DatabaseOK' /\ Holds'
    BY <1>1, <2>2, <2>7, TalkerKeepsDatabase
  <2>9. BoundsOK'
    BY <2>2 DEF IInv, BoundsOK
  <2> QED  BY <2>6, <2>7, <2>8, <2>9 DEF IInv
<1> QED  BY <1>2, <1>3, <1>4

LEMMA DownloadedAreMembers ==
    ASSUME NEW rdm \in Members, NEW visible \in SUBSET Users, NEW map \in Members,
           NEW d \in Downloads(rdm, visible, map)
    PROVE  d.members \in Members /\ d.visible \in SUBSET Users /\ d.saved \in BOOLEAN
<1> DEFINE shown == AddedVisible(rdm, visible, map)
<1>1. PICK D : d \in Ends(rdm, shown, map, D)
  BY DEF Downloads
<1>2. PICK W :
        d = [members |-> [u \in Users |-> IF u \in W THEN "member" ELSE Raised(rdm, map, D)[u]],
             visible |-> shown \ D,
             raised  |-> W # Downgrades(rdm, map),
             saved   |-> W = Downgrades(rdm, map) \/ D # {}]
  BY <1>1 DEF Ends
<1>3. Added(rdm, map) \in Members
  BY DEF Added, Members, Roles
<1>4. Raised(rdm, map, D) \in Members
  BY <1>3 DEF Raised, Members, Roles
<1>5. d.members \in Members
  BY <1>2, <1>4 DEF Members, Roles
<1>6. shown \subseteq Users
  BY MapcoreAssumption DEF AddedVisible
<1>7. d.visible \subseteq Users
  BY <1>2, <1>6
<1>8. d.saved \in BOOLEAN
  BY <1>2
<1> QED  BY <1>5, <1>7, <1>8

LEMMA DownloadKeepsInv ==
    ASSUME IInv, NEW w \in Requests, Download(w)
    PROVE  IInv'
<1> USE DEF Download
<1>1. Talks(w)
  BY DEF Talks
<1>2. CASE RemoveNode(w)
  BY <1>1, <1>2, RemoveNodeKeepsInv
<1>3. CASE CallFails /\ EndWith(w, "logged") /\ UNCHANGED <<database, group, my>>
  BY <1>1, <1>3, FailKeepsInv
<1>4. CASE /\ Reaches(w)
           /\ \E d \in Downloads(Seen(w).members, Seen(w).visible, GroupOf(w).members) :
                 LET row == [my[w] EXCEPT !.title = GroupOf(w).title]
                 IN  /\ Write(w, [row     |-> IF d.saved THEN row ELSE Seen(w).row,
                                  members |-> d.members,
                                  visible |-> d.visible])
                     /\ my' = [my EXCEPT ![w] = row]
                     /\ EndWith(w, IF d.raised THEN "logged" ELSE "none")
           /\ UNCHANGED <<group, failures>>
  <2>1. Reaches(w) /\ UNCHANGED <<group, failures, edits, mapEdits>>
    BY <1>4
  <2>2. PICK d, r :
          /\ d \in Downloads(Seen(w).members, Seen(w).visible, GroupOf(w).members)
          /\ r = [my[w] EXCEPT !.title = GroupOf(w).title]
          /\ Write(w, [row     |-> IF d.saved THEN r ELSE Seen(w).row,
                       members |-> d.members,
                       visible |-> d.visible])
          /\ my' = [my EXCEPT ![w] = r]
          /\ EndWith(w, IF d.raised THEN "logged" ELSE "none")
    BY <1>4
  <2>3. GroupOf(w).title \in Titles /\ GroupOf(w).members \in Members
    BY <2>1, LinkedGroup, GroupFields DEF Reaches
  <2>4. /\ Seen(w).members \in Members /\ Seen(w).row \in Row
        /\ Seen(w).visible \in SUBSET Users
    BY SeenIsProject, ProjectFields
  <2>5. r \in Row
    BY <2>2, <2>3, BusyHasRow, RowFields
  <2>6. d.members \in Members /\ d.visible \in SUBSET Users
    BY <2>2, <2>3, <2>4, DownloadedAreMembers
  <2>7. [row     |-> IF d.saved THEN r ELSE Seen(w).row,
         members |-> d.members,
         visible |-> d.visible] \in Project
    BY <2>4, <2>5, <2>6 DEF Project
  <2>8. LocalOK' /\ \A v \in Requests \ {w} : pc'[v] = pc[v]
    BY <2>2, <2>5, EndWithMoves
  <2>9. DatabaseOK' /\ Holds'
    BY <1>1, <2>2, <2>7, <2>8, TalkerWrites
  <2>10. GroupOK' /\ BoundsOK'
    BY <2>1 DEF IInv, GroupOK, BoundsOK
  <2> QED  BY <2>8, <2>9, <2>10 DEF IInv
<1> QED  BY <1>2, <1>3, <1>4

-----------------------------------------------------------------------------
(***************************************************************************)
(* The end of a request, and what happens elsewhere.                       *)
(***************************************************************************)
LEMMA MarkedIsRow ==
    ASSUME NEW w \in Requests, NEW r \in Row
    PROVE  Marked(w, r) \in Row /\ [Marked(w, r) EXCEPT !.locked = FALSE] \in Row
<1>1. PICK b : /\ b \in BOOLEAN
               /\ Marked(w, r) = [r EXCEPT !.standby = b]
  <2>1. r.standby \in BOOLEAN
    BY DEF Row
  <2>2. Marked(w, r) = [r EXCEPT !.standby = IF outcome[w] = "error" THEN TRUE
                                             ELSE IF outcome[w] = "ok" THEN FALSE ELSE r.standby]
    BY DEF Marked
  <2> QED  BY <2>1, <2>2
<1>2. Marked(w, r) \in Row
  BY <1>1, RowFields
<1> QED  BY <1>2, RowFields

LEMMA LeaveAtomicKeepsInv ==
    ASSUME IInv, NEW w \in Requests, LeaveAtomic(w)
    PROVE  IInv'
<1> USE DEF LeaveAtomic
<1>1. PICK r \in {db.row} \cup {my[w]} :
        db' = [db EXCEPT !.row = [Marked(w, r) EXCEPT !.locked = FALSE]]
  OBVIOUS
<1>2. r \in Row
  BY BusyHasRow, ProjectFields DEF IInv, DatabaseOK
<1>3. DatabaseOK' /\ \A v \in Atomic \ {w} : owner = v => owner' = v
  BY <1>1, <1>2, MarkedIsRow, ProjectFields DEF IInv, DatabaseOK
<1>4. LocalOK' /\ pc'[w] = "idle" /\ \A v \in Requests \ {w} : pc'[v] = pc[v]
  BY LeaveKeepsLocal
<1>5. Holds'
  BY <1>3, <1>4, HoldsStays DEF Talks
<1>6. GroupOK' /\ BoundsOK'
  BY DEF IInv, GroupOK, BoundsOK, bounds
<1> QED  BY <1>3, <1>4, <1>5, <1>6 DEF IInv

LEMMA UnlockNodeKeepsInv ==
    ASSUME IInv, NEW w \in Requests, UnlockNode(w)
    PROVE  IInv'
<1> USE DEF UnlockNode
<1>1. [disk.row EXCEPT !.locked = FALSE] \in Row
  BY ProjectFields, RowFields DEF IInv, DatabaseOK
<1>2. [Seen(w) EXCEPT !.row = [disk.row EXCEPT !.locked = FALSE]] \in Project
  BY <1>1, SeenIsProject, ProjectFields
<1>3. DatabaseOK' /\ \A v \in Atomic \ {w} : owner = v => owner' = v
  BY <1>2, WriteKeepsDatabase DEF WriteRow
<1>4. Moves(w, "mark")
  BY DEF Moves, Places
<1>5. LocalOK' /\ pc'[w] = "mark" /\ \A v \in Requests \ {w} : pc'[v] = pc[v]
  BY <1>4, MoveKeepsLocal
<1>6. Holds'
  BY <1>3, <1>5, HoldsStays DEF Talks
<1>7. GroupOK' /\ BoundsOK'
  BY DEF IInv, GroupOK, BoundsOK, bounds
<1> QED  BY <1>3, <1>5, <1>6, <1>7 DEF IInv

LEMMA MarkStandbyKeepsInv ==
    ASSUME IInv, NEW w \in Requests, MarkStandby(w)
    PROVE  IInv'
<1> USE DEF MarkStandby
<1>1. PICK r \in {disk.row} \cup {my[w]} : WriteRow(w, Marked(w, r))
  OBVIOUS
<1>2. r \in Row
  BY BusyHasRow, ProjectFields DEF IInv, DatabaseOK
<1>3. [Seen(w) EXCEPT !.row = Marked(w, r)] \in Project
  BY <1>2, MarkedIsRow, SeenIsProject, ProjectFields
<1>4. DatabaseOK' /\ \A v \in Atomic \ {w} : owner = v => owner' = v
  BY <1>1, <1>3, WriteKeepsDatabase DEF WriteRow
<1>5. LocalOK' /\ pc'[w] = "idle" /\ \A v \in Requests \ {w} : pc'[v] = pc[v]
  BY LeaveKeepsLocal
<1>6. Holds'
  BY <1>4, <1>5, HoldsStays DEF Talks
<1>7. GroupOK' /\ BoundsOK'
  BY DEF IInv, GroupOK, BoundsOK, bounds
<1> QED  BY <1>4, <1>5, <1>6, <1>7 DEF IInv

LEMMA KilledKeepsInv ==
    ASSUME IInv, NEW w \in Requests, Killed(w)
    PROVE  IInv'
<1>1. DatabaseOK' /\ LocalOK' /\ Holds'
  BY AbortKeepsDatabase DEF Killed
<1>2. GroupOK' /\ BoundsOK'
  BY FailureIsCounted DEF Killed, IInv, GroupOK, BoundsOK
<1> QED  BY <1>1, <1>2 DEF IInv

LEMMA UnlockAllKeepsInv ==
    ASSUME IInv, UnlockAll
    PROVE  IInv'
<1>1. DatabaseOK'
  BY ProjectFields, RowFields DEF UnlockAll, IInv, DatabaseOK
<1>2. LocalOK' /\ GroupOK' /\ BoundsOK' /\ Holds'
  BY DEF UnlockAll, IInv, LocalOK, GroupOK, BoundsOK, Holds, Talks, local, bounds
<1> QED  BY <1>1, <1>2 DEF IInv

LEMMA MapEditKeepsInv ==
    ASSUME IInv, MapEdit
    PROVE  IInv'
<1> USE DEF MapEdit
<1>1. DatabaseOK' /\ LocalOK' /\ Holds'
  BY DEF IInv, DatabaseOK, LocalOK, Holds, Talks, database, local
<1>2. BoundsOK'
  BY MapcoreAssumption DEF IInv, BoundsOK
<1>3. PICK k \in Referred :
         \/ \E t \in Titles : group' = [group EXCEPT ![k].title = t]
         \/ \E u \in Users, r \in Roles : group' = [group EXCEPT ![k].members[u] = r]
         \/ group' = [group EXCEPT ![k].state = "gone"]
  OBVIOUS
<1>4. k \in Keys
  <2>1. db.row \in Row /\ disk.row \in Row
    BY ProjectFields DEF IInv, DatabaseOK
  <2>2. \A w \in Requests : my[w] # None => my[w] \in Row
    BY DEF IInv, LocalOK
  <2> QED  BY <2>1, <2>2 DEF Referred, Row
<1>5. GroupOK'
  <2>1. group[k] \in Group
    BY <1>4 DEF IInv, GroupOK
  <2>2. PICK g \in Group : group' = [group EXCEPT ![k] = g]
    <3>1. CASE \E t \in Titles : group' = [group EXCEPT ![k].title = t]
      BY <2>1, <3>1, GroupFields
    <3>2. CASE \E u \in Users, r \in Roles : group' = [group EXCEPT ![k].members[u] = r]
      BY <2>1, <3>2, GroupFields
    <3>3. CASE group' = [group EXCEPT ![k].state = "gone"]
      BY <2>1, <3>3, GroupFields
    <3> QED  BY <1>3, <3>1, <3>2, <3>3
  <2> QED  BY <1>4, <2>2 DEF IInv, GroupOK
<1> QED  BY <1>1, <1>2, <1>5 DEF IInv

LEMMA NextInv == IInv /\ [Next]_vars => IInv'
<1> SUFFICES ASSUME IInv, [Next]_vars PROVE IInv'
  OBVIOUS
<1>1. CASE UNCHANGED vars
  BY <1>1 DEF vars, database, local, bounds, IInv, DatabaseOK, LocalOK, GroupOK, BoundsOK, Holds, Talks
<1>2. CASE \E w \in Requests : Load(w)
  BY <1>2, LoadKeepsInv
<1>3. CASE \E w \in Requests : Change(w)
  BY <1>3, EditNodeKeepsInv, CheckContributorsKeepsInv, SaveContributorsKeepsInv, SaveNodeKeepsInv
     DEF Change
<1>4. CASE \E w \in Requests : Sync(w)
  BY <1>4, LockNodeKeepsInv, FindLockedKeepsInv, SkipKeepsInv, DecideKeepsInv, CreateGroupKeepsInv,
     UpdateGroupKeepsInv, ReadGroupKeepsInv, PushKeepsInv, DownloadKeepsInv, LeaveAtomicKeepsInv,
     UnlockNodeKeepsInv, MarkStandbyKeepsInv DEF Sync
<1>5. CASE \E w \in Requests : Killed(w)
  BY <1>5, KilledKeepsInv
<1>6. CASE UnlockAll
  BY <1>6, UnlockAllKeepsInv
<1>7. CASE MapEdit
  BY <1>7, MapEditKeepsInv
<1> QED  BY <1>1, <1>2, <1>3, <1>4, <1>5, <1>6, <1>7 DEF Next

(***************************************************************************)
(* Every variable has its type: rows, members and groups stay well formed  *)
(* whatever is copied between them.                                        *)
(***************************************************************************)
THEOREM TypeCorrect == Spec => []TypeOK
<1>1. IInv => TypeOK
  BY DEF IInv, DatabaseOK, LocalOK, GroupOK, BoundsOK, TypeOK
<1> QED  BY InitInv, NextInv, <1>1, PTL DEF Spec

(***************************************************************************)
(* At most one of the requests that are transactions talks to mAP about    *)
(* the project, whatever stale saves do to the flag.                       *)
(***************************************************************************)
THEOREM OneTransactionTalksEver == Spec => []OneTransactionTalks
<1>1. IInv => OneTransactionTalks
  BY DEF IInv, Holds, OneTransactionTalks
<1> QED  BY InitInv, NextInv, <1>1, PTL DEF Spec
-----------------------------------------------------------------------------
(***************************************************************************)
(* Who is spared.  AllButOne(S, T) leaves out of T nothing, or one         *)
(* administrator of S if all of them would go; the removals leave out      *)
(* those without whom nobody would be visible, or administrator.           *)
(***************************************************************************)
LEMMA OneIsSpared ==
    ASSUME NEW S, NEW T, S # {}, NEW D \in AllButOne(S, T)
    PROVE  /\ D \subseteq T
           /\ S \ D # {}
           /\ S \ T # {} => D = T
BY DEF AllButOne

LEMMA RemovalsSpare ==
    ASSUME NEW S, NEW V, NEW T, NEW D \in Removals(S, V, T)
    PROVE  /\ D \subseteq T
           /\ S # {} => S \ D # {}
           /\ V # {} => V \ D # {}
           /\ \A u \in T \ D : S \subseteq D \cup {u} \/ V \subseteq D \cup {u}
<1>1. D \subseteq T /\ (D = {} \/ (S \ D # {} /\ V \ D # {}))
  BY DEF Removals
<1>2. ASSUME NEW E \in SUBSET T, D \subseteq E, S \ E # {}, V \ E # {}
      PROVE  E = D
  BY <1>2 DEF Removals
<1>3. ASSUME NEW u \in T \ D
      PROVE  S \subseteq D \cup {u} \/ V \subseteq D \cup {u}
  <2>1. D \cup {u} \in SUBSET T /\ D \cup {u} # D
    BY <1>1, <1>3
  <2>2. ~(S \ (D \cup {u}) # {} /\ V \ (D \cup {u}) # {})
    BY <1>2, <2>1
  <2> QED  BY <2>2
<1> QED  BY <1>1, <1>3

\* Additions take no role away, and hide nobody.
LEMMA AdditionsKeepRoles ==
    ASSUME NEW rdm \in Members, NEW map \in Members
    PROVE  /\ Added(rdm, map) \in Members
           /\ Admins(rdm) \subseteq Admins(Added(rdm, map))
BY DEF Added, Members, Roles, Admins

\* Who stays an administrator through removals and upgrades.
LEMMA RaisedRoles ==
    ASSUME NEW rdm \in Members, NEW map \in Members, NEW D
    PROVE  /\ Raised(rdm, map, D) \in Members
           /\ Admins(Added(rdm, map)) \ D \subseteq Admins(Raised(rdm, map, D))
<1> DEFINE add == Added(rdm, map)
           raise == Raised(rdm, map, D)
<1>1. /\ add \in [Users -> Roles]
      /\ \A u \in Users : rdm[u] # "none" => add[u] = rdm[u]
  BY AdditionsKeepRoles DEF Members, Added
<1>2. /\ raise = [u \in Users |-> raise[u]]
      /\ \A u \in Users : \/ raise[u] = "none" /\ u \in D
                          \/ raise[u] = "admin"
                          \/ raise[u] = add[u]
  BY DEF Raised
<1>3. raise \in Members
  BY <1>1, <1>2 DEF Members, Roles
<1>4. ASSUME NEW u \in Users, add[u] = "admin", u \notin D
      PROVE  raise[u] = "admin"
  BY <1>4 DEF Raised
<1> QED  BY <1>3, <1>4 DEF Admins

\* A download: D are removed of those shown after the additions, W downgraded.
LEMMA PickDownload ==
    ASSUME NEW rdm, NEW visible, NEW map, NEW d \in Downloads(rdm, visible, map)
    PROVE  \E D \in Removals(Admins(Added(rdm, map)), AddedVisible(rdm, visible, map),
                             Deletes(rdm, map)) :
           \E W \in AllButOne(Admins(Raised(rdm, map, D)), Downgrades(rdm, map)) :
              /\ d.members = [u \in Users |->
                                IF u \in W THEN "member" ELSE Raised(rdm, map, D)[u]]
              /\ d.visible = AddedVisible(rdm, visible, map) \ D
<1>1. PICK D \in Removals(Admins(Added(rdm, map)), AddedVisible(rdm, visible, map),
                          Deletes(rdm, map)) :
        d \in Ends(rdm, AddedVisible(rdm, visible, map), map, D)
  BY DEF Downloads
<1> QED  BY <1>1 DEF Ends

(***************************************************************************)
(* A download leaves the project an administrator when it had one, and     *)
(* somebody visible when it had somebody, whatever the group says:         *)
(* remove_contributor keeps the last one, and set_permissions does not     *)
(* downgrade the last administrator.                                       *)
(***************************************************************************)
THEOREM DownloadLeavesAdministrator ==
    ASSUME NEW rdm \in Members, NEW visible \in SUBSET Users, NEW map \in Members,
           NEW d \in Downloads(rdm, visible, map)
    PROVE  /\ Admins(rdm) # {} => Admins(d.members) # {}
           /\ visible # {} => d.visible # {}
<1>1. PICK D \in Removals(Admins(Added(rdm, map)), AddedVisible(rdm, visible, map),
                          Deletes(rdm, map)) :
      \E W \in AllButOne(Admins(Raised(rdm, map, D)), Downgrades(rdm, map)) :
         /\ d.members = [u \in Users |->
                           IF u \in W THEN "member" ELSE Raised(rdm, map, D)[u]]
         /\ d.visible = AddedVisible(rdm, visible, map) \ D
  BY PickDownload
<1>2. PICK W \in AllButOne(Admins(Raised(rdm, map, D)), Downgrades(rdm, map)) :
         d.members = [u \in Users |-> IF u \in W THEN "member" ELSE Raised(rdm, map, D)[u]]
  BY <1>1
<1>3. ASSUME Admins(rdm) # {} PROVE Admins(d.members) # {}
  <2>1. Admins(Added(rdm, map)) # {}
    BY <1>3, AdditionsKeepRoles
  <2>2. Admins(Added(rdm, map)) \ D # {}
    BY <1>1, <2>1, RemovalsSpare
  <2>3. Admins(Raised(rdm, map, D)) # {}
    BY <2>2, RaisedRoles
  <2>4. Admins(Raised(rdm, map, D)) \ W # {}
    BY <1>2, <2>3, OneIsSpared
  <2> QED  BY <1>2, <2>4 DEF Admins
<1>4. ASSUME visible # {} PROVE d.visible # {}
  <2>1. AddedVisible(rdm, visible, map) # {}
    BY <1>4 DEF AddedVisible
  <2> QED  BY <1>1, <2>1, RemovalsSpare
<1> QED  BY <1>3, <1>4

(***************************************************************************)
(* A download makes all registered members agree with the group when an    *)
(* administrator of the group is registered, and is one of the project or  *)
(* no member of it - all but a member the group no longer has without whom *)
(* the project would show nobody.                                          *)
(***************************************************************************)
SafelyAdmin(rdm, map) == \E a \in Admins(map) \cap Registered : rdm[a] # "member"

Spared(u, d, map) == map[u] = "none" /\ d.visible \subseteq {u}

LEMMA DownloadAgrees ==
    ASSUME NEW rdm \in Members, NEW visible \in SUBSET Users, NEW map \in Members,
           SafelyAdmin(rdm, map), NEW d \in Downloads(rdm, visible, map)
    PROVE  \A u \in Registered : d.members[u] = map[u] \/ Spared(u, d, map)
<1>1. PICK a \in Users : /\ a \in Registered /\ map[a] = "admin"
                         /\ rdm[a] \in {"none", "admin"}
  BY DEF SafelyAdmin, Admins, Members, Roles
<1>2. /\ Added(rdm, map)[a] = "admin"
      /\ a \notin Deletes(rdm, map)
      /\ a \notin Downgrades(rdm, map)
  BY <1>1 DEF Added, Deletes, Downgrades
<1>3. PICK D \in Removals(Admins(Added(rdm, map)), AddedVisible(rdm, visible, map),
                          Deletes(rdm, map)) :
      \E W \in AllButOne(Admins(Raised(rdm, map, D)), Downgrades(rdm, map)) :
         /\ d.members = [u \in Users |->
                           IF u \in W THEN "member" ELSE Raised(rdm, map, D)[u]]
         /\ d.visible = AddedVisible(rdm, visible, map) \ D
  BY PickDownload
<1>4. PICK W \in AllButOne(Admins(Raised(rdm, map, D)), Downgrades(rdm, map)) :
         d.members = [u \in Users |-> IF u \in W THEN "member" ELSE Raised(rdm, map, D)[u]]
  BY <1>3
<1>5. D \subseteq Deletes(rdm, map) /\ a \in Admins(Added(rdm, map)) /\ a \notin D
  BY <1>2, <1>3, RemovalsSpare DEF Admins
<1>6. a \in Admins(Raised(rdm, map, D))
  BY <1>5, RaisedRoles
<1>7. W = Downgrades(rdm, map)
  BY <1>2, <1>4, <1>6, OneIsSpared
<1>8. SUFFICES ASSUME NEW u \in Users, u \in Registered
               PROVE  d.members[u] = map[u] \/ Spared(u, d, map)
  BY MapcoreAssumption
<1>9. rdm[u] \in Roles /\ map[u] \in Roles
  BY DEF Members
<1>10. CASE u \in Deletes(rdm, map) \ D
  <2>1. u # a /\ ~(Admins(Added(rdm, map)) \subseteq D \cup {u})
    BY <1>2, <1>5, <1>10
  <2>2. AddedVisible(rdm, visible, map) \subseteq D \cup {u}
    BY <1>3, <1>10, <2>1, RemovalsSpare
  <2>3. d.visible \subseteq {u}
    BY <1>3, <2>2
  <2> QED  BY <1>10, <2>3 DEF Spared, Deletes
<1>11. CASE u \notin Deletes(rdm, map) \ D
  <2>1. Added(rdm, map)[u] = IF rdm[u] = "none" THEN map[u] ELSE rdm[u]
    BY <1>8 DEF Added
  <2>2. u \in D <=> u \in Deletes(rdm, map)
    BY <1>5, <1>11
  <2>3. Raised(rdm, map, D)[u] = IF u \in Downgrades(rdm, map) THEN "admin" ELSE map[u]
    BY <1>9, <2>1, <2>2 DEF Raised, Deletes, Downgrades, Both, Roles
  <2> QED  BY <1>4, <1>7, <2>3 DEF Downgrades
<1> QED  BY <1>10, <1>11

(***************************************************************************)
(* Two downloads make the registered members of the project those of the   *)
(* group, if it has a registered administrator; and later ones keep them.  *)
(* The exception is a member the group no longer has, when nobody else     *)
(* would be visible.  One download is not always enough: the only          *)
(* administrator of the project, whom the group no longer has, is spared   *)
(* by the removals, which come before the upgrade that gives the project   *)
(* another one.                                                            *)
(***************************************************************************)
THEOREM TwoDownloadsAgree ==
    ASSUME NEW rdm \in Members, NEW visible \in SUBSET Users, NEW map \in Members,
           Admins(map) \cap Registered # {},
           NEW d \in Downloads(rdm, visible, map),
           NEW e \in Downloads(d.members, d.visible, map)
    PROVE  /\ d.members \in Members /\ e.members \in Members
           /\ SafelyAdmin(d.members, map) /\ SafelyAdmin(e.members, map)
           /\ \A u \in Registered : e.members[u] = map[u] \/ Spared(u, e, map)
<1>1. ASSUME NEW r \in Members, NEW v \in SUBSET Users, NEW c \in Downloads(r, v, map)
      PROVE  c.members \in Members /\ c.visible \in SUBSET Users /\ SafelyAdmin(c.members, map)
  <2>1. PICK a \in Users : a \in Registered /\ map[a] = "admin"
    BY DEF Admins
  <2>2. PICK D \in Removals(Admins(Added(r, map)), AddedVisible(r, v, map), Deletes(r, map)) :
        \E W \in AllButOne(Admins(Raised(r, map, D)), Downgrades(r, map)) :
           /\ c.members = [u \in Users |->
                             IF u \in W THEN "member" ELSE Raised(r, map, D)[u]]
           /\ c.visible = AddedVisible(r, v, map) \ D
    BY <1>1, PickDownload
  <2>3. D \subseteq Deletes(r, map)
    BY <2>2, RemovalsSpare
  <2>4. Raised(r, map, D)[a] = "admin"
    <3>1. a \notin D
      BY <2>1, <2>3 DEF Deletes
    <3> QED  BY <2>1, <3>1 DEF Raised, Added, Both
  <2>5. PICK W \in AllButOne(Admins(Raised(r, map, D)), Downgrades(r, map)) :
          c.members = [u \in Users |-> IF u \in W THEN "member" ELSE Raised(r, map, D)[u]]
    BY <2>2
  <2>6. a \notin W
    BY <2>1, <2>5 DEF AllButOne, Downgrades
  <2>7. c.members[a] = "admin"
    BY <2>4, <2>5, <2>6
  <2>8. c.members \in Members /\ c.visible \in SUBSET Users
    BY <1>1, DownloadedAreMembers
  <2> QED  BY <2>1, <2>7, <2>8 DEF SafelyAdmin, Admins
<1>2. /\ d.members \in Members /\ d.visible \in SUBSET Users
      /\ SafelyAdmin(d.members, map)
  BY <1>1
<1>3. e.members \in Members /\ SafelyAdmin(e.members, map)
  BY <1>1, <1>2
<1> QED  BY <1>2, <1>3, DownloadAgrees
=============================================================================
