------------------------------- MODULE Mapcore -------------------------------
(***************************************************************************)
(* The synchronisation of a project of GakuNin RDM with its group in mAP   *)
(* core (GakuNin Cloud Gateway), nii/mapcore.py.  Opening the project's    *)
(* page copies title and members from the group to the project; a change   *)
(* of the project is pushed to the group, and when the push fails, the     *)
(* next visit pushes instead of copying.  A flag in the row of the project *)
(* is to keep two requests from talking to mAP at the same time.           *)
(*                                                                         *)
(* Most requests are one database transaction (framework/transactions): a  *)
(* row it wrote, or selected for update, stays locked until it commits,    *)
(* and nobody else sees what it wrote before.  project_manage_contributors *)
(* commits each step at once.  What was told to mAP is not rolled back.    *)
(***************************************************************************)
EXTENDS Naturals

CONSTANTS
    Views,       \* requests that show the project (one transaction each)
    Edits,       \* requests that change it and push (one transaction each)
    Manages,     \* requests of project_manage_contributors (no transaction)
    Users,       \* the people
    Registered,  \* those who have an account in GakuNin RDM
    Titles,      \* titles of the project
    Everywhere,  \* those who administer every component of the project
    Creator,     \* who created it
    FirstTitle,  \* its first title
    Keys,        \* keys mAP gives to new groups
    None,        \* no key, no owner
    MaxEdits,    \* bound on the changes made in GakuNin RDM
    MaxMapEdits, \* bound on the changes made in mAP
    MaxFailures  \* bound on failed calls and on requests that are killed

Atomic   == Views \cup Edits
Requests == Atomic \cup Manages

Roles   == {"none", "member", "admin"}
Members == [Users -> Roles]
Row     == [title : Titles, key : Keys \cup {None}, standby : BOOLEAN,
            locked : BOOLEAN, deleted : BOOLEAN]
Project == [row : Row, members : Members, visible : SUBSET Users]
Group   == [state : {"live", "gone"}, title : Titles, members : Members]
Call    == [user : Users, role : Roles, rank : 1..4]
Edit    == [user : Users, role : Roles, shown : BOOLEAN, added : BOOLEAN]

ASSUME MapcoreAssumption ==
    /\ Views \cap Edits = {}
    /\ Atomic \cap Manages = {}
    /\ Registered \subseteq Users
    /\ Everywhere \subseteq Users
    /\ Creator \in Registered
    /\ FirstTitle \in Titles
    /\ None \notin Requests \cup Keys \cup Row
    /\ {MaxEdits, MaxMapEdits, MaxFailures} \subseteq Nat

VARIABLES
    db,       \* the project, with what the transaction that owns the row wrote
    disk,     \* the project as it is committed
    owner,    \* the transaction that holds the lock of the row
    group,    \* the groups of mAP
    pc,       \* where a request is
    my,       \* the row it loaded, its Python object `node'
    todo,     \* the calls it has left to make
    outcome,  \* how its synchronisation went
    edits, mapEdits, failures

database == <<db, disk, owner>>
local    == <<pc, my, todo, outcome>>
bounds   == <<edits, mapEdits, failures>>
vars     == <<database, group, local, bounds>>

Places == {"idle", "edit", "save", "lock", "decide", "create", "title", "read",
           "push", "download", "unlock", "mark"}

TypeOK ==
    /\ db \in Project
    /\ disk \in Project
    /\ owner \in Atomic \cup {None}
    /\ group \in [Keys -> Group]
    /\ pc \in [Requests -> Places]
    /\ my \in [Requests -> Row \cup {None}]
    /\ \A w \in Requests : my[w] = None <=> pc[w] = "idle"
    /\ todo \in [Requests -> SUBSET (Call \cup Edit)]
    /\ outcome \in [Requests -> {"none", "ok", "error", "logged"}]
    /\ edits \in 0..MaxEdits
    /\ mapEdits \in 0..MaxMapEdits
    /\ failures \in 0..MaxFailures

Admins(members) == {u \in Users : members[u] = "admin"}

\* What a change does: 1 adds, 2 removes, 3 upgrades, 4 downgrades a member.
Rank(from, to) ==
    CASE from = "none" -> 1 [] to = "none" -> 2 [] to = "admin" -> 3 [] OTHER -> 4

OnlyAdmin(u) == [v \in Users |-> IF v = u THEN "admin" ELSE "none"]

(***************************************************************************)
(* A project of one registered administrator, who is visible, not yet      *)
(* linked to a group.                                                      *)
(***************************************************************************)
Init ==
    /\ db = [row |-> [title |-> FirstTitle, key |-> None, standby |-> FALSE,
                      locked |-> FALSE, deleted |-> FALSE],
             members |-> OnlyAdmin(Creator), visible |-> {Creator}]
    /\ disk = db
    /\ owner = None
    /\ group = [k \in Keys |-> [state |-> "gone", title |-> FirstTitle,
                                members |-> OnlyAdmin(Creator)]]
    /\ pc = [w \in Requests |-> "idle"]
    /\ my = [w \in Requests |-> None]
    /\ todo = [w \in Requests |-> {}]
    /\ outcome = [w \in Requests |-> "none"]
    /\ edits = 0
    /\ mapEdits = 0
    /\ failures = 0

-----------------------------------------------------------------------------
(***************************************************************************)
(* Seen(w) is what a query of request w returns.  Write(w, p) stores p: a  *)
(* transaction takes the lock of the row and keeps it, another request     *)
(* commits at once; both wait while another transaction owns the row.      *)
(***************************************************************************)
Seen(w) == IF owner = w THEN db ELSE disk

\* A mutant of Write: a request commits each step and gives up the lock.
WriteAtOnce(w, p) ==
    /\ owner \in {None, w}
    /\ db' = p
    /\ disk' = p
    /\ UNCHANGED owner

Write(w, p) ==
    /\ owner \in {None, w}
    /\ db' = p
    /\ IF w \in Atomic THEN owner' = w /\ UNCHANGED disk
                       ELSE disk' = p /\ UNCHANGED owner

WriteRow(w, r) == Write(w, [Seen(w) EXCEPT !.row = r])

Goto(w, place) == pc' = [pc EXCEPT ![w] = place]

\* A mutant of Leave: the calls left are forgotten, the row is not.
LeaveRowBehind(w) ==
    /\ Goto(w, "idle")
    /\ todo' = [todo EXCEPT ![w] = {}]
    /\ outcome' = [outcome EXCEPT ![w] = "none"]
    /\ UNCHANGED my

\* The request is over; what it had loaded is forgotten.
Leave(w) ==
    /\ Goto(w, "idle")
    /\ my' = [my EXCEPT ![w] = None]
    /\ todo' = [todo EXCEPT ![w] = {}]
    /\ outcome' = [outcome EXCEPT ![w] = "none"]

\* An error nobody handles: the answer is 500 and the transaction is rolled back.
Abort(w) ==
    /\ IF owner = w THEN db' = disk /\ owner' = None ELSE UNCHANGED <<db, owner>>
    /\ Leave(w)
    /\ UNCHANGED disk

(***************************************************************************)
(* A call to mAP may fail: no token is valid, the service is down.         *)
(***************************************************************************)
CallFails == failures < MaxFailures /\ failures' = failures + 1

EndWith(w, result) ==
    /\ outcome' = [outcome EXCEPT ![w] = result]
    /\ todo' = [todo EXCEPT ![w] = {}]
    /\ Goto(w, "unlock")

-----------------------------------------------------------------------------
(***************************************************************************)
(* The view loads the project (a deleted one is answered with 410), then   *)
(* shows it or changes it.                                                 *)
(***************************************************************************)
Load(w) ==
    /\ pc[w] = "idle"
    /\ ~disk.row.deleted
    /\ my' = [my EXCEPT ![w] = disk.row]
    /\ IF w \in Views THEN Goto(w, "lock") /\ UNCHANGED edits
       ELSE edits < MaxEdits /\ edits' = edits + 1 /\ Goto(w, "edit")
    /\ UNCHANGED <<database, group, todo, outcome, mapEdits, failures>>

\* node.save() writes every column of the row this request loaded.
EditNode(w) ==
    /\ pc[w] = "edit"
    /\ w \in Edits
    /\ \E t \in Titles :
          LET row == [my[w] EXCEPT !.title = t]
          IN  WriteRow(w, row) /\ my' = [my EXCEPT ![w] = row]
    /\ Goto(w, "lock")
    /\ UNCHANGED <<group, todo, outcome, bounds>>

(***************************************************************************)
(* One member is added, removed, shown, hidden or given another role; an   *)
(* administrator has to be left, and somebody visible: a member to hide    *)
(* must not be the only visible one, nor one to remove.                    *)
(* remove_contributor, set_visible and manage_contributors ask before they *)
(* write, and the row is locked only by what they write last.              *)
(***************************************************************************)
Shown(visible, u, shown) == IF shown THEN visible \cup {u} ELSE visible \ {u}

CheckContributors(w) ==
    /\ pc[w] = "edit"
    /\ \E u \in Registered, r \in Roles, shown \in BOOLEAN :
          LET p == Seen(w)
          IN  /\ r = "none" => ~shown
              /\ p.members[u] # r \/ (u \in p.visible) # shown
              /\ Admins([p.members EXCEPT ![u] = r]) # {}
              /\ \/ Shown(p.visible, u, shown) # {}
                 \/ u \notin p.visible /\ r # "none"
              /\ todo' = [todo EXCEPT ![w] =
                    {[user |-> u, role |-> r, shown |-> shown, added |-> p.members[u] = "none"]}]
    /\ Goto(w, "save")
    /\ UNCHANGED <<database, group, my, outcome, bounds>>

\* Who was added meanwhile cannot be added again, who is gone gets no role.
SaveContributors(w) ==
    /\ pc[w] = "save"
    /\ \E c \in todo[w] :
          LET p     == Seen(w)
              there == p.members[c.user] # "none"
              role  == IF c.added \/ there THEN c.role ELSE "none"
          IN  \/ /\ ~(c.added /\ there)
                 /\ Write(w, [row     |-> my[w],
                              members |-> [p.members EXCEPT ![c.user] = role],
                              visible |-> Shown(p.visible, c.user, c.shown /\ role # "none")])
                 /\ todo' = [todo EXCEPT ![w] = {}]
                 /\ Goto(w, "lock")
                 /\ UNCHANGED <<my, outcome>>
              \/ c.added /\ there /\ Abort(w)
    /\ UNCHANGED <<group, bounds>>

\* Any other request that loads the project and saves it, without a push.
SaveNode(w) ==
    /\ pc[w] = "edit"
    /\ w \in Edits
    /\ owner = None
    /\ db' = [disk EXCEPT !.row = my[w]]
    /\ disk' = db'
    /\ Leave(w)
    /\ UNCHANGED <<owner, group, bounds>>

-----------------------------------------------------------------------------
(***************************************************************************)
(* lock_node: select the row for update, and set the flag when it is free; *)
(* otherwise sleep and try again.  The inner atomic() of a request that is *)
(* a transaction ends without giving up the lock of the row.               *)
(***************************************************************************)
LockNode(w) ==
    /\ pc[w] = "lock"
    /\ ~Seen(w).row.locked
    /\ WriteRow(w, [Seen(w).row EXCEPT !.locked = TRUE])
    /\ Goto(w, IF w \in Views THEN "decide" ELSE "title")
    /\ UNCHANGED <<group, my, todo, outcome, bounds>>

FindLocked(w) ==
    /\ pc[w] = "lock"
    /\ w \in Atomic
    /\ owner = None
    /\ disk.row.locked
    /\ owner' = w
    /\ UNCHANGED <<db, disk, group, local, bounds>>

(***************************************************************************)
(* mapcore_sync_rdm_project_or_map_group0.  Skip: the project was          *)
(* synchronised less than SYNC_CACHE_TIME ago.  Whether a push is due is   *)
(* read again, the rest comes from the row loaded before the lock.         *)
(***************************************************************************)
Skip(w) ==
    /\ pc[w] = "decide"
    /\ EndWith(w, "none")
    /\ UNCHANGED <<database, group, my, bounds>>

Decide(w) ==
    /\ pc[w] = "decide"
    /\ Goto(w, CASE my[w].key = None     -> "create"
                 [] Seen(w).row.standby  -> "title"
                 [] OTHER                -> "download")
    /\ UNCHANGED <<database, group, my, todo, outcome, bounds>>

(***************************************************************************)
(* The keys nothing refers to stand for the endless supply mAP has; a      *)
(* group whose key was lost is of no further interest.                     *)
(***************************************************************************)
Referred == ({db.row.key, disk.row.key} \cup
             {my[w].key : w \in {v \in Requests : my[v] # None}}) \ {None}

NewKeys == IF Keys \subseteq Referred THEN {} ELSE {CHOOSE k \in Keys : k \notin Referred}

CreateGroup(w) ==
    /\ pc[w] = "create"
    /\ \/ \E k \in NewKeys, u \in Admins(Seen(w).members) :
             LET row == [my[w] EXCEPT !.key = k]
             IN  /\ group' = [group EXCEPT ![k] =
                       [state |-> "live", title |-> my[w].title, members |-> OnlyAdmin(u)]]
                 /\ WriteRow(w, row)
                 /\ my' = [my EXCEPT ![w] = row]
          /\ Goto(w, "title")
          /\ UNCHANGED <<todo, outcome, failures>>
       \/ /\ CallFails
          /\ EndWith(w, "logged")
          /\ UNCHANGED <<database, group, my>>
       \/ /\ Admins(Seen(w).members) = {}
          /\ Abort(w)
          /\ UNCHANGED <<group, failures>>
    /\ UNCHANGED <<edits, mapEdits>>

-----------------------------------------------------------------------------
(***************************************************************************)
(* mapcore_sync_map_group0, from the project to the group.  Without a key  *)
(* the path of the call cannot be built.                                   *)
(***************************************************************************)
Linked(w)   == my[w].key # None
GroupOf(w)  == group[my[w].key]
Reaches(w)  == Linked(w) /\ GroupOf(w).state = "live"

(***************************************************************************)
(* remove_node: the group is gone, so is the project, in the name of an    *)
(* administrator of the project and of all its components; the error of    *)
(* the others is swallowed.                                                *)
(***************************************************************************)
Deletable(members) == Admins(members) \cap Everywhere # {}

RemoveNode(w) ==
    /\ Linked(w)
    /\ GroupOf(w).state = "gone"
    /\ WriteRow(w, [Seen(w).row EXCEPT !.deleted = @ \/ Deletable(Seen(w).members)])
    /\ EndWith(w, "none")
    /\ UNCHANGED <<group, my, failures>>

PushFails(w) ==
    /\ IF Linked(w) THEN CallFails ELSE UNCHANGED failures
    /\ EndWith(w, "error")
    /\ UNCHANGED <<database, group, my>>

UpdateGroup(w) ==
    /\ pc[w] = "title"
    /\ \/ /\ Reaches(w)
          /\ group' = [group EXCEPT ![my[w].key].title = my[w].title]
          /\ Goto(w, "read")
          /\ UNCHANGED <<database, my, todo, outcome, failures>>
       \/ RemoveNode(w)
       \/ PushFails(w)
    /\ UNCHANGED <<edits, mapEdits>>

(***************************************************************************)
(* compare_members, towards mAP: additions, removals, upgrades and         *)
(* downgrades, in this order.  Members unknown to GakuNin RDM are left.    *)
(***************************************************************************)
compare_members(rdm, map) ==
    {[user |-> u, role |-> rdm[u], rank |-> Rank(map[u], rdm[u])] :
        u \in {v \in Users : rdm[v] # map[v] /\ (rdm[v] # "none" \/ v \in Registered)}}

Strangers(members) == {u \in Users \ Registered : members[u] # "none"}

\* A member unknown to GakuNin RDM is logged, which saves the row that was loaded.
ReadGroup(w) ==
    /\ pc[w] = "read"
    /\ \/ LET calls == compare_members(Seen(w).members, GroupOf(w).members)
          IN  /\ Reaches(w)
              /\ IF calls = {} THEN EndWith(w, "ok")
                 ELSE /\ todo' = [todo EXCEPT ![w] = calls]
                      /\ Goto(w, "push")
                      /\ UNCHANGED outcome
              /\ \/ UNCHANGED database
                 \/ Strangers(GroupOf(w).members) # {} /\ WriteRow(w, my[w])
              /\ UNCHANGED <<group, my, failures>>
       \/ RemoveNode(w)
       \/ PushFails(w)
    /\ UNCHANGED <<edits, mapEdits>>

Push(w) ==
    /\ pc[w] = "push"
    /\ \/ \E c \in todo[w] :
             /\ Reaches(w)
             /\ \A d \in todo[w] : c.rank <= d.rank
             /\ group' = [group EXCEPT ![my[w].key].members[c.user] = c.role]
             /\ IF todo[w] = {c} THEN EndWith(w, "ok")
                ELSE todo' = [todo EXCEPT ![w] = @ \ {c}] /\ UNCHANGED <<pc, outcome>>
          /\ UNCHANGED <<database, my, failures>>
       \/ RemoveNode(w)
       \/ PushFails(w)
    /\ UNCHANGED <<edits, mapEdits>>

-----------------------------------------------------------------------------
(***************************************************************************)
(* mapcore_sync_rdm_project0, from the group to the project: additions,    *)
(* removals, upgrades, downgrades.  remove_contributor refuses to remove   *)
(* the only visible member and the last administrator; set_permissions     *)
(* raises rather than to downgrade the last one, and what comes after it   *)
(* is not done.                                                            *)
(***************************************************************************)

\* Those of T that are removed, one after the other in any order.
Removals(admins, visible, T) ==
    LET allowed == {D \in SUBSET T : D = {} \/ (admins \ D # {} /\ visible \ D # {})}
    IN  {D \in allowed : \A E \in allowed : D \subseteq E => E = D}

AllButOne(S, T) == IF S \subseteq T /\ S # {} THEN {T \ {u} : u \in S} ELSE {T}

Both(rdm, map, u) == rdm[u] # "none" /\ map[u] # "none"

Added(rdm, map) ==
    [u \in Users |-> IF rdm[u] = "none" /\ u \in Registered THEN map[u] ELSE rdm[u]]

\* Who is added is visible.
AddedVisible(rdm, visible, map) ==
    visible \cup {u \in Registered : rdm[u] = "none" /\ map[u] # "none"}

Deletes(rdm, map)    == {u \in Users : rdm[u] # "none" /\ map[u] = "none"}
Downgrades(rdm, map) ==
    {u \in Users : Both(rdm, map, u) /\ rdm[u] = "admin" /\ map[u] = "member"}

\* The members once D are removed and the upgrades are done.
Raised(rdm, map, D) ==
    [u \in Users |-> CASE u \in D -> "none"
                       [] u \notin D /\ Both(rdm, map, u) /\ map[u] = "admin" -> "admin"
                       [] OTHER -> Added(rdm, map)[u]]

\* The ends of a download that removes D of the visible ones: W are downgraded.
Ends(rdm, visible, map, D) ==
    {[members |-> [u \in Users |-> IF u \in W THEN "member" ELSE Raised(rdm, map, D)[u]],
      visible |-> visible \ D,
      raised  |-> W # Downgrades(rdm, map),
      saved   |-> W = Downgrades(rdm, map) \/ D # {}] :
        W \in AllButOne(Admins(Raised(rdm, map, D)), Downgrades(rdm, map))}

\* A mutant of Downloads: members are only added.
DownloadAdditions(rdm, visible, map) ==
    {[members |-> Added(rdm, map), visible |-> AddedVisible(rdm, visible, map),
      raised |-> FALSE, saved |-> TRUE]}

Downloads(rdm, visible, map) ==
    LET shown == AddedVisible(rdm, visible, map)
    IN  UNION {Ends(rdm, shown, map, D) :
                  D \in Removals(Admins(Added(rdm, map)), shown, Deletes(rdm, map))}

Download(w) ==
    /\ pc[w] = "download"
    /\ \/ /\ Reaches(w)
          /\ \E d \in Downloads(Seen(w).members, Seen(w).visible, GroupOf(w).members) :
                LET row == [my[w] EXCEPT !.title = GroupOf(w).title]
                IN  /\ Write(w, [row     |-> IF d.saved THEN row ELSE Seen(w).row,
                                 members |-> d.members,
                                 visible |-> d.visible])
                    /\ my' = [my EXCEPT ![w] = row]
                    /\ EndWith(w, IF d.raised THEN "logged" ELSE "none")
          /\ UNCHANGED <<group, failures>>
       \/ RemoveNode(w)
       \/ /\ CallFails
          /\ EndWith(w, "logged")
          /\ UNCHANGED <<database, group, my>>
    /\ UNCHANGED <<edits, mapEdits>>

-----------------------------------------------------------------------------
(***************************************************************************)
(* unlock_node, whoever set the flag; then a push that failed is logged    *)
(* (which saves the row loaded, unless the same entry was the last one)    *)
(* and set_standby_to_upload remembers it, a push that worked forgets it.  *)
(* For a transaction all this shows when it commits.                       *)
(***************************************************************************)
Logs(w) == outcome[w] \in {"error", "logged"}

Marked(w, r) ==
    [r EXCEPT !.standby = CASE outcome[w] = "error" -> TRUE
                            [] outcome[w] = "ok"    -> FALSE
                            [] OTHER                -> r.standby]

LeaveAtomic(w) ==
    /\ pc[w] = "unlock"
    /\ w \in Atomic
    /\ owner = w
    /\ \E r \in {db.row} \cup IF Logs(w) THEN {my[w]} ELSE {} :
          db' = [db EXCEPT !.row = [Marked(w, r) EXCEPT !.locked = FALSE]]
    /\ disk' = db'
    /\ owner' = None
    /\ Leave(w)
    /\ UNCHANGED <<group, bounds>>

UnlockNode(w) ==
    /\ pc[w] = "unlock"
    /\ w \in Manages
    /\ WriteRow(w, [disk.row EXCEPT !.locked = FALSE])
    /\ Goto(w, "mark")
    /\ UNCHANGED <<group, my, todo, outcome, bounds>>

MarkStandby(w) ==
    /\ pc[w] = "mark"
    /\ \E r \in {disk.row} \cup IF Logs(w) THEN {my[w]} ELSE {} : WriteRow(w, Marked(w, r))
    /\ Leave(w)
    /\ UNCHANGED <<group, bounds>>

(***************************************************************************)
(* A request is killed: its transaction is rolled back, a flag that was    *)
(* committed stays.  mapcore_unlock_all is the operator's remedy.          *)
(***************************************************************************)
Killed(w) ==
    /\ pc[w] # "idle"
    /\ CallFails
    /\ Abort(w)
    /\ UNCHANGED <<group, edits, mapEdits>>

UnlockAll ==
    /\ owner = None
    /\ disk.row.locked
    /\ db' = [disk EXCEPT !.row.locked = FALSE]
    /\ disk' = db'
    /\ UNCHANGED <<owner, group, local, bounds>>

(***************************************************************************)
(* In mAP somebody renames a group, changes a member or deletes the group. *)
(***************************************************************************)
MapEdit ==
    /\ mapEdits < MaxMapEdits
    /\ mapEdits' = mapEdits + 1
    /\ \E k \in Referred :
          /\ group[k].state = "live"
          /\ \/ \E t \in Titles : group' = [group EXCEPT ![k].title = t]
             \/ \E u \in Users, r \in Roles : group' = [group EXCEPT ![k].members[u] = r]
             \/ group' = [group EXCEPT ![k].state = "gone"]
    /\ UNCHANGED <<database, local, edits, failures>>

-----------------------------------------------------------------------------
Sync(w) ==
    \/ LockNode(w) \/ FindLocked(w) \/ Skip(w) \/ Decide(w) \/ CreateGroup(w)
    \/ UpdateGroup(w) \/ ReadGroup(w) \/ Push(w) \/ Download(w)
    \/ LeaveAtomic(w) \/ UnlockNode(w) \/ MarkStandby(w)

Change(w) == EditNode(w) \/ CheckContributors(w) \/ SaveContributors(w) \/ SaveNode(w)

Next ==
    \/ \E w \in Requests : Load(w) \/ Change(w) \/ Sync(w) \/ Killed(w)
    \/ UnlockAll
    \/ MapEdit

Spec == Init /\ [][Next]_vars

(***************************************************************************)
(* A request that is being served goes on, the project is visited again    *)
(* and again, and some visits come later than SYNC_CACHE_TIME.             *)
(***************************************************************************)
Fairness ==
    /\ \A w \in Requests : WF_vars(Change(w)) /\ WF_vars(Sync(w))
    /\ \A w \in Views : WF_vars(Load(w)) /\ SF_vars(Decide(w))

FairSpec == Spec /\ Fairness

-----------------------------------------------------------------------------
(***************************************************************************)
(* The project and its group have the same title and the same registered   *)
(* members, but for one the group has not and the project cannot remove:   *)
(* without u it would have no visible member.                              *)
(***************************************************************************)
Kept(u) ==
    /\ group[disk.row.key].members[u] = "none"
    /\ disk.visible \subseteq {u}

Agree ==
    LET row == disk.row
    IN  /\ row.key # None
        /\ group[row.key].state = "live"
        /\ group[row.key].title = row.title
        /\ \A u \in Registered : group[row.key].members[u] = disk.members[u] \/ Kept(u)

\* A project whose group is gone is deleted, if anybody may delete it.
Over ==
    \/ disk.row.deleted
    \/ /\ disk.row.key # None
       /\ group[disk.row.key].state = "gone"
       /\ ~Deletable(disk.members)

\* No administrator of the group has an account in GakuNin RDM.
Abandoned ==
    disk.row.key # None /\ Admins(group[disk.row.key].members) \cap Registered = {}

(***************************************************************************)
(* A transaction waits for the flag while it holds the lock of the row     *)
(* that whoever set the flag needs to clear it - or it has itself written  *)
(* back the flag it loaded while somebody else had set it.                 *)
(***************************************************************************)
Standoff == owner # None /\ pc[owner] = "lock" /\ db.row.locked

(***************************************************************************)
(* "Node must have at least one registered admin user".  Two changes that  *)
(* each leave the other's administrator leave none (write skew); a project *)
(* without one cannot be synchronised.                                     *)
(***************************************************************************)
AdminIsLeft == Admins(disk.members) # {}

(***************************************************************************)
(* At most one of the requests that are transactions talks to mAP about    *)
(* the project.  It is the lock of the row that keeps the others out: the  *)
(* flag that is meant to do it can be cleared by any stale node.save().    *)
(***************************************************************************)
Talks(w) == pc[w] \in {"decide", "create", "title", "read", "push", "download", "unlock"}

OneTransactionTalks == \A v, w \in Atomic : Talks(v) /\ Talks(w) => v = w

(***************************************************************************)
(* Once nobody changes either side any more, visits make the project and   *)
(* its group agree, or the project is over with its group, for good -      *)
(* unless one of them has lost its registered administrators, or the       *)
(* requests wait for each other.                                           *)
(***************************************************************************)
Converges == <>[](Agree \/ Over \/ Abandoned \/ ~AdminIsLeft \/ Standoff)
=============================================================================
