-------------------------------- MODULE Quota --------------------------------
(***************************************************************************)
(* The storage a user has used, website/util/quota.py.  The row UserQuota  *)
(* of the creator of a project counts the bytes of his files, and a row    *)
(* FileInfo remembers what was counted for each file.  WaterButler calls   *)
(* create_waterbutler_log some time after a file was uploaded or deleted,  *)
(* again if it gets no answer; the last transaction of that request sends  *)
(* the signal on which the counter is brought up to date.  Recalculations  *)
(* (deleted projects, the administration site) store a fresh sum.          *)
(*                                                                         *)
(* One user and one type of storage.  A transaction that counts selects    *)
(* the row for update, or inserts it, and holds it until it commits; the   *)
(* rows are shown as they are committed.                                   *)
(***************************************************************************)
EXTENDS Naturals, FiniteSets

CONSTANTS
    Files,      \* files of the user's projects
    Legacy,     \* those uploaded before there was a FileInfo
    Sizes,      \* sizes of a version
    Handlers,   \* WaterButler callbacks served at the same time
    Recalcs,    \* recalculations made at the same time
    None,       \* no FileInfo, no owner, no call
    MaxCalls,   \* bound on uploads and deletions
    MaxRetries, \* bound on calls made again
    MaxOvertakes, \* bound on calls that overtake an older one
    MaxRecalcs  \* bound on recalculations

Workers == Handlers \cup Recalcs
Kinds   == {"file_added", "file_updated", "file_removed"}
Call    == [id : 1..MaxCalls, file : Files, kind : Kinds, size : Nat]

ASSUME QuotaAssumption ==
    /\ IsFiniteSet(Files)
    /\ Legacy \subseteq Files
    /\ Sizes \subseteq Nat
    /\ Handlers \cap Recalcs = {}
    /\ None \notin Nat \cup Handlers \cup Call
    /\ MaxCalls \in Nat

VARIABLES
    file,    \* is the file there, live or in the trash?
    size,    \* the size of its newest version
    info,    \* FileInfo.file_size, or None
    row,     \* does the user have a UserQuota?
    used,    \* UserQuota.used, 0 without a row
    owner,   \* the transaction that has the row of the quota
    calls,   \* the calls WaterButler has to make
    pc,      \* where a request is
    my,      \* the call it handles
    number,  \* what it read of the counter, or the sum it computed
    issued, retries, overtakes, recalcs

storage == <<file, size>>
quota   == <<row, used, owner>>
request == <<pc, my, number>>
bounds  == <<issued, retries, overtakes, recalcs>>
vars    == <<storage, info, quota, calls, request, bounds>>

TypeOK ==
    /\ file \in [Files -> {"absent", "live", "trashed"}]
    /\ size \in [Files -> Nat]
    /\ info \in [Files -> Nat \cup {None}]
    /\ row \in BOOLEAN
    /\ used \in Nat
    /\ owner \in Handlers \cup {None}
    /\ calls \subseteq Call
    /\ pc \in [Workers -> {"idle", "lock", "count", "store", "collided"}]
    /\ \A w \in Recalcs : pc[w] \notin {"lock", "count"}
    /\ my \in [Handlers -> Call \cup {None}]
    /\ \A w \in Handlers : pc[w] = "idle" <=> my[w] = None
    /\ number \in [Workers -> Nat]
    /\ issued \in 0..MaxCalls
    /\ retries \in Nat
    /\ overtakes \in Nat
    /\ recalcs \in Nat

Known(n) == IF n = None THEN 0 ELSE n

\* The bytes counted for the files of F, and how many they are.
Bytes(F) == UNION {{f} \X (1..Known(info[f])) : f \in F}

Total(F) == Cardinality(Bytes(F))

Init ==
    /\ file = [f \in Files |-> IF f \in Legacy THEN "live" ELSE "absent"]
    /\ size \in [Files -> Sizes]
    /\ info = [f \in Files |-> None]
    /\ row = FALSE
    /\ used = 0
    /\ owner = None
    /\ calls = {}
    /\ pc = [w \in Workers |-> "idle"]
    /\ my = [w \in Handlers |-> None]
    /\ number = [w \in Workers |-> 0]
    /\ issued = 0
    /\ retries = 0
    /\ overtakes = 0
    /\ recalcs = 0

-----------------------------------------------------------------------------
(***************************************************************************)
(* WaterButler stores a version (osfstorage_create_child answers whether   *)
(* the file is new) or deletes a file (osfstorage_delete recasts it as a   *)
(* trashed file), and will tell create_waterbutler_log about it.           *)
(***************************************************************************)
Issue(f, kind, s) ==
    /\ issued < MaxCalls
    /\ issued' = issued + 1
    /\ calls' = calls \cup {[id |-> issued + 1, file |-> f, kind |-> kind, size |-> s]}
    /\ UNCHANGED <<info, quota, request, retries, overtakes, recalcs>>

Upload(f, s) ==
    /\ file[f] # "trashed"
    /\ Issue(f, IF file[f] = "absent" THEN "file_added" ELSE "file_updated", s)
    /\ file' = [file EXCEPT ![f] = "live"]
    /\ size' = [size EXCEPT ![f] = s]

Delete(f) ==
    /\ file[f] = "live"
    /\ Issue(f, "file_removed", 0)
    /\ file' = [file EXCEPT ![f] = "trashed"]
    /\ UNCHANGED size

-----------------------------------------------------------------------------
(***************************************************************************)
(* The callback.                                                           *)
(***************************************************************************)
Served == {my[w] : w \in Handlers} \ {None}

\* An older call about the same file has not been answered yet.
Overtakes(c) == \E d \in calls \cup Served : d.file = c.file /\ d.id < c.id

Receive(w, c) ==
    /\ pc[w] = "idle"
    /\ IF Overtakes(c) THEN overtakes < MaxOvertakes /\ overtakes' = overtakes + 1
                       ELSE UNCHANGED overtakes
    /\ calls' = calls \ {c}
    /\ my' = [my EXCEPT ![w] = c]
    /\ pc' = [pc EXCEPT ![w] = "lock"]
    /\ UNCHANGED <<storage, info, quota, number, issued, retries, recalcs>>

\* The transaction of w ends, with or without effect.
End(w) ==
    /\ pc' = [pc EXCEPT ![w] = "idle"]
    /\ my' = [my EXCEPT ![w] = None]
    /\ number' = [number EXCEPT ![w] = 0]

\* A mutant of Free: nothing is selected for update.
Unlocked(w) == TRUE

Free(w) == owner = None

\* node_removed returns when the user has no quota.
Ignore(w) ==
    /\ pc[w] = "lock"
    /\ my[w].kind = "file_removed"
    /\ ~row
    /\ End(w)
    /\ UNCHANGED <<storage, info, quota, calls, bounds>>

\* Select the quota for update, or insert it with nothing counted.
Lock(w) ==
    /\ pc[w] = "lock"
    /\ Free(w)
    /\ my[w].kind = "file_removed" => row
    /\ owner' = w
    /\ number' = [number EXCEPT ![w] = used]
    /\ pc' = [pc EXCEPT ![w] = "count"]
    /\ UNCHANGED <<storage, info, row, used, calls, my, bounds>>

\* A mutant of Less: more can be removed than was counted.
Minus(n, m) == n - m

Less(n, m) == IF n < m THEN 0 ELSE n - m

Commit(w, n, f, s) ==
    /\ row' = TRUE
    /\ used' = n
    /\ info' = [info EXCEPT ![f] = s]
    /\ End(w)
    /\ owner' = None
    /\ UNCHANGED <<storage, calls, bounds>>

\* A mutant of file_added: the counter is saved although FileInfo exists.
file_added_again(w, f) == Commit(w, number[w] + my[w].size, f, my[w].size)

\* FileInfo.objects.create raises when there is one: all is rolled back.
file_added(w, f) ==
    IF info[f] = None THEN Commit(w, number[w] + my[w].size, f, my[w].size)
                      ELSE Commit(w, used, f, info[f])

\* A mutant of node_removed: what was counted is subtracted, not forgotten.
node_removed_for_now(w, f) ==
    Commit(w, IF file[f] = "trashed" THEN Less(number[w], Known(info[f])) ELSE used, f, info[f])

node_removed(w, f) ==
    IF file[f] = "trashed" /\ info[f] # None
    THEN Commit(w, Less(number[w], info[f]), f, 0)
    ELSE Commit(w, used, f, info[f])

file_modified(w, f) ==
    Commit(w, Less(number[w] + my[w].size, Known(info[f])), f, my[w].size)

Count(w) ==
    /\ pc[w] = "count"
    /\ CASE my[w].kind = "file_added"   -> file_added(w, my[w].file)
         [] my[w].kind = "file_removed" -> node_removed(w, my[w].file)
         [] OTHER                       -> file_modified(w, my[w].file)

(***************************************************************************)
(* WaterButler waits no longer and calls again; the request may go on, or  *)
(* it was lost and its transaction is rolled back.                         *)
(***************************************************************************)
CallAgain(w) ==
    /\ retries < MaxRetries
    /\ retries' = retries + 1
    /\ pc[w] # "idle"
    /\ calls' = calls \cup {my[w]}
    /\ \/ UNCHANGED <<owner, request>>
       \/ /\ owner' = IF owner = w THEN None ELSE owner
          /\ End(w)
    /\ UNCHANGED <<storage, info, row, used, issued, overtakes, recalcs>>

-----------------------------------------------------------------------------
(***************************************************************************)
(* update_user_used_quota and calculate_quota: the sum of the files that   *)
(* are not in the trash is computed before the row is locked.  When        *)
(* somebody else inserts the row first, it is computed again.              *)
(***************************************************************************)
used_quota == Total({f \in Files : file[f] = "live"})

Recalculate(w) ==
    /\ pc[w] = "idle"
    /\ recalcs < MaxRecalcs
    /\ recalcs' = recalcs + 1
    /\ number' = [number EXCEPT ![w] = used_quota]
    /\ pc' = [pc EXCEPT ![w] = "store"]
    /\ UNCHANGED <<storage, info, quota, calls, my, issued, retries, overtakes>>

Store(w) ==
    /\ pc[w] = "store"
    /\ \/ /\ Free(w)
          /\ row' = TRUE
          /\ used' = number[w]
          /\ pc' = [pc EXCEPT ![w] = "idle"]
          /\ number' = [number EXCEPT ![w] = 0]
       \/ /\ ~row
          /\ owner # None
          /\ pc' = [pc EXCEPT ![w] = "collided"]
          /\ UNCHANGED <<row, used, number>>
    /\ UNCHANGED <<storage, info, owner, calls, my, bounds>>

\* The insertion goes on when the other one is over, and fails if that committed.
Insert(w) ==
    /\ pc[w] = "collided"
    /\ owner = None
    /\ number' = IF row THEN [number EXCEPT ![w] = used_quota] ELSE number
    /\ pc' = [pc EXCEPT ![w] = "store"]
    /\ UNCHANGED <<storage, info, quota, calls, my, bounds>>

\* The administration site sets max_quota, and inserts the row if there is none.
SetMaxQuota ==
    /\ owner = None
    /\ ~row
    /\ row' = TRUE
    /\ UNCHANGED <<storage, info, used, owner, calls, request, bounds>>

-----------------------------------------------------------------------------
Next ==
    \/ \E f \in Files, s \in Sizes : Upload(f, s)
    \/ \E f \in Files : Delete(f)
    \/ \E w \in Handlers :
          \/ \E c \in calls : Receive(w, c)
          \/ Ignore(w) \/ Lock(w) \/ Count(w) \/ CallAgain(w)
    \/ \E w \in Recalcs : Recalculate(w) \/ Store(w) \/ Insert(w)
    \/ SetMaxQuota

Spec == Init /\ [][Next]_vars

-----------------------------------------------------------------------------
(***************************************************************************)
(* No lost update: what a callback is about to add to is what the row      *)
(* says, since whoever writes the row has selected it for update.          *)
(***************************************************************************)
NoLostUpdate == \A w \in Handlers : pc[w] = "count" => number[w] = used

(***************************************************************************)
(* The counter is the sum of what FileInfo says was counted, and callbacks *)
(* that are made again, overlap or come in any order keep it so: only a    *)
(* recalculation can unbalance it.                                         *)
(***************************************************************************)
Balanced == used = Total(Files)

BalanceIsKept ==
    [][Balanced => \/ Balanced'
                   \/ \E w \in Recalcs : pc[w] = "store" /\ pc'[w] = "idle"]_vars

(***************************************************************************)
(* When the calls about a file were answered in the order they were issued *)
(* in, FileInfo says what is really stored, whatever was recalculated      *)
(* meanwhile: the next recalculation repairs the counter.  Only a file     *)
(* that was never stored, or one older than FileInfo, has no FileInfo.     *)
(***************************************************************************)
FilesAreCounted ==
    overtakes = 0 => \A f \in Files :
        (\A c \in calls \cup Served : c.file # f) =>
            \/ info[f] = IF file[f] = "live" THEN size[f] ELSE 0
            \/ info[f] = None /\ (f \in Legacy \/ file[f] = "absent")
=============================================================================
