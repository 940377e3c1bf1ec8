------------------------------- MODULE Export -------------------------------
(***************************************************************************)
(* One export of an institutional storage: its row, the data it writes to  *)
(* the storage location, the celery task that exports, the requests that   *)
(* stop it and the tasks they start, and the views of the administration   *)
(* site that borrow the status of the row while they compare the data      *)
(* (admin/rdm_custom_storage_location/export_data/views).                  *)
(*                                                                         *)
(* Nothing here is a transaction: the views are non_atomic_requests, and   *)
(* each save writes all columns of the row at once.  A view that loads the *)
(* row, calls WaterButler and saves the row afterwards is two actions; a   *)
(* task that gets the row, changes it and saves it at once is one.         *)
(***************************************************************************)
EXTENDS FiniteSets

CONSTANTS
    Stops,      \* requests to stop the export; each starts a task of its own
    Checks,     \* requests to compare the exported data with the storage
    Restores,   \* requests to restore, as far as they check the export first
    Purges,     \* requests to delete the export for good
    Main,       \* the task of the export
    None

Tasks == {Main} \cup Stops
Views == Stops \cup Checks \cup Restores \cup Purges

Statuses == {"Pending", "Running", "Stopping", "Completed", "Checking", "Stopped", "Error"}
Stoppable == {"Pending", "Running"}
Available == {"Completed", "Checking"}

(***************************************************************************)
(* What an export leaves at the location, in the order it is written: the  *)
(* folder, the list of all files, the files, the list of the exported      *)
(* files with the description of the export.                               *)
(***************************************************************************)
Pieces == {"folder", "list", "files", "data"}
NextPlace ==
    [p \in Pieces |-> CASE p = "folder" -> "list"
                        [] p = "list"   -> "files"
                        [] p = "files"  -> "data"
                        [] p = "data"   -> "finish"]

Row == [status : Statuses, task : Tasks, file : BOOLEAN, deleted : BOOLEAN]
ASSUME ExportAssumption ==
    /\ Main \notin Stops
    /\ None \notin Row
    /\ Stops \cap (Checks \cup Restores \cup Purges) = {}
    /\ Checks \cap Restores = {}
    /\ Purges \cap (Checks \cup Restores) = {}

Outcomes == {"PENDING", "STARTED", "ABORTED", "SUCCESS", "FAILURE"}
TASK_NO_WORKING_STATES == {"SUCCESS", "FAILURE"}
Places == Pieces \cup {"none", "queued", "begin", "finish", "rollback", "erase", "stop",
                       "fail", "return", "ended"}

VARIABLES
    row,     \* the row of the export, None once it is deleted
    stored,  \* what the location holds of it
    state,   \* what celery's result backend says of a task
    at,      \* how far the worker of a task is
    view,    \* how far a request is
    seen     \* the row a request loaded and saves again

vars == <<row, stored, state, at, view, seen>>

TypeOK ==
    /\ row \in Row \cup {None}
    /\ stored \subseteq Pieces
    /\ state \in [Tasks -> Outcomes]
    /\ at \in [Tasks -> Places]
    /\ view \in [Views -> {"new", "open", "over"}]
    /\ seen \in [Checks \cup Restores -> Row \cup {None}]
    /\ \A v \in Checks \cup Restores : view[v] = "open" => seen[v] # None

Init ==
    /\ row = [status |-> "Pending", task |-> Main, file |-> FALSE, deleted |-> FALSE]
    /\ stored = {}
    /\ state = [t \in Tasks |-> "PENDING"]
    /\ at = [t \in Tasks |-> IF t = Main THEN "queued" ELSE "none"]
    /\ view = [v \in Views |-> "new"]
    /\ seen = [v \in Checks \cup Restores |-> None]

-----------------------------------------------------------------------------
\* The tasks.

Goto(t, place) == at' = [at EXCEPT ![t] = place]
Report(t, outcome) == state' = [state EXCEPT ![t] = outcome]
Raise(t) == Goto(t, IF t = Main THEN "rollback" ELSE "fail") /\ UNCHANGED <<row, stored, state>>

\* check_export_data_process_status lets the task go on.  Unless it is forced
\* it looks only when ten seconds have passed since it last did.
Lives(t) == row # None /\ state[t] # "ABORTED"

\* track_started: the worker reports the task, whatever was reported before
Start(t) ==
    /\ at[t] = "queued"
    /\ Report(t, "STARTED")
    /\ Goto(t, "begin")
    /\ UNCHANGED <<row, stored, view, seen>>

BeginExport ==
    /\ at[Main] = "begin"
    /\ \/ /\ Lives(Main)
          /\ row' = [row EXCEPT !.task = Main, !.status = "Running"]
          /\ Goto(Main, "folder")
          /\ UNCHANGED <<stored, state>>
       \/ ~Lives(Main) /\ Raise(Main)
    /\ UNCHANGED <<view, seen>>

\* A mutant of RefusalIsIgnored: the answers of the location are not looked at.
RefusalIsAlwaysIgnored == TRUE

(***************************************************************************)
(* A step of the export.  What the location refuses stops the export,      *)
(* unless the task is aborted: then it goes on to the next check.  Files   *)
(* that cannot be copied are left out of the list.                         *)
(***************************************************************************)
RefusalIsIgnored == state[Main] = "ABORTED"

WritePiece(p) ==
    /\ at[Main] = p
    /\ \/ /\ p = "list" => state[Main] # "ABORTED"
          /\ \/ stored' = stored \cup {p}
             \/ RefusalIsIgnored /\ UNCHANGED stored
          /\ Goto(Main, NextPlace[p])
          /\ UNCHANGED <<row, state>>
       \/ Raise(Main)
    /\ UNCHANGED <<view, seen>>

\* the status of the row is not looked at
CompleteExport ==
    /\ at[Main] = "finish"
    /\ \/ /\ row # None
          /\ row' = [row EXCEPT !.status = "Completed", !.file = TRUE]
          /\ Goto(Main, "return")
          /\ UNCHANGED <<stored, state>>
       \/ ~Lives(Main) /\ Raise(Main)
    /\ UNCHANGED <<view, seen>>

MayRollBack(t) ==
    /\ Lives(t)
    /\ IF t = Main THEN row.status # "Stopped" ELSE row.status \in Stoppable

BeginRollback(t) ==
    /\ at[t] = IF t = Main THEN "rollback" ELSE "begin"
    /\ \/ /\ MayRollBack(t)
          /\ row' = [row EXCEPT !.task = t, !.status = "Stopping"]
          /\ Goto(t, "erase")
       \/ ~MayRollBack(t) /\ Goto(t, "fail") /\ UNCHANGED row
    /\ UNCHANGED <<stored, state, view, seen>>

\* the location may refuse to delete: the export is stopped all the same
Erase(t) ==
    /\ at[t] = "erase"
    /\ \/ /\ stored' \in {stored, {}}
          /\ Goto(t, IF t = Main THEN "fail" ELSE "stop")
       \/ Goto(t, "fail") /\ UNCHANGED stored
    /\ UNCHANGED <<row, state, view, seen>>

SetStopped(t) ==
    /\ at[t] = "stop"
    /\ \/ /\ row # None
          /\ row' = [row EXCEPT !.status = "Stopped", !.file = FALSE]
          /\ Goto(t, "return")
          /\ UNCHANGED <<stored, state>>
       \/ ~Lives(t) /\ Raise(t)
    /\ UNCHANGED <<view, seen>>

\* A mutant of Fail: an export that is being stopped is left to whoever stops it.
FailUnlessStopping(t) ==
    /\ at[t] = "fail"
    /\ row' = IF row = None \/ row.status \in {"Stopping", "Stopped"} THEN row
              ELSE [row EXCEPT !.status = "Error"]
    /\ Report(t, "FAILURE")
    /\ Goto(t, "ended")
    /\ UNCHANGED <<stored, view, seen>>

\* the handler of an exception at the end of every task
Fail(t) ==
    /\ at[t] = "fail"
    /\ row' = IF row = None \/ row.status = "Stopped" THEN row
              ELSE [row EXCEPT !.status = "Error"]
    /\ Report(t, "FAILURE")
    /\ Goto(t, "ended")
    /\ UNCHANGED <<stored, view, seen>>

Return(t) ==
    /\ at[t] = "return"
    /\ Report(t, "SUCCESS")
    /\ Goto(t, "ended")
    /\ UNCHANGED <<row, stored, view, seen>>

Work(t) ==
    \/ Start(t)
    \/ t = Main /\ (BeginExport \/ CompleteExport)
    \/ \E p \in Pieces : t = Main /\ WritePiece(p)
    \/ BeginRollback(t) \/ Erase(t)
    \/ t \in Stops /\ SetStopped(t)
    \/ Fail(t) \/ Return(t)

-----------------------------------------------------------------------------
\* The requests.

Open(v)  == view[v] = "new" /\ view' = [view EXCEPT ![v] = "open"]
Close(v) == view[v] = "open" /\ view' = [view EXCEPT ![v] = "over"]

(***************************************************************************)
(* The task the row names is aborted if it is still at work, a rollback is *)
(* queued, and the row is loaded anew to put its name in.                  *)
(***************************************************************************)
AskStop(s) ==
    /\ Open(s)
    /\ row # None
    /\ state[row.task] \notin TASK_NO_WORKING_STATES
    /\ Report(row.task, "ABORTED")
    /\ Goto(s, "queued")
    /\ UNCHANGED <<row, stored, seen>>

AnswerStop(s) ==
    /\ s \in Stops
    /\ Close(s)
    /\ row' = IF row = None THEN None ELSE [row EXCEPT !.task = s]
    /\ UNCHANGED <<stored, state, at, seen>>

\* What the requests ask of an export: it is there and not deleted.
Listed == row # None /\ ~row.deleted

CheckExportData(c) ==
    /\ Open(c)
    /\ Listed /\ row.status = "Completed"
    /\ row' = [row EXCEPT !.status = "Checking"]
    /\ seen' = [seen EXCEPT ![c] = row']
    /\ UNCHANGED <<stored, state, at>>

EndCheck(c) ==
    /\ c \in Checks
    /\ Close(c)
    /\ row' = [seen[c] EXCEPT !.status = "Completed"]
    /\ UNCHANGED <<stored, state, at, seen>>

\* A mutant of CheckBeforeRestore: what was loaded is not remembered.
CheckBeforeRestoreForgetful(r) ==
    /\ Open(r)
    /\ Listed
    /\ row' = [row EXCEPT !.status = "Running"]
    /\ UNCHANGED <<stored, state, at, seen>>

\* the status the row had (pre_status) is remembered and written back
CheckBeforeRestore(r) ==
    /\ Open(r)
    /\ Listed
    /\ seen' = [seen EXCEPT ![r] = row]
    /\ row' = [row EXCEPT !.status = "Running"]
    /\ UNCHANGED <<stored, state, at>>

EndCheckBeforeRestore(r) ==
    /\ r \in Restores
    /\ Close(r)
    /\ row' = seen[r]
    /\ UNCHANGED <<stored, state, at, seen>>

Delete ==
    /\ Listed
    /\ row' = [row EXCEPT !.deleted = TRUE]
    /\ UNCHANGED <<stored, state, at, view, seen>>

Revert ==
    /\ row # None /\ row.deleted
    /\ row' = [row EXCEPT !.deleted = FALSE]
    /\ UNCHANGED <<stored, state, at, view, seen>>

\* first the folder, and if the location has deleted it, the row
DeletePermanently(d) ==
    /\ Open(d)
    /\ row # None /\ row.deleted
    /\ stored' = {}
    /\ UNCHANGED <<row, state, at, seen>>

DeleteRow(d) ==
    /\ d \in Purges
    /\ Close(d)
    /\ row' = None
    /\ UNCHANGED <<stored, state, at, seen>>

Answer(v) ==
    \/ AnswerStop(v) \/ EndCheck(v)
    \/ EndCheckBeforeRestore(v) \/ DeleteRow(v)

Next ==
    \/ \E t \in Tasks : Work(t)
    \/ \E s \in Stops : AskStop(s)
    \/ \E c \in Checks : CheckExportData(c)
    \/ \E r \in Restores : CheckBeforeRestore(r)
    \/ \E d \in Purges : DeletePermanently(d)
    \/ \E v \in Views : Answer(v)
    \/ Delete \/ Revert

Spec == Init /\ [][Next]_vars

\* Workers take what is queued and requests are answered; nobody has to ask
\* for anything.
Fairness ==
    /\ \A t \in Tasks : WF_vars(Work(t))
    /\ \A v \in Views : WF_vars(Answer(v))

FairSpec == Spec /\ Fairness

-----------------------------------------------------------------------------
(***************************************************************************)
(* An export that names its export_file can be restored: everything is at  *)
(* the location, whatever failed on the way and whatever the checks wrote  *)
(* back.  This is so as long as nobody has asked to stop it or to delete   *)
(* it for good (export_data_process sets the name last; the saves of       *)
(* CheckExportData and check_before_restore_export_data keep it).          *)
(***************************************************************************)
Unasked == \A v \in Stops \cup Purges : view[v] = "new"
Named == row # None /\ (row.file \/ row.status \in Available)
NamedIsStored == Unasked /\ Named => stored = Pieces

(***************************************************************************)
(* An export does not stay in a state that only a task or a view may leave *)
(* (Pending, Running, Stopping, Checking), however it is stopped and       *)
(* whatever fails: unless check_before_restore_export_data has read such a *)
(* state and written it back.                                              *)
(***************************************************************************)
Final == {"Completed", "Stopped", "Error"}
Settled == row = None \/ row.status \in Final
Borrowed == \E r \in Restores : seen[r] # None /\ seen[r].status \notin Final
ExportEnds == []~Borrowed => <>[]Settled

(***************************************************************************)
(* "'Pending' -> 'Running' -> 'Stopping' -> 'Stopped'": no step leads out  *)
(* of Stopped (the status workflow in osf/models/export_data.py).          *)
(***************************************************************************)
StoppedIsFinal ==
    [][row # None /\ row.status = "Stopped"
         => row' = None \/ row'.status = "Stopped"]_row
=============================================================================
