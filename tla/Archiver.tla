------------------------------- MODULE Archiver -------------------------------
(***************************************************************************)
(* The archiver of GakuNin RDM: it copies the files of every node of a     *)
(* registration, one archive job per node and one target per storage       *)
(* addon.  A celery chain takes the nodes in order: it stats the addons of *)
(* a node, then asks WaterButler for the copies.  WaterButler calls back   *)
(* when a copy is over.  Whoever sees the whole tree finished concludes:   *)
(* the registration is ready to be approved (archive_success calls ask),   *)
(* or it is cancelled.                                                     *)
(*                                                                         *)
(* A callback is served in one database transaction: it sees what was      *)
(* committed when it looked, its writes show when it commits, and it saves *)
(* whole rows.  A celery task saves each row at once; it is one step here. *)
(***************************************************************************)
EXTENDS Naturals, Sequences

CONSTANTS
    Nodes,      \* the nodes of the registration
    Root,       \* its top node
    ParentOf,   \* the parent of every other node
    Chain,      \* node_and_primary_descendants, the order of the chain
    Addons,     \* the storage addons
    Targets     \* the addons archived for each node (osfstorage at least)

ASSUME TreeAssumption ==
    /\ Root \in Nodes
    /\ ParentOf \in [Nodes \ {Root} -> Nodes]
    /\ Chain \in Seq(Nodes)
    /\ Len(Chain) # 0
    /\ Chain[1] = Root
    /\ \A i, j \in 1..Len(Chain) : Chain[i] = Chain[j] => i = j
    /\ Targets \in [Nodes -> (SUBSET Addons) \ {{}}]

INITIATED     == "INITIATED"
SUCCESS       == "SUCCESS"
FAILURE       == "FAILURE"
NETWORK_ERROR == "NETWORK_ERROR"

JobStatus == {INITIATED, SUCCESS, FAILURE}
Job == [status : JobStatus, done : BOOLEAN, sent : BOOLEAN]

(***************************************************************************)
(* The rows: the targets, the jobs, and whether delete_registration_tree   *)
(* has cancelled the registration.                                         *)
(***************************************************************************)
Database == [target : [Nodes -> [Addons -> JobStatus \cup {NETWORK_ERROR}]],
             job : [Nodes -> Job], cancelled : BOOLEAN]

VARIABLES
    db,        \* what is committed
    step,      \* the place in Chain of the node the chain works on
    copy,      \* how far each copy is
    open,      \* the callbacks being served, with the database they saw
    successes, \* the archive_success tasks enqueued
    asked      \* how often archive_success called ask

vars == <<db, step, copy, open, successes, asked>>

Over == Len(Chain) + 1
CopyState == {"none", "queued", "running", "refused", "over"}

TypeOK ==
    /\ db \in Database
    /\ step \in 1..Over
    /\ copy \in [Nodes -> [Addons -> CopyState]]
    /\ \A c \in open : c.node \in Nodes /\ c.addon \in Targets[c.node] /\ c.view \in Database
    /\ successes \in Nat
    /\ asked \in Nat

Init ==
    /\ db = [target |-> [n \in Nodes |-> [a \in Addons |-> INITIATED]],
             job |-> [n \in Nodes |->
                        [status |-> INITIATED, done |-> FALSE, sent |-> FALSE]],
             cancelled |-> FALSE]
    /\ step = 1
    /\ copy = [n \in Nodes |-> [a \in Addons |-> "none"]]
    /\ open = {}
    /\ successes = 0
    /\ asked = 0

-----------------------------------------------------------------------------
(***************************************************************************)
(* ArchiveJob, as functions of the database d.                             *)
(***************************************************************************)

pending(d, n) == \E a \in Targets[n] : d.target[n][a] \notin {SUCCESS, FAILURE}

archive_tree_finished(d) == \A n \in Nodes : ~pending(d, n)

\* Mutant: the failure stays with the node.
fail_nowhere(d, n) == d

(***************************************************************************)
(* _fail_above: the job of the parent node, and only that one.             *)
(***************************************************************************)
fail_above(d, n) ==
    IF n = Root THEN d ELSE [d EXCEPT !.job[ParentOf[n]].status = FAILURE]

\* Mutant: a finished job keeps its status.
post_update_done(d, n) ==
    IF d.job[n].status = FAILURE \/ pending(d, n) THEN d
    ELSE [d EXCEPT !.job[n].done = TRUE]

(***************************************************************************)
(* _post_update_target.                                                    *)
(***************************************************************************)
post_update_target(d, n) ==
    LET status == IF \E a \in Targets[n] : d.target[n][a] = FAILURE
                    THEN FAILURE ELSE SUCCESS
        e == [d EXCEPT !.job[n].done = TRUE, !.job[n].status = status]
    IN  IF d.job[n].status = FAILURE \/ pending(d, n) THEN d
        ELSE IF status = FAILURE THEN fail_above(e, n) ELSE e

(***************************************************************************)
(* update_target for each of a set of targets.  The job is concluded with  *)
(* the last of them, since the others are pending till then.               *)
(***************************************************************************)
update_targets(d, n, addons, status) ==
    IF addons = {} THEN d
    ELSE post_update_target(
           [d EXCEPT !.target[n] = [a \in Addons |-> IF a \in addons THEN status ELSE @[a]]], n)

(***************************************************************************)
(* archive_callback concludes when the tree is finished and nothing was    *)
(* sent: with a task on success, with the cancellation otherwise.          *)
(***************************************************************************)
Concludes(d) == archive_tree_finished(d) /\ ~d.job[Root].sent

Succeeds(d) == Concludes(d) /\ d.job[Root].status = SUCCESS

archive_callback(d) ==
    IF Concludes(d) /\ ~Succeeds(d) THEN [d EXCEPT !.cancelled = TRUE] ELSE d

archive_fail(d) ==
    IF d.job[Root].sent THEN d
    ELSE [d EXCEPT !.job[Root].sent = TRUE, !.cancelled = TRUE]

\* Mutant: the job gets the status that belongs to the node.
on_failure_in_job(d, n) == [d EXCEPT !.job[n].status = "UNCAUGHT_ERROR"]

(***************************************************************************)
(* ArchiverTask.on_failure, for a task of the job of n.                    *)
(***************************************************************************)
on_failure(d, n) == IF d.job[n].status = FAILURE THEN d ELSE archive_fail(d)

-----------------------------------------------------------------------------
(***************************************************************************)
(* The celery chain.                                                       *)
(***************************************************************************)

Enqueue(d) == successes' = IF Succeeds(d) THEN successes + 1 ELSE successes

(***************************************************************************)
(* stat_addon cannot list an addon: its target keeps a network error and   *)
(* the chain stops.                                                        *)
(***************************************************************************)
StatFails ==
    /\ step < Over
    /\ LET n == Chain[step]
       IN  \E a \in Targets[n] :
              db' = on_failure(update_targets(db, n, {a}, NETWORK_ERROR), n)
    /\ step' = Over
    /\ UNCHANGED <<copy, open, successes, asked>>

(***************************************************************************)
(* archive_node finds more than MAX_ARCHIVE_SIZE, or a task of the node    *)
(* fails in some other way.                                                *)
(***************************************************************************)
NodeFails ==
    /\ step < Over
    /\ db' = on_failure(db, Chain[step])
    /\ step' = Over
    /\ UNCHANGED <<copy, open, successes, asked>>

\* Mutant: archive_node leaves the conclusion to the callbacks.
archive_node_silent(empty) ==
    LET n == Chain[step]
    IN  /\ db' = update_targets(db, n, empty, SUCCESS)
        /\ copy' = [copy EXCEPT ![n] = [a \in Addons |->
                        IF a \in Targets[n] \ empty THEN "queued" ELSE "none"]]
        /\ UNCHANGED successes

(***************************************************************************)
(* archive_node: the targets without files are done, the others are        *)
(* queued, and the tree may be finished.                                   *)
(***************************************************************************)
archive_node(empty) ==
    LET n == Chain[step]
        d == update_targets(db, n, empty, SUCCESS)
    IN  /\ db' = archive_callback(d)
        /\ copy' = [copy EXCEPT ![n] = [a \in Addons |->
                        IF a \in Targets[n] \ empty THEN "queued" ELSE "none"]]
        /\ Enqueue(d)

ArchiveNode ==
    /\ step < Over
    /\ \E empty \in SUBSET Targets[Chain[step]] : archive_node(empty)
    /\ step' = step + 1
    /\ UNCHANGED <<open, asked>>

(***************************************************************************)
(* make_copy_request: WaterButler accepts the copy, or refuses it, which   *)
(* fails the task and leaves the target as it is.                          *)
(***************************************************************************)
MakeCopyRequest(n, a) ==
    /\ copy[n][a] = "queued"
    /\ \/ /\ copy' = [copy EXCEPT ![n][a] = "running"]
          /\ UNCHANGED db
       \/ /\ copy' = [copy EXCEPT ![n][a] = "refused"]
          /\ db' = on_failure(db, n)
    /\ UNCHANGED <<step, open, successes, asked>>

-----------------------------------------------------------------------------
(***************************************************************************)
(* The callbacks of WaterButler (registration_callbacks).                  *)
(***************************************************************************)

CopyEnds(n, a) ==
    /\ copy[n][a] = "running"
    /\ copy' = [copy EXCEPT ![n][a] = "over"]
    /\ open' = open \cup {[node |-> n, addon |-> a, view |-> db]}
    /\ UNCHANGED <<db, step, successes, asked>>

(***************************************************************************)
(* What is committed once the callback c, that saw c.view, commits e: its  *)
(* target, and every job it saved, whole.                                  *)
(***************************************************************************)
Commit(c, e) ==
    [target |-> [db.target EXCEPT ![c.node][c.addon] = e.target[c.node][c.addon]],
     job |-> [m \in Nodes |-> IF e.job[m] # c.view.job[m] THEN e.job[m] ELSE db.job[m]],
     cancelled |-> db.cancelled \/ e.cancelled]

Callback(c) ==
    /\ c \in open
    /\ open' = open \ {c}
    /\ \E status \in {SUCCESS, FAILURE} :
          LET d == update_targets(c.view, c.node, {c.addon}, status)
          IN  /\ db' = Commit(c, archive_callback(d))
              /\ Enqueue(d)
    /\ UNCHANGED <<step, copy, asked>>

(***************************************************************************)
(* archive_success: ask is called, once, or a file that the registration   *)
(* refers to is missing from the copy.  The mails of ask are disabled in   *)
(* this fork; the call is what remains.                                    *)
(***************************************************************************)
ArchiveSuccess ==
    /\ successes > 0
    /\ successes' = successes - 1
    /\ \/ /\ ~db.job[Root].sent
          /\ db' = [db EXCEPT !.job[Root].sent = TRUE]
          /\ asked' = asked + 1
       \/ /\ db' = on_failure(db, Root)
          /\ UNCHANGED asked
    /\ UNCHANGED <<step, copy, open>>

Next ==
    \/ StatFails
    \/ NodeFails
    \/ ArchiveNode
    \/ \E n \in Nodes, a \in Addons : MakeCopyRequest(n, a) \/ CopyEnds(n, a)
    \/ \E c \in open : Callback(c)
    \/ ArchiveSuccess

Spec == Init /\ [][Next]_vars

(***************************************************************************)
(* Celery runs what is queued, WaterButler finishes its copies and its     *)
(* callbacks are answered.                                                 *)
(***************************************************************************)
Fairness ==
    /\ WF_vars(ArchiveNode)
    /\ \A n \in Nodes, a \in Addons : WF_vars(MakeCopyRequest(n, a)) /\ WF_vars(CopyEnds(n, a))
    /\ WF_vars(\E c \in open : Callback(c))
    /\ WF_vars(ArchiveSuccess)

FairSpec == Spec /\ Fairness

(***************************************************************************)
(* The same with one callback at a time and nothing else meanwhile.        *)
(***************************************************************************)
SerialSpec == Init /\ [][Next /\ (open # {} => open' = {})]_vars /\ Fairness

-----------------------------------------------------------------------------
(***************************************************************************)
(* A registration is found ready to be approved (ask is called) only when  *)
(* every file of every node was copied.                                    *)
(***************************************************************************)
AskedIsCopied ==
    asked # 0 => \A n \in Nodes : \A a \in Targets[n] : db.target[n][a] = SUCCESS

(***************************************************************************)
(* A registration whose files are all copied is not cancelled, unless      *)
(* archive_success misses a file in the copy.                              *)
(***************************************************************************)
NoFalseAlarm ==
    [][~db.cancelled /\ db'.cancelled /\ successes' >= successes =>
          \E n \in Nodes : \E a \in Targets[n] : db'.target[n][a] # SUCCESS]_vars

(***************************************************************************)
(* "When the tree of ArchiveJob instances is complete, proceed to send     *)
(* success or failure mails" (archive_callback): the archiving ends with   *)
(* the call of ask or a cancellation, unless a copy is refused.            *)
(***************************************************************************)
VerdictIsReached ==
    <>(asked # 0 \/ db.cancelled \/ \E n \in Nodes, a \in Addons : copy[n][a] = "refused")
=============================================================================
