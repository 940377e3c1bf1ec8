---------------------------- MODULE ArchiverProofs ----------------------------
(***************************************************************************)
(* Theorems about Archiver, for any tree of nodes and any storage addons.  *)
(* Type correctness holds however the callbacks overlap.  That ask is not  *)
(* called for an incomplete copy, and that a complete one is not           *)
(* cancelled, holds when one callback is served at a time.                 *)
(***************************************************************************)
EXTENDS Archiver, TLAPS

(***************************************************************************)
(* The type invariant, inductive with this: only targets are copied.       *)
(***************************************************************************)
CopiesAreOfTargets == \A n \in Nodes, a \in Addons : copy[n][a] # "none" => a \in Targets[n]

TypeInv == TypeOK /\ CopiesAreOfTargets

-----------------------------------------------------------------------------
(***************************************************************************)
(* What the operations on the database do.                                 *)
(***************************************************************************)
Statuses == JobStatus \cup {NETWORK_ERROR}

\* update_target before it looks at the whole job.
Written(d, n, addons, status) ==
    [d EXCEPT !.target[n] = [a \in Addons |-> IF a \in addons THEN status ELSE @[a]]]

HasFailure(d, n) == \E a \in Targets[n] : d.target[n][a] = FAILURE

\* d and e have the same targets and the same statuses.
SameStatuses(d, e) ==
    e.target = d.target /\ \A n \in Nodes : e.job[n].status = d.job[n].status

LEMMA RootIsNode == Root \in Nodes
BY TreeAssumption

LEMMA TargetsAreAddons == \A n \in Nodes : Targets[n] # {} /\ Targets[n] \subseteq Addons
BY TreeAssumption

LEMMA JobFields ==
    ASSUME NEW j \in Job
    PROVE  /\ \A s \in JobStatus : [j EXCEPT !.status = s] \in Job
           /\ [j EXCEPT !.sent = TRUE] \in Job
           /\ [j EXCEPT !.sent = TRUE].status = j.status
BY DEF Job

LEMMA WrittenFacts ==
    ASSUME NEW d \in Database, NEW n \in Nodes, NEW A \in SUBSET Addons, NEW s \in Statuses
    PROVE  /\ Written(d, n, A, s) \in Database
           /\ Written(d, n, A, s).job = d.job
           /\ Written(d, n, A, s).cancelled = d.cancelled
           /\ \A m \in Nodes, a \in Addons :
                 Written(d, n, A, s).target[m][a] =
                    IF m = n /\ a \in A THEN s ELSE d.target[m][a]
<1> DEFINE row == [a \in Addons |-> IF a \in A THEN s ELSE d.target[n][a]]
           w == [d EXCEPT !.target[n] = row]
<1>1. row \in [Addons -> Statuses]
  BY DEF Database, Statuses
<1>2. w \in Database /\ w.job = d.job /\ w.cancelled = d.cancelled
      /\ w.target = [d.target EXCEPT ![n] = row]
  BY <1>1 DEF Database, Statuses
<1>3. Written(d, n, A, s) = w
  BY DEF Written, Database
<1>4. \A m \in Nodes, a \in Addons :
         w.target[m][a] = IF m = n /\ a \in A THEN s ELSE d.target[m][a]
  BY <1>2 DEF Database
<1> QED  BY <1>2, <1>3, <1>4

(***************************************************************************)
(* _post_update_target leaves the targets alone, and concludes the job of  *)
(* the node when nothing is pending; a failure reaches the parent.         *)
(***************************************************************************)
LEMMA PostFacts ==
    ASSUME NEW d \in Database, NEW n \in Nodes
    PROVE  LET e == post_update_target(d, n)
           IN  /\ e \in Database
               /\ e.target = d.target
               /\ e.cancelled = d.cancelled
               /\ \A m \in Nodes : e.job[m].sent = d.job[m].sent
               /\ d.job[n].status = FAILURE \/ pending(d, n) => e = d
               /\ d.job[n].status # FAILURE /\ ~pending(d, n) /\ HasFailure(d, n) =>
                     /\ e.job[n].status = FAILURE
                     /\ n # Root => e.job[ParentOf[n]].status = FAILURE
                     /\ \A m \in Nodes \ {n} :
                           \/ e.job[m].status = d.job[m].status
                           \/ n # Root /\ m = ParentOf[n]
               /\ d.job[n].status # FAILURE /\ ~pending(d, n) /\ ~HasFailure(d, n) =>
                     /\ e.job[n].status = SUCCESS
                     /\ \A m \in Nodes \ {n} : e.job[m].status = d.job[m].status
<1> DEFINE status == IF \E a \in Targets[n] : d.target[n][a] = FAILURE THEN FAILURE ELSE SUCCESS
           e == [d EXCEPT !.job[n].done = TRUE, !.job[n].status = status]
           p == ParentOf[n]
           f == [e EXCEPT !.job[p].status = FAILURE]
           row == [d.job[n] EXCEPT !.done = TRUE, !.status = status]
<1>1. /\ e \in Database /\ e.target = d.target /\ e.cancelled = d.cancelled
      /\ e.job[n].status = status
      /\ \A m \in Nodes : e.job[m].sent = d.job[m].sent
      /\ \A m \in Nodes \ {n} : e.job[m] = d.job[m]
  <2>1. status \in JobStatus
    BY DEF JobStatus
  <2> HIDE DEF status
  <2>2. row \in Job /\ row.status = status /\ row.sent = d.job[n].sent
    BY <2>1 DEF Database, Job
  <2>3. e = [d EXCEPT !.job[n] = row]
    BY DEF Database
  <2> HIDE DEF row
  <2>4. e.job = [d.job EXCEPT ![n] = row] /\ e.target = d.target /\ e.cancelled = d.cancelled
    BY <2>3 DEF Database
  <2>5. e \in Database
    BY <2>2, <2>3 DEF Database
  <2> QED  BY <2>2, <2>4, <2>5 DEF Database
<1>2. ASSUME n # Root
      PROVE  /\ p \in Nodes
             /\ f \in Database /\ f.target = d.target /\ f.cancelled = d.cancelled
             /\ f.job[p].status = FAILURE
             /\ \A m \in Nodes : f.job[m].sent = d.job[m].sent
             /\ \A m \in Nodes \ {p} : f.job[m] = e.job[m]
  <2>1. p \in Nodes
    BY <1>2, TreeAssumption
  <2> HIDE DEF p, e
  <2>2. [e.job[p] EXCEPT !.status = FAILURE] \in Job
    <3>1. e.job[p] \in Job /\ FAILURE \in JobStatus
      BY <1>1, <2>1 DEF Database, JobStatus
    <3> QED  BY <3>1, JobFields
  <2>3. f.job = [e.job EXCEPT ![p] = [@ EXCEPT !.status = FAILURE]]
        /\ f.target = e.target /\ f.cancelled = e.cancelled /\ f \in Database
    BY <1>1, <2>1, <2>2 DEF Database
  <2>4. f.job[p].status = FAILURE /\ f.job[p].sent = e.job[p].sent
    BY <1>1, <2>1, <2>3 DEF Database, Job
  <2>5. \A m \in Nodes \ {p} : f.job[m] = e.job[m]
    BY <1>1, <2>1, <2>3 DEF Database
  <2> QED  BY <1>1, <2>1, <2>3, <2>4, <2>5
<1>3. post_update_target(d, n) =
         IF d.job[n].status = FAILURE \/ pending(d, n) THEN d
         ELSE IF status = FAILURE /\ n # Root THEN f ELSE e
  BY DEF post_update_target, fail_above
<1>4. status = FAILURE <=> HasFailure(d, n)
  BY DEF HasFailure, FAILURE, SUCCESS
<1> HIDE DEF status, e, f, p
<1>5. CASE d.job[n].status = FAILURE \/ pending(d, n)
  BY <1>3, <1>5
<1>6. CASE ~(d.job[n].status = FAILURE \/ pending(d, n)) /\ status = FAILURE /\ n # Root
  <2>1. post_update_target(d, n) = f
    BY <1>3, <1>6
  <2>2. f.job[n].status = FAILURE
    BY <1>1, <1>2, <1>6
  <2> QED  BY <1>1, <1>2, <1>4, <1>6, <2>1, <2>2 DEF p
<1>7. CASE ~(d.job[n].status = FAILURE \/ pending(d, n)) /\ ~(status = FAILURE /\ n # Root)
  <2>1. post_update_target(d, n) = e
    BY <1>3, <1>7
  <2>2. status = FAILURE \/ status = SUCCESS
    BY DEF status
  <2> QED  BY <1>1, <1>4, <1>7, <2>1, <2>2
<1> QED  BY <1>5, <1>6, <1>7

\* e is d with the status s at the targets A of n, but for its jobs.
Updated(d, n, A, s, e) ==
    /\ e \in Database
    /\ e.cancelled = d.cancelled
    /\ \A m \in Nodes, a \in Addons :
          e.target[m][a] = IF m = n /\ a \in A THEN s ELSE d.target[m][a]

LEMMA UpdateFacts ==
    ASSUME NEW d \in Database, NEW n \in Nodes, NEW A \in SUBSET Addons, NEW s \in Statuses
    PROVE  Updated(d, n, A, s, update_targets(d, n, A, s))
<1> DEFINE w == Written(d, n, A, s)
<1>1. CASE A = {}
  BY <1>1 DEF update_targets, Updated
<1>2. CASE A # {}
  <2>1. update_targets(d, n, A, s) = post_update_target(w, n)
    BY <1>2 DEF update_targets, Written
  <2>2. w \in Database
    BY WrittenFacts
  <2>3. LET e == post_update_target(w, n)
        IN  e \in Database /\ e.target = w.target /\ e.cancelled = w.cancelled
    <3> HIDE DEF w
    <3> QED  BY <2>2, PostFacts
  <2>4. /\ w.job = d.job /\ w.cancelled = d.cancelled
        /\ \A m \in Nodes, a \in Addons :
              w.target[m][a] = IF m = n /\ a \in A THEN s ELSE d.target[m][a]
    BY WrittenFacts
  <2> QED  BY <2>1, <2>3, <2>4 DEF Updated
<1> QED  BY <1>1, <1>2

LEMMA CallbackFacts ==
    ASSUME NEW d \in Database
    PROVE  /\ archive_callback(d) \in Database
           /\ archive_callback(d).target = d.target
           /\ archive_callback(d).job = d.job
           /\ d.cancelled => archive_callback(d).cancelled
           /\ Succeeds(d) => archive_callback(d) = d
           /\ archive_callback(d).cancelled => d.cancelled \/ (Concludes(d) /\ ~Succeeds(d))
BY DEF archive_callback, Database

LEMMA SentFacts ==
    ASSUME NEW d \in Database
    PROVE  LET e == [d EXCEPT !.job[Root].sent = TRUE]
           IN  e \in Database /\ e.cancelled = d.cancelled /\ SameStatuses(d, e)
<1> DEFINE e == [d EXCEPT !.job[Root].sent = TRUE]
<1>1. [d.job[Root] EXCEPT !.sent = TRUE] \in Job
      /\ [d.job[Root] EXCEPT !.sent = TRUE].status = d.job[Root].status
  BY TreeAssumption, JobFields DEF Database
<1>2. e \in Database /\ e.target = d.target /\ e.cancelled = d.cancelled
      /\ e.job = [d.job EXCEPT ![Root] = [@ EXCEPT !.sent = TRUE]]
  BY <1>1 DEF Database
<1>3. \A m \in Nodes : e.job[m].status = d.job[m].status
  BY <1>1, <1>2 DEF Database
<1> QED  BY <1>2, <1>3 DEF SameStatuses

LEMMA FailFacts ==
    ASSUME NEW d \in Database, NEW n \in Nodes
    PROVE  on_failure(d, n) \in Database /\ SameStatuses(d, on_failure(d, n))
<1> DEFINE e == [d EXCEPT !.job[Root].sent = TRUE]
<1>1. e \in Database /\ SameStatuses(d, e)
  BY SentFacts
<1> HIDE DEF e
<1>2. [e EXCEPT !.cancelled = TRUE] \in Database /\ SameStatuses(d, [e EXCEPT !.cancelled = TRUE])
  BY <1>1 DEF Database, SameStatuses
<1>3. [d EXCEPT !.job[Root].sent = TRUE, !.cancelled = TRUE] = [e EXCEPT !.cancelled = TRUE]
  BY DEF e
<1> QED  BY <1>2, <1>3 DEF on_failure, archive_fail, SameStatuses

-----------------------------------------------------------------------------
(***************************************************************************)
(* Type correctness.                                                       *)
(***************************************************************************)
LEMMA ChainFacts ==
    /\ Len(Chain) \in Nat \ {0}
    /\ \A i \in 1..Len(Chain) : Chain[i] \in Nodes
BY TreeAssumption

LEMMA InitTypeInv == Init => TypeInv
<1> SUFFICES ASSUME Init PROVE TypeInv
  OBVIOUS
<1>1. db \in Database
  BY DEF Init, Database, Job, JobStatus
<1>2. step \in 1..Over
  BY ChainFacts DEF Init, Over
<1> QED  BY <1>1, <1>2 DEF Init, TypeInv, TypeOK, CopyState, CopiesAreOfTargets

\* What a step that writes the database owes the types, when it does
\* not touch the copies or the callbacks.
LEMMA StepTypes ==
    ASSUME TypeInv, db' \in Database, step' \in 1..Over, UNCHANGED copy,
           open' \subseteq open, successes' \in Nat, asked' \in Nat
    PROVE  TypeInv'
BY DEF TypeInv, TypeOK, CopiesAreOfTargets

LEMMA StepPlace ==
    ASSUME TypeInv, step < Over
    PROVE  /\ step \in 1..Len(Chain) /\ step + 1 \in 1..Over /\ Over \in 1..Over
           /\ Chain[step] \in Nodes
BY ChainFacts DEF TypeInv, TypeOK, Over

LEMMA EnqueueTypes == ASSUME TypeInv, NEW d, Enqueue(d) PROVE successes' \in Nat
BY DEF TypeInv, TypeOK, Enqueue

LEMMA StatFailsTypes == ASSUME TypeInv, StatFails PROVE TypeInv'
<1> DEFINE n == Chain[step]
<1>1. PICK a \in Targets[n] : db' = on_failure(update_targets(db, n, {a}, NETWORK_ERROR), n)
  BY DEF StatFails
<1>2. n \in Nodes /\ Over \in 1..Over
  BY StepPlace DEF StatFails
<1> HIDE DEF n
<1>3. update_targets(db, n, {a}, NETWORK_ERROR) \in Database
  <2>1. {a} \in SUBSET Addons /\ NETWORK_ERROR \in Statuses /\ db \in Database
    BY <1>2, TargetsAreAddons DEF TypeInv, TypeOK, Statuses
  <2> QED  BY <1>2, <2>1, UpdateFacts DEF Updated
<1>4. db' \in Database
  BY <1>1, <1>2, <1>3, FailFacts
<1> QED  BY <1>2, <1>4, StepTypes DEF StatFails, TypeInv, TypeOK

LEMMA NodeFailsTypes == ASSUME TypeInv, NodeFails PROVE TypeInv'
<1>1. Chain[step] \in Nodes /\ Over \in 1..Over
  BY StepPlace DEF NodeFails
<1>2. db' \in Database
  BY <1>1, FailFacts DEF NodeFails, TypeInv, TypeOK
<1> QED  BY <1>1, <1>2, StepTypes DEF NodeFails, TypeInv, TypeOK

LEMMA ArchiveNodeTypes == ASSUME TypeInv, ArchiveNode PROVE TypeInv'
<1> DEFINE n == Chain[step]
<1>1. PICK empty \in SUBSET Targets[n] : archive_node(empty)
  BY DEF ArchiveNode
<1> DEFINE d == update_targets(db, n, empty, SUCCESS)
           row == [a \in Addons |-> IF a \in Targets[n] \ empty THEN "queued" ELSE "none"]
<1>2. n \in Nodes /\ step' \in 1..Over
  BY StepPlace DEF ArchiveNode
<1>3. d \in Database
  BY <1>2, UpdateFacts, TargetsAreAddons DEF TypeInv, TypeOK, Statuses, JobStatus, Updated
<1>4. db' = archive_callback(d) /\ copy' = [copy EXCEPT ![n] = row] /\ Enqueue(d)
  BY <1>1 DEF archive_node
<1>5. row \in [Addons -> CopyState] /\ \A a \in Addons : row[a] # "none" => a \in Targets[n]
  BY DEF CopyState
<1> HIDE DEF n, d, row
<1>6. db' \in Database /\ successes' \in Nat
  BY <1>3, <1>4, CallbackFacts, EnqueueTypes
<1>7. copy' \in [Nodes -> [Addons -> CopyState]] /\ CopiesAreOfTargets'
  BY <1>2, <1>4, <1>5 DEF TypeInv, TypeOK, CopiesAreOfTargets
<1> QED  BY <1>2, <1>6, <1>7 DEF ArchiveNode, TypeInv, TypeOK

LEMMA MakeCopyRequestTypes ==
    ASSUME TypeInv, NEW n \in Nodes, NEW a \in Addons, MakeCopyRequest(n, a)
    PROVE  TypeInv'
<1>1. PICK c \in {"running", "refused"} : copy' = [copy EXCEPT ![n][a] = c]
  BY DEF MakeCopyRequest
<1>2. copy' \in [Nodes -> [Addons -> CopyState]] /\ CopiesAreOfTargets'
  BY <1>1 DEF MakeCopyRequest, TypeInv, TypeOK, CopiesAreOfTargets, CopyState
<1>3. db' \in Database
  BY FailFacts DEF MakeCopyRequest, TypeInv, TypeOK
<1> QED  BY <1>2, <1>3 DEF MakeCopyRequest, TypeInv, TypeOK

LEMMA CopyEndsTypes ==
    ASSUME TypeInv, NEW n \in Nodes, NEW a \in Addons, CopyEnds(n, a)
    PROVE  TypeInv'
<1>1. copy' \in [Nodes -> [Addons -> CopyState]] /\ CopiesAreOfTargets'
  BY DEF CopyEnds, TypeInv, TypeOK, CopiesAreOfTargets, CopyState
<1>2. \A c \in open' : c.node \in Nodes /\ c.addon \in Targets[c.node] /\ c.view \in Database
  BY DEF CopyEnds, TypeInv, TypeOK, CopiesAreOfTargets
<1> QED  BY <1>1, <1>2 DEF CopyEnds, TypeInv, TypeOK

LEMMA CommitTypes ==
    ASSUME TypeInv, NEW c \in open, NEW e \in Database
    PROVE  Commit(c, e) \in Database
<1>1. c.node \in Nodes /\ c.addon \in Addons
  BY TargetsAreAddons DEF TypeInv, TypeOK
<1>2. db \in Database
  BY DEF TypeInv, TypeOK
<1>3. [db.target EXCEPT ![c.node][c.addon] = e.target[c.node][c.addon]]
         \in [Nodes -> [Addons -> JobStatus \cup {NETWORK_ERROR}]]
  BY <1>1, <1>2 DEF Database
<1>4. [m \in Nodes |-> IF e.job[m] # c.view.job[m] THEN e.job[m] ELSE db.job[m]] \in [Nodes -> Job]
  BY <1>2 DEF Database
<1> QED  BY <1>2, <1>3, <1>4 DEF Commit, Database

LEMMA CallbackTypes == ASSUME TypeInv, NEW c \in open, Callback(c) PROVE TypeInv'
<1>1. PICK s \in {SUCCESS, FAILURE} :
         LET d == update_targets(c.view, c.node, {c.addon}, s)
         IN  db' = Commit(c, archive_callback(d)) /\ Enqueue(d)
  BY DEF Callback
<1> DEFINE d == update_targets(c.view, c.node, {c.addon}, s)
<1>2. d \in Database
  BY UpdateFacts, TargetsAreAddons DEF TypeInv, TypeOK, Statuses, JobStatus, Updated
<1>3. db' = Commit(c, archive_callback(d)) /\ Enqueue(d)
  BY <1>1
<1> HIDE DEF d
<1>4. db' \in Database /\ successes' \in Nat
  BY <1>2, <1>3, CallbackFacts, CommitTypes, EnqueueTypes
<1> QED  BY <1>4, StepTypes DEF Callback, TypeInv, TypeOK

LEMMA ArchiveSuccessTypes == ASSUME TypeInv, ArchiveSuccess PROVE TypeInv'
<1>1. [db EXCEPT !.job[Root].sent = TRUE] \in Database
  BY SentFacts DEF TypeInv, TypeOK
<1>2. on_failure(db, Root) \in Database
  BY FailFacts, TreeAssumption DEF TypeInv, TypeOK
<1>3. successes' \in Nat /\ asked' \in Nat
  BY DEF ArchiveSuccess, TypeInv, TypeOK
<1> QED  BY <1>1, <1>2, <1>3, StepTypes DEF ArchiveSuccess, TypeInv, TypeOK

LEMMA NextTypes == ASSUME TypeInv, [Next]_vars PROVE TypeInv'
<1>1. CASE UNCHANGED vars
  BY <1>1 DEF vars, TypeInv, TypeOK, CopiesAreOfTargets
<1>2. CASE Next
  BY <1>2, StatFailsTypes, NodeFailsTypes, ArchiveNodeTypes, MakeCopyRequestTypes,
     CopyEndsTypes, CallbackTypes, ArchiveSuccessTypes DEF Next
<1> QED  BY <1>1, <1>2

(***************************************************************************)
(* The types of the rows, the tasks and the callbacks, however the         *)
(* callbacks overlap.                                                      *)
(***************************************************************************)
THEOREM TypeCorrect == Spec => []TypeOK
<1>1. Init => TypeInv
  BY InitTypeInv
<1>2. TypeInv /\ [Next]_vars => TypeInv'
  BY NextTypes
<1>3. TypeInv => TypeOK
  BY DEF TypeInv
<1> QED  BY <1>1, <1>2, <1>3, PTL DEF Spec

-----------------------------------------------------------------------------
(***************************************************************************)
(* One callback at a time.  The inductive invariant:                       *)
(*   Untouched   what the chain has not reached is as it was created;      *)
(*   FlightOK    the target of a copy on its way is not concluded;         *)
(*   OpenOK      the callback being served sees what is committed, and is  *)
(*               the last thing to happen to its target;                   *)
(*   JobsOK      what the jobs say agrees with the targets;                *)
(*   AskedOK     no task and no question before everything is copied.      *)
(* JobsOK has two halves.  A failed job has a failed target somewhere, and *)
(* the job of the root is concluded with its targets: so a complete copy   *)
(* is a success.  And a failure reaches the root, which _fail_above        *)
(* ensures of the children of the root only.                               *)
(***************************************************************************)
Flat == \A n \in Nodes \ {Root} : ParentOf[n] = Root

Untouched ==
    \A i \in step..Len(Chain) : \A a \in Addons :
        copy[Chain[i]][a] = "none" /\ db.target[Chain[i]][a] = INITIATED

FlightOK ==
    \A n \in Nodes, a \in Addons :
        copy[n][a] \in {"queued", "running"} => db.target[n][a] = INITIATED

OpenOK ==
    \A c \in open :
        /\ open = {c}
        /\ c.view = db
        /\ copy[c.node][c.addon] = "over"
        /\ db.target[c.node][c.addon] = INITIATED

FailuresHaveReason(d) ==
    \A n \in Nodes : d.job[n].status = FAILURE => \E m \in Nodes : HasFailure(d, m)

RootConcluded(d) == ~pending(d, Root) => d.job[Root].status # INITIATED

FailuresReachRoot(d) ==
    \A n \in Nodes :
        d.job[n].status = FAILURE \/ (~pending(d, n) /\ HasFailure(d, n)) =>
            d.job[Root].status = FAILURE

JobsOK(d) == FailuresHaveReason(d) /\ RootConcluded(d) /\ (Flat => FailuresReachRoot(d))

AllCopied(d) == \A n \in Nodes : \A a \in Targets[n] : d.target[n][a] = SUCCESS

AskedOK == Flat /\ (successes # 0 \/ asked # 0) => AllCopied(db)

IInv == TypeInv /\ Untouched /\ FlightOK /\ OpenOK /\ JobsOK(db) /\ AskedOK

LEMMA JobsDependOnStatuses ==
    ASSUME NEW d, NEW e, SameStatuses(d, e), JobsOK(d)
    PROVE  JobsOK(e)
BY RootIsNode DEF SameStatuses, JobsOK, FailuresHaveReason, RootConcluded, FailuresReachRoot,
   HasFailure, pending

(***************************************************************************)
(* update_target, of targets that are not concluded, keeps the jobs true   *)
(* to the targets.                                                         *)
(***************************************************************************)
LEMMA UpdateKeepsJobs ==
    ASSUME NEW d \in Database, JobsOK(d), NEW n \in Nodes, NEW A \in SUBSET Targets[n],
           NEW s \in Statuses, \A a \in A : d.target[n][a] = INITIATED
    PROVE  JobsOK(update_targets(d, n, A, s))
<1> DEFINE w == Written(d, n, A, s)
           e == post_update_target(w, n)
<1> USE DEF JobsOK
<1>1. CASE A = {}
  BY <1>1 DEF update_targets
<1>2. CASE A # {}
  <2>1. update_targets(d, n, A, s) = e
    BY <1>2 DEF update_targets, Written
  <2>2. A \in SUBSET Addons
    BY TargetsAreAddons
  <2>3. /\ w \in Database /\ w.job = d.job
        /\ \A m \in Nodes, a \in Addons :
              w.target[m][a] = IF m = n /\ a \in A THEN s ELSE d.target[m][a]
    BY <2>2, WrittenFacts
  <2> HIDE DEF w
  <2>4. FailuresHaveReason(w)
    <3>1. \A m \in Nodes : HasFailure(d, m) => HasFailure(w, m)
      BY <2>3, TargetsAreAddons DEF HasFailure, INITIATED, FAILURE
    <3> QED  BY <2>3, <3>1 DEF FailuresHaveReason
  <2>5. \A m \in Nodes \ {n} : /\ pending(w, m) <=> pending(d, m)
                               /\ HasFailure(w, m) <=> HasFailure(d, m)
    BY <2>3, TargetsAreAddons DEF pending, HasFailure
  <2>6. e.target = w.target /\ \A m \in Nodes : /\ pending(e, m) <=> pending(w, m)
                                                /\ HasFailure(e, m) <=> HasFailure(w, m)
    BY <2>3, PostFacts DEF pending, HasFailure
  <2>7. CASE w.job[n].status = FAILURE \/ pending(w, n)
    <3>1. e = w
      BY <2>3, <2>7, PostFacts
    <3>2. RootConcluded(w)
      BY <2>3, <2>5, <2>7, RootIsNode DEF RootConcluded, INITIATED, FAILURE
    <3>3. Flat => FailuresReachRoot(w)
      BY <2>3, <2>5, <2>7 DEF FailuresReachRoot
    <3> QED  BY <2>1, <2>4, <3>1, <3>2, <3>3
  <2>8. CASE w.job[n].status # FAILURE /\ ~pending(w, n) /\ HasFailure(w, n)
    <3>1. /\ e.job[n].status = FAILURE
          /\ n # Root => e.job[ParentOf[n]].status = FAILURE
          /\ \A m \in Nodes \ {n} :
                e.job[m].status = w.job[m].status \/ (n # Root /\ m = ParentOf[n])
      BY <2>3, <2>8, PostFacts
    <3> HIDE DEF e
    <3>2. FailuresHaveReason(e)
      BY <2>6, <2>8 DEF FailuresHaveReason
    <3>3. RootConcluded(e)
      BY <2>3, <2>5, <2>6, <3>1, RootIsNode DEF RootConcluded, INITIATED, FAILURE
    <3>4. Flat => e.job[Root].status = FAILURE
      BY <3>1 DEF Flat
    <3> QED  BY <2>1, <3>2, <3>3, <3>4 DEF FailuresReachRoot
  <2>9. CASE w.job[n].status # FAILURE /\ ~pending(w, n) /\ ~HasFailure(w, n)
    <3>1. /\ e.job[n].status = SUCCESS
          /\ \A m \in Nodes \ {n} : e.job[m].status = w.job[m].status
      BY <2>3, <2>9, PostFacts
    <3> HIDE DEF e
    <3>2. FailuresHaveReason(e)
      BY <2>4, <2>6, <3>1 DEF FailuresHaveReason, SUCCESS, FAILURE
    <3>3. RootConcluded(e)
      BY <2>3, <2>5, <2>6, <3>1, RootIsNode DEF RootConcluded, INITIATED, SUCCESS
    <3>4. ASSUME Flat PROVE FailuresReachRoot(e)
      BY <2>3, <2>5, <2>6, <2>9, <3>1, <3>4, RootIsNode
         DEF FailuresReachRoot, SUCCESS, FAILURE
    <3> QED  BY <2>1, <3>2, <3>3, <3>4
  <2> QED  BY <2>7, <2>8, <2>9
<1> QED  BY <1>1, <1>2

(***************************************************************************)
(* When the tree is finished, the job of the root is concluded, and with a *)
(* success exactly when everything is copied.                              *)
(***************************************************************************)
LEMMA RootIsVerdict ==
    ASSUME NEW d \in Database, JobsOK(d), archive_tree_finished(d)
    PROVE  /\ AllCopied(d) => d.job[Root].status = SUCCESS
           /\ Flat /\ d.job[Root].status = SUCCESS => AllCopied(d)
<1> USE DEF JobsOK, archive_tree_finished
<1>1. \A n \in Nodes : \A a \in Targets[n] : d.target[n][a] \in {SUCCESS, FAILURE}
  BY DEF pending
<1>2. ASSUME AllCopied(d) PROVE d.job[Root].status = SUCCESS
  <2>1. \A m \in Nodes : ~HasFailure(d, m)
    BY <1>2 DEF AllCopied, HasFailure, SUCCESS, FAILURE
  <2>2. d.job[Root].status # FAILURE /\ d.job[Root].status # INITIATED
    BY <2>1, RootIsNode DEF FailuresHaveReason, RootConcluded
  <2>3. d.job[Root].status \in JobStatus
    BY RootIsNode DEF Database, Job
  <2> QED  BY <2>2, <2>3 DEF JobStatus
<1>3. ASSUME Flat, d.job[Root].status = SUCCESS PROVE AllCopied(d)
  <2>1. \A m \in Nodes : ~HasFailure(d, m)
    BY <1>3 DEF FailuresReachRoot, SUCCESS, FAILURE
  <2> QED  BY <1>1, <2>1 DEF AllCopied, HasFailure
<1> QED  BY <1>2, <1>3

-----------------------------------------------------------------------------
(***************************************************************************)
(* The steps of the serial specification.                                  *)
(***************************************************************************)
SerialStep == open # {} => open' = {}

LEMMA InitIInv == Init => IInv
<1> SUFFICES ASSUME Init PROVE IInv
  OBVIOUS
<1> USE DEF Init
<1>1. TypeInv
  BY InitTypeInv
<1>2. Untouched /\ FlightOK /\ OpenOK
  BY ChainFacts DEF Untouched, FlightOK, OpenOK
<1>3. \A n \in Nodes : pending(db, n) /\ db.job[n].status = INITIATED
  BY TargetsAreAddons DEF pending, INITIATED, SUCCESS, FAILURE
<1>4. JobsOK(db)
  BY <1>3, RootIsNode DEF JobsOK, FailuresHaveReason, RootConcluded, FailuresReachRoot,
     INITIATED, FAILURE
<1> QED  BY <1>1, <1>2, <1>4 DEF IInv, AskedOK

\* While the chain works, or a copy is on its way, not everything is copied.
LEMMA WorkingIsIncomplete ==
    ASSUME IInv
    PROVE  /\ step < Over => ~AllCopied(db)
           /\ \A n \in Nodes, a \in Addons :
                 copy[n][a] \in {"queued", "running"} => a \in Targets[n] /\ ~AllCopied(db)
           /\ \A c \in open : ~AllCopied(db)
<1>1. ASSUME step < Over PROVE ~AllCopied(db)
  <2>1. step \in step..Len(Chain) /\ Chain[step] \in Nodes
    BY <1>1, StepPlace DEF IInv
  <2>2. PICK a \in Targets[Chain[step]] : a \in Addons
    BY <2>1, TargetsAreAddons
  <2> QED  BY <2>1, <2>2 DEF IInv, Untouched, AllCopied, INITIATED, SUCCESS
<1>2. ASSUME NEW n \in Nodes, NEW a \in Addons, copy[n][a] \in {"queued", "running"}
      PROVE  a \in Targets[n] /\ ~AllCopied(db)
  BY <1>2 DEF IInv, TypeInv, CopiesAreOfTargets, FlightOK, AllCopied, INITIATED, SUCCESS
<1>3. ASSUME NEW c \in open PROVE ~AllCopied(db)
  BY <1>3, TargetsAreAddons DEF IInv, TypeInv, TypeOK, OpenOK, AllCopied, INITIATED, SUCCESS
<1> QED  BY <1>1, <1>2, <1>3

\* What a step that changes no status owes the invariant.
LEMMA QuietKeepsInv ==
    ASSUME IInv, TypeInv', SameStatuses(db, db'), Untouched', FlightOK', OpenOK',
           UNCHANGED <<successes, asked>> \/ successes # 0
    PROVE  IInv'
<1>1. JobsOK(db')
  BY JobsDependOnStatuses DEF IInv
<1>2. AllCopied(db) => AllCopied(db')
  BY DEF SameStatuses, AllCopied
<1> QED  BY <1>1, <1>2 DEF IInv, AskedOK

\* What update_target, of targets that are not concluded, then a verdict
\* owe the invariant.
LEMMA UpdateKeepsInv ==
    ASSUME IInv, TypeInv', Untouched', FlightOK', OpenOK', ~AllCopied(db),
           NEW n \in Nodes, NEW A \in SUBSET Targets[n], NEW s \in Statuses,
           \A a \in A : db.target[n][a] = INITIATED,
           SameStatuses(update_targets(db, n, A, s), db'),
           UNCHANGED asked,
           UNCHANGED successes \/ Enqueue(update_targets(db, n, A, s))
    PROVE  IInv'
<1> DEFINE d == update_targets(db, n, A, s)
<1>1. db \in Database /\ JobsOK(db) /\ A \in SUBSET Addons
  BY TargetsAreAddons DEF IInv, TypeInv, TypeOK
<1>2. d \in Database /\ JobsOK(d)
  BY <1>1, UpdateFacts, UpdateKeepsJobs DEF Updated
<1> HIDE DEF d
<1>3. SameStatuses(d, db')
  BY DEF d
<1>4. JobsOK(db')
  BY <1>2, <1>3, JobsDependOnStatuses
<1>5. Flat => successes = 0 /\ asked = 0
  BY DEF IInv, AskedOK
<1>6. ASSUME Flat, successes' # 0 \/ asked' # 0 PROVE AllCopied(db')
  <2>1. Succeeds(d)
    BY <1>5, <1>6 DEF Enqueue, d
  <2>2. AllCopied(d)
    BY <1>2, <1>6, <2>1, RootIsVerdict DEF Succeeds, Concludes
  <2> QED  BY <1>3, <2>2 DEF SameStatuses, AllCopied
<1> QED  BY <1>4, <1>6 DEF IInv, AskedOK

LEMMA StatFailsInv == ASSUME IInv, SerialStep, StatFails PROVE IInv'
<1> DEFINE n == Chain[step]
<1>1. PICK a \in Targets[n] : db' = on_failure(update_targets(db, n, {a}, NETWORK_ERROR), n)
  BY DEF StatFails
<1> DEFINE d == update_targets(db, n, {a}, NETWORK_ERROR)
<1>2. n \in Nodes /\ a \in Addons /\ db \in Database /\ NETWORK_ERROR \in Statuses /\ TypeInv'
  BY StepPlace, TargetsAreAddons, StatFailsTypes DEF StatFails, IInv, TypeInv, TypeOK, Statuses
<1>3. \A b \in Addons : copy[n][b] = "none" /\ db.target[n][b] = INITIATED
  BY StepPlace DEF StatFails, IInv, Untouched
<1> HIDE DEF n
<1>4. /\ d \in Database
      /\ \A m \in Nodes, b \in Addons :
            d.target[m][b] = IF m = n /\ b \in {a} THEN NETWORK_ERROR ELSE db.target[m][b]
  <2>1. {a} \in SUBSET Addons
    BY <1>2
  <2>2. Updated(db, n, {a}, NETWORK_ERROR, d)
    BY <1>2, <2>1, UpdateFacts
  <2> QED  BY <2>2 DEF Updated
<1> HIDE DEF d
<1>5. SameStatuses(d, db')
  BY <1>1, <1>2, <1>4, FailFacts DEF d
<1>6. Untouched'
  BY ChainFacts DEF StatFails, Untouched, Over
<1>7. FlightOK'
  BY <1>3, <1>4, <1>5 DEF StatFails, IInv, FlightOK, SameStatuses
<1>8. OpenOK'
  BY DEF StatFails, SerialStep, OpenOK
<1>9. ~AllCopied(db)
  BY WorkingIsIncomplete DEF StatFails
<1> QED  BY <1>2, <1>3, <1>5, <1>6, <1>7, <1>8, <1>9, UpdateKeepsInv DEF StatFails, d

LEMMA NodeFailsInv == ASSUME IInv, SerialStep, NodeFails PROVE IInv'
<1>1. TypeInv' /\ SameStatuses(db, db')
  BY StepPlace, FailFacts, NodeFailsTypes DEF NodeFails, IInv, TypeInv, TypeOK
<1>2. Untouched'
  BY ChainFacts DEF NodeFails, Untouched, Over
<1>3. FlightOK' /\ OpenOK'
  BY <1>1 DEF NodeFails, SerialStep, IInv, FlightOK, OpenOK, SameStatuses
<1> QED  BY <1>1, <1>2, <1>3, QuietKeepsInv DEF NodeFails

LEMMA ArchiveNodeInv == ASSUME IInv, SerialStep, ArchiveNode PROVE IInv'
<1> DEFINE n == Chain[step]
<1>1. PICK empty \in SUBSET Targets[n] : archive_node(empty)
  BY DEF ArchiveNode
<1> DEFINE d == update_targets(db, n, empty, SUCCESS)
<1>2. /\ n \in Nodes /\ db \in Database /\ empty \in SUBSET Addons /\ SUCCESS \in Statuses
      /\ TypeInv'
  BY StepPlace, TargetsAreAddons, ArchiveNodeTypes
     DEF ArchiveNode, IInv, TypeInv, TypeOK, Statuses, JobStatus
<1>3. /\ \A a \in Addons : copy[n][a] = "none" /\ db.target[n][a] = INITIATED
      /\ \A i \in step'..Len(Chain) : i \in step..Len(Chain) /\ Chain[i] \in Nodes \ {n}
  <2>1. step \in 1..Len(Chain) /\ step' = step + 1
    BY StepPlace DEF ArchiveNode, IInv
  <2> QED  BY <2>1, ChainFacts, TreeAssumption DEF IInv, Untouched
<1>4. /\ db' = archive_callback(d) /\ Enqueue(d)
      /\ copy' = [copy EXCEPT ![n] = [a \in Addons |->
                       IF a \in Targets[n] \ empty THEN "queued" ELSE "none"]]
  BY <1>1 DEF archive_node
<1> HIDE DEF n
<1>5. /\ d \in Database
      /\ \A m \in Nodes, a \in Addons :
            d.target[m][a] = IF m = n /\ a \in empty THEN SUCCESS ELSE db.target[m][a]
  <2>1. Updated(db, n, empty, SUCCESS, d)
    BY <1>2, UpdateFacts
  <2> QED  BY <2>1 DEF Updated
<1> HIDE DEF d
<1>6. SameStatuses(d, db')
  BY <1>4, <1>5, CallbackFacts DEF SameStatuses
<1>7. \A m \in Nodes, a \in Addons :
         copy'[m][a] = IF m = n THEN IF a \in Targets[n] \ empty THEN "queued" ELSE "none"
                       ELSE copy[m][a]
  BY <1>2, <1>4 DEF IInv, TypeInv, TypeOK
<1>8. Untouched'
  BY <1>3, <1>5, <1>6, <1>7 DEF IInv, Untouched, SameStatuses
<1>9. FlightOK'
  BY <1>3, <1>5, <1>6, <1>7 DEF IInv, FlightOK, SameStatuses
<1>10. OpenOK'
  BY DEF ArchiveNode, SerialStep, OpenOK
<1>11. ~AllCopied(db) /\ UNCHANGED asked
  BY WorkingIsIncomplete DEF ArchiveNode
<1> QED  BY <1>2, <1>3, <1>4, <1>6, <1>8, <1>9, <1>10, <1>11, UpdateKeepsInv DEF d

LEMMA MakeCopyRequestInv ==
    ASSUME IInv, SerialStep, NEW n \in Nodes, NEW a \in Addons, MakeCopyRequest(n, a)
    PROVE  IInv'
<1>1. TypeInv' /\ SameStatuses(db, db')
  BY FailFacts, MakeCopyRequestTypes DEF MakeCopyRequest, IInv, TypeInv, TypeOK, SameStatuses
<1>2. /\ copy[n][a] = "queued"
      /\ \A m \in Nodes, b \in Addons :
            copy'[m][b] = copy[m][b] \/ (m = n /\ b = a /\ copy'[m][b] \in {"running", "refused"})
  BY DEF MakeCopyRequest, IInv, TypeInv, TypeOK
<1>3. Untouched'
  <2> SUFFICES ASSUME NEW i \in step..Len(Chain), NEW b \in Addons
               PROVE  copy'[Chain[i]][b] = "none" /\ db'.target[Chain[i]][b] = INITIATED
    BY DEF MakeCopyRequest, Untouched
  <2>1. Chain[i] \in Nodes
    BY ChainFacts DEF IInv, TypeInv, TypeOK
  <2> QED  BY <1>1, <1>2, <2>1 DEF IInv, Untouched, SameStatuses
<1>4. FlightOK'
  BY <1>1, <1>2 DEF IInv, FlightOK, SameStatuses
<1>5. OpenOK'
  BY DEF MakeCopyRequest, SerialStep, OpenOK
<1> QED  BY <1>1, <1>3, <1>4, <1>5, QuietKeepsInv DEF MakeCopyRequest

LEMMA CopyEndsInv ==
    ASSUME IInv, SerialStep, NEW n \in Nodes, NEW a \in Addons, CopyEnds(n, a)
    PROVE  IInv'
<1>1. TypeInv' /\ SameStatuses(db, db')
  BY CopyEndsTypes DEF CopyEnds, IInv, SameStatuses
<1>2. /\ copy[n][a] = "running" /\ copy'[n][a] = "over"
      /\ \A m \in Nodes, b \in Addons : copy'[m][b] = copy[m][b] \/ (m = n /\ b = a)
  BY DEF CopyEnds, IInv, TypeInv, TypeOK
<1>3. Untouched'
  <2> SUFFICES ASSUME NEW i \in step..Len(Chain), NEW b \in Addons
               PROVE  copy'[Chain[i]][b] = "none" /\ db'.target[Chain[i]][b] = INITIATED
    BY DEF CopyEnds, Untouched
  <2>1. Chain[i] \in Nodes
    BY ChainFacts DEF IInv, TypeInv, TypeOK
  <2> QED  BY <1>1, <1>2, <2>1 DEF IInv, Untouched, SameStatuses
<1>4. FlightOK'
  BY <1>1, <1>2 DEF IInv, FlightOK, SameStatuses
<1>5. OpenOK'
  BY <1>2 DEF CopyEnds, SerialStep, IInv, FlightOK, OpenOK
<1> QED  BY <1>1, <1>3, <1>4, <1>5, QuietKeepsInv DEF CopyEnds

(***************************************************************************)
(* A callback that saw what is committed commits just what it computed.    *)
(***************************************************************************)
LEMMA CommitIsSerial ==
    ASSUME IInv, NEW c \in open, NEW s \in {SUCCESS, FAILURE}
    PROVE  LET d == update_targets(c.view, c.node, {c.addon}, s)
           IN  /\ SameStatuses(d, Commit(c, archive_callback(d)))
               /\ Commit(c, archive_callback(d)).cancelled =
                     (db.cancelled \/ archive_callback(d).cancelled)
<1> DEFINE d == update_targets(c.view, c.node, {c.addon}, s)
           e == archive_callback(d)
           k == Commit(c, e)
<1>1. c.view = db /\ db \in Database /\ c.node \in Nodes /\ c.addon \in Addons /\ s \in Statuses
  BY TargetsAreAddons DEF IInv, TypeInv, TypeOK, OpenOK, Statuses, JobStatus
<1>2. /\ d \in Database
      /\ \A m \in Nodes, a \in Addons :
            d.target[m][a] = IF m = c.node /\ a \in {c.addon} THEN s ELSE db.target[m][a]
  <2>1. {c.addon} \in SUBSET Addons
    BY <1>1
  <2>2. Updated(db, c.node, {c.addon}, s, d)
    BY <1>1, <2>1, UpdateFacts
  <2> QED  BY <2>2 DEF Updated
<1> HIDE DEF d
<1>3. e \in Database /\ e.target = d.target /\ e.job = d.job
  BY <1>2, CallbackFacts
<1> HIDE DEF e
<1>4. /\ k.target = [db.target EXCEPT ![c.node][c.addon] = e.target[c.node][c.addon]]
      /\ k.job = [m \in Nodes |-> IF e.job[m] # db.job[m] THEN e.job[m] ELSE db.job[m]]
      /\ k.cancelled = (db.cancelled \/ e.cancelled)
  BY <1>1 DEF Commit
<1>5. k.target \in [Nodes -> [Addons -> Statuses]] /\ d.target \in [Nodes -> [Addons -> Statuses]]
  BY <1>1, <1>2, <1>3, <1>4 DEF Database, Statuses
<1>6. \A m \in Nodes, a \in Addons : k.target[m][a] = d.target[m][a]
  BY <1>1, <1>2, <1>3, <1>4 DEF Database
<1>7. k.target = d.target
  BY <1>5, <1>6
<1>8. \A m \in Nodes : k.job[m].status = d.job[m].status
  <2> HIDE DEF k
  <2>1. \A m \in Nodes : k.job[m] = e.job[m]
    BY <1>4
  <2> QED  BY <1>3, <2>1
<1> QED  BY <1>4, <1>7, <1>8 DEF SameStatuses, d, e

LEMMA CallbackInv == ASSUME IInv, SerialStep, NEW c \in open, Callback(c) PROVE IInv'
<1>1. PICK s \in {SUCCESS, FAILURE} :
         LET d == update_targets(c.view, c.node, {c.addon}, s)
         IN  db' = Commit(c, archive_callback(d)) /\ Enqueue(d)
  BY DEF Callback
<1> DEFINE d == update_targets(db, c.node, {c.addon}, s)
<1>2. /\ c.view = db /\ db \in Database /\ s \in Statuses /\ TypeInv'
      /\ c.node \in Nodes /\ c.addon \in Targets[c.node] /\ c.addon \in Addons
      /\ copy[c.node][c.addon] = "over" /\ db.target[c.node][c.addon] = INITIATED
  BY TargetsAreAddons, CallbackTypes DEF IInv, TypeInv, TypeOK, OpenOK, Statuses, JobStatus
<1>3. SameStatuses(d, db') /\ Enqueue(d)
  BY <1>1, <1>2, CommitIsSerial
<1>4. \A m \in Nodes, a \in Addons :
         d.target[m][a] = IF m = c.node /\ a \in {c.addon} THEN s ELSE db.target[m][a]
  <2>1. {c.addon} \in SUBSET Addons
    BY <1>2
  <2>2. Updated(db, c.node, {c.addon}, s, d)
    BY <1>2, <2>1, UpdateFacts
  <2> QED  BY <2>2 DEF Updated
<1> HIDE DEF d
<1>5. Untouched'
  <2> SUFFICES ASSUME NEW i \in step..Len(Chain), NEW b \in Addons
               PROVE  copy[Chain[i]][b] = "none" /\ db'.target[Chain[i]][b] = INITIATED
    BY DEF Callback, Untouched
  <2>1. Chain[i] \in Nodes
    BY ChainFacts DEF IInv, TypeInv, TypeOK
  <2> QED  BY <1>2, <1>3, <1>4, <2>1 DEF IInv, Untouched, SameStatuses
<1>6. FlightOK'
  BY <1>2, <1>3, <1>4 DEF Callback, IInv, FlightOK, SameStatuses
<1>7. OpenOK' /\ UNCHANGED asked
  BY DEF Callback, SerialStep, OpenOK
<1>8. ~AllCopied(db)
  BY WorkingIsIncomplete
<1> QED  BY <1>2, <1>3, <1>5, <1>6, <1>7, <1>8, UpdateKeepsInv DEF d

LEMMA ArchiveSuccessInv == ASSUME IInv, SerialStep, ArchiveSuccess PROVE IInv'
<1>1. db \in Database /\ TypeInv'
  BY ArchiveSuccessTypes DEF IInv, TypeInv, TypeOK
<1>2. SameStatuses(db, db')
  BY <1>1, SentFacts, FailFacts, RootIsNode DEF ArchiveSuccess
<1>3. Untouched' /\ FlightOK' /\ OpenOK'
  BY <1>2 DEF ArchiveSuccess, SerialStep, IInv, Untouched, FlightOK, OpenOK, SameStatuses
<1>4. successes # 0
  BY DEF ArchiveSuccess, IInv, TypeInv, TypeOK
<1> QED  BY <1>1, <1>2, <1>3, <1>4, QuietKeepsInv

LEMMA SerialKeepsInv == ASSUME IInv, [Next /\ (open # {} => open' = {})]_vars PROVE IInv'
<1>1. CASE UNCHANGED vars
  BY <1>1 DEF vars, IInv, TypeInv, TypeOK, CopiesAreOfTargets, Untouched, FlightOK, OpenOK, AskedOK
<1>2. CASE Next /\ (open # {} => open' = {})
  BY <1>2, StatFailsInv, NodeFailsInv, ArchiveNodeInv, MakeCopyRequestInv,
     CopyEndsInv, CallbackInv, ArchiveSuccessInv DEF Next, SerialStep
<1> QED  BY <1>1, <1>2

(***************************************************************************)
(* In a registration whose components have no components, ask is called    *)
(* only for what was copied completely.                                    *)
(***************************************************************************)
THEOREM AskedMeansCopied == ASSUME Flat PROVE SerialSpec => []AskedIsCopied
<1>1. Init => IInv
  BY InitIInv
<1>2. IInv /\ [Next /\ (open # {} => open' = {})]_vars => IInv'
  BY SerialKeepsInv
<1>3. IInv => AskedIsCopied
  BY DEF IInv, AskedOK, AskedIsCopied, AllCopied
<1> QED  BY <1>1, <1>2, <1>3, PTL DEF SerialSpec

-----------------------------------------------------------------------------
(***************************************************************************)
(* Which steps cancel, and what they leave uncopied.                       *)
(***************************************************************************)
LEMMA VerdictOfIncomplete ==
    ASSUME NEW d \in Database, JobsOK(d), ~d.cancelled, archive_callback(d).cancelled
    PROVE  ~AllCopied(d)
<1>1. Concludes(d) /\ ~Succeeds(d)
  BY CallbackFacts
<1> QED  BY <1>1, RootIsVerdict DEF Concludes, Succeeds

LEMMA CancelsIncomplete ==
    ASSUME IInv, Next, SerialStep, ~db.cancelled, db'.cancelled, successes' >= successes
    PROVE  ~AllCopied(db')
<1> USE DEF SameStatuses
<1>1. db \in Database /\ JobsOK(db)
  BY DEF IInv, TypeInv, TypeOK
<1>2. CASE StatFails
  <2> DEFINE n == Chain[step]
  <2>1. PICK a \in Targets[n] : db' = on_failure(update_targets(db, n, {a}, NETWORK_ERROR), n)
    BY <1>2 DEF StatFails
  <2> DEFINE d == update_targets(db, n, {a}, NETWORK_ERROR)
  <2>2. n \in Nodes /\ a \in Addons /\ {a} \in SUBSET Addons /\ NETWORK_ERROR \in Statuses
    BY <1>2, StepPlace, TargetsAreAddons DEF StatFails, IInv, Statuses
  <2> HIDE DEF n
  <2>3. Updated(db, n, {a}, NETWORK_ERROR, d)
    BY <1>1, <2>2, UpdateFacts
  <2> HIDE DEF d
  <2>4. d \in Database /\ d.target[n][a] = NETWORK_ERROR
    BY <2>2, <2>3 DEF Updated
  <2>5. db'.target = d.target
    BY <2>1, <2>2, <2>4, FailFacts DEF d
  <2> QED  BY <2>2, <2>4, <2>5 DEF AllCopied, NETWORK_ERROR, SUCCESS
<1>3. CASE NodeFails
  <2>1. SameStatuses(db, db') /\ ~AllCopied(db)
    BY <1>1, <1>3, StepPlace, FailFacts, WorkingIsIncomplete DEF NodeFails, IInv
  <2> QED  BY <2>1 DEF AllCopied
<1>4. CASE ArchiveNode
  <2> DEFINE n == Chain[step]
  <2>1. PICK empty \in SUBSET Targets[n] : archive_node(empty)
    BY <1>4 DEF ArchiveNode
  <2> DEFINE d == update_targets(db, n, empty, SUCCESS)
  <2>2. n \in Nodes /\ empty \in SUBSET Addons /\ SUCCESS \in Statuses
    BY <1>4, StepPlace, TargetsAreAddons DEF ArchiveNode, IInv, Statuses, JobStatus
  <2>3. db' = archive_callback(d)
    BY <2>1 DEF archive_node
  <2>4. \A a \in empty : db.target[n][a] = INITIATED
    BY <1>4, <2>2, StepPlace DEF ArchiveNode, IInv, Untouched
  <2> HIDE DEF n
  <2>5. Updated(db, n, empty, SUCCESS, d) /\ JobsOK(d)
    BY <1>1, <2>2, <2>4, UpdateFacts, UpdateKeepsJobs
  <2> HIDE DEF d
  <2>6. d \in Database /\ ~AllCopied(d)
    BY <2>3, <2>5, VerdictOfIncomplete DEF Updated
  <2> QED  BY <2>3, <2>6, CallbackFacts DEF AllCopied
<1>5. ASSUME NEW n \in Nodes, NEW a \in Addons, MakeCopyRequest(n, a) PROVE ~AllCopied(db')
  <2>1. SameStatuses(db, db') /\ ~AllCopied(db)
    BY <1>1, <1>5, FailFacts, WorkingIsIncomplete DEF MakeCopyRequest
  <2> QED  BY <2>1 DEF AllCopied
<1>6. ASSUME NEW n \in Nodes, NEW a \in Addons, CopyEnds(n, a) PROVE FALSE
  BY <1>6 DEF CopyEnds
<1>7. ASSUME NEW c \in open, Callback(c) PROVE ~AllCopied(db')
  <2>1. PICK s \in {SUCCESS, FAILURE} :
           LET d == update_targets(c.view, c.node, {c.addon}, s)
           IN  db' = Commit(c, archive_callback(d)) /\ Enqueue(d)
    BY <1>7 DEF Callback
  <2> DEFINE d == update_targets(db, c.node, {c.addon}, s)
  <2>2. /\ c.view = db /\ s \in Statuses
        /\ c.node \in Nodes /\ {c.addon} \in SUBSET Targets[c.node] /\ {c.addon} \in SUBSET Addons
        /\ \A a \in {c.addon} : db.target[c.node][a] = INITIATED
    BY TargetsAreAddons DEF IInv, TypeInv, TypeOK, OpenOK, Statuses, JobStatus
  <2>3. SameStatuses(d, db') /\ db'.cancelled = (db.cancelled \/ archive_callback(d).cancelled)
    BY <2>1, <2>2, CommitIsSerial
  <2>4. Updated(db, c.node, {c.addon}, s, d) /\ JobsOK(d)
    BY <1>1, <2>2, UpdateFacts, UpdateKeepsJobs
  <2> HIDE DEF d
  <2>5. ~AllCopied(d)
    BY <2>3, <2>4, VerdictOfIncomplete DEF Updated
  <2> QED  BY <2>3, <2>5 DEF AllCopied
<1>8. CASE ArchiveSuccess
  BY <1>8 DEF ArchiveSuccess, IInv, TypeInv, TypeOK
<1> QED  BY <1>2, <1>3, <1>4, <1>5, <1>6, <1>7, <1>8 DEF Next

(***************************************************************************)
(* Whatever the tree, a registration whose files are all copied is not     *)
(* cancelled, unless archive_success misses a file in the copy.            *)
(***************************************************************************)
THEOREM NoFalseCancellation == SerialSpec => NoFalseAlarm
<1> DEFINE Alarm == ~db.cancelled /\ db'.cancelled /\ successes' >= successes =>
                        \E n \in Nodes : \E a \in Targets[n] : db'.target[n][a] # SUCCESS
<1>1. Init => IInv
  BY InitIInv
<1>2. IInv /\ [Next /\ (open # {} => open' = {})]_vars => IInv'
  BY SerialKeepsInv
<1>3. IInv /\ [Next /\ (open # {} => open' = {})]_vars => [Alarm]_vars
  BY CancelsIncomplete DEF SerialStep, AllCopied
<1> QED  BY <1>1, <1>2, <1>3, PTL DEF SerialSpec, NoFalseAlarm

=============================================================================
