------------------------------ MODULE Reviews ------------------------------
(***************************************************************************)
(* A preprint under the review of its provider, and the requests of its    *)
(* authors to withdraw it: the state machines of osf/utils/machines.py run *)
(* by the requests of authors, moderators and administrators.              *)
(*                                                                         *)
(* A request loads the rows it works on, decides, and writes them back     *)
(* whole; its transaction is read committed.  An author who publishes a    *)
(* preprint or asks to withdraw one locks the row of the preprint from     *)
(* load to commit (SELECT FOR UPDATE); a review and the answer to a        *)
(* withdrawal request lock nothing.  Whatever a request raises, an invalid *)
(* trigger, a preprint that lacks a file or a subject, undoes all of it.   *)
(***************************************************************************)
CONSTANTS
    FirstFlows, \* workflows the provider may have at first
    Handlers,   \* requests served at the same time
    Creators,   \* the administrators of the preprint, its authors
    Requests,   \* ids of the rows of PreprintRequest
    NoRequest   \* a row that has not been created

VARIABLES
    workflow,   \* reviews_workflow of the provider
    row,        \* the row of the preprint
    requests,   \* the rows of the withdrawal requests
    log,        \* which of Recorded has happened, by ReviewAction and PreprintLog
    handler     \* what each request at work has loaded

vars == <<workflow, row, requests, log, handler>>

-----------------------------------------------------------------------------
Workflows == {"none", "pre", "post"}

ASSUME FlowsAssumption == FirstFlows \subseteq Workflows

DefaultStates == {"initial", "pending", "accepted", "rejected"}
ReviewStates == DefaultStates \cup {"withdrawn"}
DefaultTriggers == {"submit", "accept", "reject", "edit_comment"}
ReviewTriggers == DefaultTriggers \cup {"withdraw"}
\* What a moderator decided, and that an author published without a review.
Recorded == {"accept", "withdraw", "publish"}

\* is_published, ever_public, and whether date_withdrawn is set.
Preprints == [state : ReviewStates, published : BOOLEAN, ever : BOOLEAN, dated : BOOLEAN]
PreprintRequests == [creator : Creators, state : DefaultStates]

ASSUME NoRequestAssumption == NoRequest \notin PreprintRequests

\* A mutant of PublicStates: what is submitted is public before it is accepted.
PublicStatesEarly ==
    [none |-> DefaultStates, pre |-> {"pending", "accepted"}, post |-> {"pending", "accepted"}]

PublicStates ==
    [none |-> DefaultStates, pre |-> {"accepted"}, post |-> {"pending", "accepted"}]

\* <<trigger, source, destination>>
DefaultTransitions ==
    {<<"submit", "initial", "pending">>}
        \cup {<<"accept", s, "accepted">> : s \in {"pending", "rejected"}}
        \cup {<<"reject", s, "rejected">> : s \in {"pending", "accepted"}}
        \cup {<<"edit_comment", s, s>> : s \in {"pending", "rejected", "accepted"}}

Withdrawals == {<<"withdraw", s, "withdrawn">> : s \in {"pending", "accepted"}}

Resubmissions(flow) ==
    {<<"submit", s, "pending">> : s \in IF flow = "pre" THEN {"pending", "rejected"} ELSE {}}

\* Where the trigger leads: the empty set if it is invalid.
Reviewed(p, flow, trigger) ==
    {t[3] : t \in {u \in DefaultTransitions \cup Withdrawals \cup Resubmissions(flow) :
                      u[1] = trigger /\ u[2] = p.state}}

Answered(q, trigger) ==
    {t[3] : t \in {u \in DefaultTransitions : u[1] = trigger /\ u[2] = q.state}}

\* A mutant of SaveChanges: a preprint that is hidden again forgets it was public.
SaveChangesForgetting(p, flow, to) ==
    LET moved == [p EXCEPT !.state = to, !.dated = @ \/ to = "withdrawn"]
        shown == to \in PublicStates[flow]
    IN  IF moved.dated THEN moved ELSE [moved EXCEPT !.published = shown, !.ever = shown]

\* A mutant of SaveChanges: publishes, and never hides again.
SaveChangesShowing(p, flow, to) ==
    LET moved == [p EXCEPT !.state = to, !.dated = @ \/ to = "withdrawn"]
        shown == to \in PublicStates[flow]
    IN  IF moved.dated THEN moved
        ELSE [moved EXCEPT !.published = @ \/ shown, !.ever = @ \/ shown]

\* perform_withdraw and save_changes of a transition that leads to this state.
SaveChanges(p, flow, to) ==
    LET moved == [p EXCEPT !.state = to, !.dated = @ \/ to = "withdrawn"]
        shown == to \in PublicStates[flow]
    IN  IF moved.dated THEN moved
        ELSE [moved EXCEPT !.published = shown, !.ever = @ \/ shown]

Init ==
    /\ workflow \in FirstFlows
    /\ row = [state |-> "initial", published |-> FALSE, ever |-> FALSE, dated |-> FALSE]
    /\ requests = [r \in Requests |-> NoRequest]
    /\ log = {}
    /\ handler = [h \in Handlers |-> [op |-> "idle"]]

-----------------------------------------------------------------------------
(***************************************************************************)
(* A request begins: it loads its rows.                                    *)
(***************************************************************************)
\* A mutant of Locks: a request to withdraw is created without a lock.
LocksPublish(h) == handler[h].op = "publish"

Locks(h) == handler[h].op \in {"publish", "create"}

Unlocked(h) == \A g \in Handlers \ {h} : ~Locks(g)

Begins(h, job) ==
    /\ handler[h].op = "idle"
    /\ handler' = [handler EXCEPT ![h] = job]
    /\ UNCHANGED <<workflow, row, requests, log>>

OpenReview(h) ==
    \E t \in ReviewTriggers : Begins(h, [op |-> "found", trigger |-> t, row |-> row])

\* The provider is a later query; one that is not reviewed is a conflict.
ReadProvider(h) ==
    /\ handler[h].op = "found"
    /\ workflow # "none"
    /\ handler' = [handler EXCEPT ![h] =
           [op |-> "review", trigger |-> handler[h].trigger, row |-> handler[h].row,
            flow |-> workflow]]
    /\ UNCHANGED <<workflow, row, requests, log>>

\* A mutant of OpenAnswer: the request is not looked for.
OpenAnswerAny(h) ==
    \E r \in Requests, t \in DefaultTriggers \ {"submit"} :
        Begins(h, [op |-> "request", trigger |-> t, on |-> r, request |-> requests[r]])

\* The row of the withdrawal request first, that of its preprint when it is used.
OpenAnswer(h) ==
    \E r \in Requests, t \in DefaultTriggers \ {"submit"} :
        /\ requests[r] # NoRequest
        /\ Begins(h, [op |-> "request", trigger |-> t, on |-> r, request |-> requests[r]])

ReadTarget(h) ==
    /\ handler[h].op = "request"
    /\ handler' = [handler EXCEPT ![h] =
           [op |-> "answer", trigger |-> handler[h].trigger, on |-> handler[h].on,
            request |-> handler[h].request, row |-> row, flow |-> workflow]]
    /\ UNCHANGED <<workflow, row, requests, log>>

\* Nobody finds a withdrawn preprint that was never public.
OpenPublish(h) ==
    /\ Unlocked(h)
    /\ workflow = "none"
    /\ row.dated => row.ever
    /\ Begins(h, [op |-> "publish", row |-> row])

OpenCreate(h) ==
    /\ Unlocked(h)
    /\ \E c \in Creators :
           /\ \A r \in Requests : requests[r] # NoRequest => requests[r].creator # c
           /\ Begins(h, [op |-> "create", creator |-> c, row |-> row, flow |-> workflow])

-----------------------------------------------------------------------------
(***************************************************************************)
(* A request commits: it writes whole rows, and its action is on record.   *)
(***************************************************************************)
Ends(h) == handler' = [handler EXCEPT ![h] = [op |-> "idle"]]

Review(h) ==
    LET job == handler[h] IN
    /\ job.op = "review"
    /\ Unlocked(h)
    /\ \E to \in Reviewed(job.row, job.flow, job.trigger) :
           row' = SaveChanges(job.row, job.flow, to)
    /\ log' = log \cup ({job.trigger} \cap Recorded)
    /\ Ends(h)
    /\ UNCHANGED <<workflow, requests>>

\* run_withdraw, inside the transition of the request that is accepted.
Withdraw(p, flow) ==
    /\ Reviewed(p, flow, "withdraw") # {}
    /\ row' = SaveChanges(p, flow, "withdrawn")
    /\ log' = log \cup {"withdraw"}

\* A mutant of Answer: the answer is saved and the preprint is left alone.
AnswerOnly(h) ==
    LET job == handler[h] IN
    /\ job.op = "answer"
    /\ Unlocked(h)
    /\ \E to \in Answered(job.request, job.trigger) :
           requests' = [requests EXCEPT ![job.on] = [job.request EXCEPT !.state = to]]
    /\ Ends(h)
    /\ UNCHANGED <<workflow, row, log>>

Answer(h) ==
    LET job == handler[h] IN
    /\ job.op = "answer"
    /\ Unlocked(h)
    /\ \E to \in Answered(job.request, job.trigger) :
           requests' = [requests EXCEPT ![job.on] = [job.request EXCEPT !.state = to]]
    /\ IF job.trigger = "accept" THEN Withdraw(job.row, job.flow) ELSE UNCHANGED <<row, log>>
    /\ Ends(h)
    /\ UNCHANGED workflow

\* set_published: no machine runs, date_withdrawn is left alone.
Publish(h) ==
    /\ handler[h].op = "publish"
    /\ row' = [handler[h].row EXCEPT !.state = "accepted", !.published = TRUE, !.ever = TRUE]
    /\ log' = log \cup {"publish"}
    /\ Ends(h)
    /\ UNCHANGED <<workflow, requests>>

\* A mutant of AutoApproved: asks whether the preprint is public now.
AutoApprovedHidden(p, flow) == flow = "pre" /\ ~p.published

AutoApproved(p, flow) == flow = "pre" /\ ~p.ever

\* The request is created and submitted; an acceptance that is due runs within.
Create(h) ==
    LET job == handler[h] IN
    /\ job.op = "create"
    /\ \E r \in Requests :
           /\ requests[r] = NoRequest
           /\ requests' = [requests EXCEPT ![r] =
                  [creator |-> job.creator,
                   state |-> IF AutoApproved(job.row, job.flow) THEN "accepted" ELSE "pending"]]
    /\ IF AutoApproved(job.row, job.flow) THEN Withdraw(job.row, job.flow)
       ELSE UNCHANGED <<row, log>>
    /\ Ends(h)
    /\ UNCHANGED workflow

\* Whatever a request raises undoes all of it.
Refuse(h) ==
    /\ handler[h].op # "idle"
    /\ Ends(h)
    /\ UNCHANGED <<workflow, row, requests, log>>

\* The settings of a provider that is reviewed are final.
SetUp ==
    /\ workflow = "none"
    /\ workflow' \in {"pre", "post"}
    /\ UNCHANGED <<row, requests, log, handler>>

Next ==
    \/ SetUp
    \/ \E h \in Handlers :
           \/ OpenReview(h) \/ ReadProvider(h) \/ OpenAnswer(h) \/ ReadTarget(h)
           \/ OpenPublish(h) \/ OpenCreate(h)
           \/ Review(h) \/ Answer(h) \/ Publish(h) \/ Create(h) \/ Refuse(h)

Spec == Init /\ [][Next]_vars
-----------------------------------------------------------------------------
(***************************************************************************)
(* Types.                                                                  *)
(***************************************************************************)
Jobs ==
    [op : {"idle"}]
        \cup [op : {"found"}, trigger : ReviewTriggers, row : Preprints]
        \cup [op : {"review"}, trigger : ReviewTriggers, row : Preprints, flow : Workflows]
        \cup [op : {"request"}, trigger : DefaultTriggers, on : Requests, request : PreprintRequests]
        \cup [op : {"answer"}, trigger : DefaultTriggers, on : Requests, request : PreprintRequests,
              row : Preprints, flow : Workflows]
        \cup [op : {"publish"}, row : Preprints]
        \cup [op : {"create"}, creator : Creators, row : Preprints, flow : Workflows]

TypeOK ==
    /\ workflow \in Workflows
    /\ row \in Preprints
    /\ requests \in [Requests -> PreprintRequests \cup {NoRequest}]
    /\ log \in SUBSET Recorded
    /\ handler \in [Handlers -> Jobs]

(***************************************************************************)
(* Whatever overlaps, and however old the row somebody writes back: a      *)
(* preprint that is not withdrawn is published exactly in the states its   *)
(* provider shows (PUBLIC_STATES; without a workflow, once it has been     *)
(* accepted by its author).                                                *)
(***************************************************************************)
Shown(flow) == IF flow = "none" THEN {"accepted"} ELSE PublicStates[flow]

PublishedIsPublic == ~row.dated => (row.published <=> row.state \in Shown(workflow))

(***************************************************************************)
(* Under pre-moderation nothing has ever been public that no moderator     *)
(* accepted, or its author published before the provider was reviewed; and *)
(* a preprint that has a date of withdrawal has a withdrawal on record.    *)
(***************************************************************************)
NothingUnmoderated ==
    /\ workflow = "pre" /\ row.ever => log \cap {"accept", "publish"} # {}
    /\ row.dated => "withdraw" \in log

(***************************************************************************)
(* The lock of the preprint stands in for the unique index its requests    *)
(* lack: "Users may not have more than one withdrawal request per          *)
(* preprint" (api/requests/serializers.py).                                *)
(***************************************************************************)
OneRequestEach ==
    \A q, r \in Requests :
        q # r /\ requests[q] # NoRequest /\ requests[r] # NoRequest =>
            requests[q].creator # requests[r].creator

(***************************************************************************)
(* Whatever the order of answers, a request to withdraw becomes accepted   *)
(* in the transaction that withdraws the preprint.  The exception is an    *)
(* old copy of an accepted request somebody writes back.                   *)
(***************************************************************************)
Accepted(q) == q # NoRequest /\ q.state = "accepted"

Held(r) ==
    \E h \in Handlers :
        /\ handler[h].op \in {"request", "answer"}
        /\ handler[h].on = r
        /\ Accepted(handler[h].request)

AcceptedIsWithdrawn ==
    [][\A r \in Requests :
           Accepted(requests'[r]) /\ ~Accepted(requests[r]) /\ ~Held(r) =>
               row'.state = "withdrawn" /\ row'.dated]_vars

(***************************************************************************)
(* A withdrawal nobody but the author decides on is one of a preprint that *)
(* was never public, under pre-moderation, when it is committed: what may  *)
(* have been read is withdrawn by a moderator.                             *)
(***************************************************************************)
OnlyUnseenIsTakenBack ==
    [][\A r \in Requests :
           requests[r] = NoRequest /\ Accepted(requests'[r]) => workflow = "pre" /\ ~row.ever]_vars

(***************************************************************************)
(* ever_public and date_withdrawn are never taken back ("Cannot set        *)
(* ever_public to False", Preprint.save), unless a request that began      *)
(* before writes its older copy: the check compares with what was loaded.  *)
(***************************************************************************)
Older(p) == (row.ever /\ ~p.ever) \/ (row.dated /\ ~p.dated)

OlderIsWritten ==
    \E h \in Handlers :
        /\ handler[h].op \in {"review", "answer", "publish", "create"}
        /\ handler'[h].op = "idle"
        /\ Older(handler[h].row)

HistoryIsKept ==
    [][~OlderIsWritten => (row.ever => row'.ever) /\ (row.dated => row'.dated)]_vars

(***************************************************************************)
(* "Tombstone page should be public" (api/preprints/permissions.py): what  *)
(* has been public keeps a page when it is withdrawn, and a reader sees a  *)
(* page only of what is_published (verified_publishable).                  *)
(***************************************************************************)
TombstoneIsPublic == row.dated /\ row.ever => row.published
=============================================================================
