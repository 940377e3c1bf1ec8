------------------------------ MODULE Sanctions ------------------------------
(***************************************************************************)
(* The sanctions of one registration of GakuNin RDM: the approval or the   *)
(* embargo it is created with, the request to end the embargo early, and   *)
(* the withdrawal (retraction).  Every administrator owns an approval link *)
(* and a rejection link for each sanction; nightly jobs decide the         *)
(* sanctions nobody answered within 48 hours; administrators change the    *)
(* privacy, ask for withdrawals; the archiver cancels registrations whose  *)
(* files could not be copied.                                              *)
(*                                                                         *)
(* No handler locks a sanction: the row is read at one moment and written  *)
(* back, every column of it, at a later one (osf/models/base.py save).     *)
(* A request and a nightly job are therefore two steps here, one that      *)
(* fetches the row and one that does everything else, and what runs        *)
(* between the two is overwritten.  The registration row is read by the    *)
(* second step, which is atomic: the code reads it again after it has      *)
(* fetched the sanction, and both are saved in one transaction.            *)
(*                                                                         *)
(* The registration is its root: the handlers apply the same change to     *)
(* every primary descendant in the same transaction.                       *)
(***************************************************************************)
EXTENDS Naturals

CONSTANTS
    Admins,       \* the users recorded in approval_state as authorizers
    Nobody,       \* the user of a web worker that serves no token link
    Requests,     \* the web workers that can serve a token link at a time
    Firsts,       \* the kinds of sanction a registration may be created with
    MaxRows       \* bound: no new row of a kind once it has had that many

Approval    == "registration_approval"
Embargo     == "embargo"
Termination == "embargo_termination_approval"
Retraction  == "retraction"
Kinds       == {Approval, Embargo, Termination, Retraction}

ASSUME ConstantsAssumption ==
    /\ Admins # {}
    /\ Nobody \notin Admins
    /\ Firsts \subseteq {Approval, Embargo}
    /\ MaxRows \in [Kinds -> Nat]

UNAPPROVED == "unapproved"
APPROVED   == "approved"
REJECTED   == "rejected"
COMPLETED  == "completed"
States     == {UNAPPROVED, APPROVED, REJECTED, COMPLETED}

(***************************************************************************)
(* A row: its primary key, its state, who has has_approved set, whether    *)
(* date_retracted is set (retractions) and for_existing_registration       *)
(* (embargoes).  Key 0 stands for a null foreign key.                      *)
(***************************************************************************)
Row == [id : Nat, state : States \cup {"none"}, yes : SUBSET Admins,
        dated : BOOLEAN, existing : BOOLEAN]

NoRow == [id |-> 0, state |-> "none", yes |-> {},
          dated |-> FALSE, existing |-> FALSE]

NewRow(id, existing) == [id |-> id, state |-> UNAPPROVED, yes |-> {},
                         dated |-> FALSE, existing |-> existing]

VARIABLES
    row,       \* the row each foreign key of the registration refers to
    created,   \* how many rows of each kind have been created
    public,    \* registration.is_public
    deleted,   \* registration.is_deleted
    linked,    \* registration.registered_from is not null
    waited,    \* the row's 48 hours (initiation_date) are over
    ended,     \* the embargo's end_date has passed
    archive,   \* how far the archiver is: see archiving
    req,       \* the token link each web worker is serving
    job        \* the row each nightly job has fetched and not yet handled

vars == <<row, created, public, deleted, linked, waited, ended, archive, req, job>>
registration == <<public, deleted, linked>>
clock == <<waited, ended>>

Request == [kind : Kinds, verb : {"approve", "reject"},
            user : Admins \cup {Nobody}, snap : Row]

Idle == [kind |-> Approval, verb |-> "approve", user |-> Nobody, snap |-> NoRow]

TypeOK ==
    /\ row \in [Kinds -> Row]
    /\ created \in [Kinds -> Nat]
    /\ public \in BOOLEAN
    /\ deleted \in BOOLEAN
    /\ linked \in BOOLEAN
    /\ waited \in [Kinds -> BOOLEAN]
    /\ ended \in BOOLEAN
    /\ archive \in {"initiated", "done", "success", "failure"}
    /\ req \in [Requests -> Request]
    /\ job \in [Kinds -> Row]

(***************************************************************************)
(* RegistrationCreateSerializer.create: the registration exists, private,  *)
(* with its first sanction pending and the archiver started.               *)
(***************************************************************************)
Init ==
    /\ \E first \in Firsts :
          /\ row = [k \in Kinds |-> IF k = first THEN NewRow(1, FALSE) ELSE NoRow]
          /\ created = [k \in Kinds |-> IF k = first THEN 1 ELSE 0]
    /\ public = FALSE
    /\ deleted = FALSE
    /\ linked = TRUE
    /\ waited = [k \in Kinds |-> FALSE]
    /\ ended = FALSE
    /\ archive = "initiated"
    /\ req = [r \in Requests |-> Idle]
    /\ job = [k \in Kinds |-> NoRow]

-----------------------------------------------------------------------------
(***************************************************************************)
(* What the registration says of its sanctions.                            *)
(***************************************************************************)

is_pending(k)  == row[k].state = UNAPPROVED
is_retracted   == row[Retraction].state = APPROVED
is_embargoed   == ~public /\ row[Embargo].state = APPROVED

(***************************************************************************)
(* Registration.archiving: false as soon as the root's own files are       *)
(* copied, before the verdict on the whole registration.                   *)
(***************************************************************************)
archiving == archive = "initiated"

(***************************************************************************)
(* Registration.sanction: the one the archiver rejects when it fails.      *)
(***************************************************************************)
sanction ==
    CASE row[Termination].id # 0 -> Termination
      [] row[Termination].id = 0 /\ row[Retraction].id # 0 -> Retraction
      [] row[Termination].id = 0 /\ row[Retraction].id = 0 /\ row[Embargo].id # 0 -> Embargo
      [] OTHER -> Approval

\* Mutant: only a pending embargo keeps the registration private.
CanPublishUnderEmbargo(rs) ==
    public \/ (rs[Embargo].state # UNAPPROVED /\ rs[Approval].state # UNAPPROVED)

(***************************************************************************)
(* set_privacy('public', auth=None) on a registration whose sanction rows  *)
(* are rs: it returns at once when the registration is public; it raises   *)
(* while an embargo or a registration approval is pending, and when the    *)
(* embargo is in force (a request to end it needs a user).                 *)
(***************************************************************************)
CanPublish(rs) ==
    \/ public
    \/ /\ rs[Embargo].state \notin {UNAPPROVED, APPROVED}
       /\ rs[Approval].state # UNAPPROVED

\* Mutant: the cancelled registration keeps its source project.
DeleteTreeOnly == deleted' = TRUE /\ UNCHANGED linked

(***************************************************************************)
(* delete_registration_tree: the source project is kept only when the      *)
(* embargo was put on an existing registration.                            *)
(***************************************************************************)
DeleteTree ==
    /\ deleted' = TRUE
    /\ linked' = (linked /\ row[Embargo].existing)

\* Mutant: mark_as_completed writes a state that is no choice.
AfterMarkedComplete(k, s) ==
    IF k = Termination THEN [row EXCEPT ![k] = s, ![Embargo].state = "complete"]
    ELSE [row EXCEPT ![k] = s, ![Embargo].state = IF k = Retraction THEN REJECTED ELSE @]

(***************************************************************************)
(* The rows once the _on_complete of kind k has run on its row s.          *)
(***************************************************************************)
After(k, s) ==
    CASE k = Termination ->
           [row EXCEPT ![k] = s, ![Embargo].state = COMPLETED]
      [] k = Retraction ->
           [row EXCEPT ![k] = [s EXCEPT !.dated = TRUE],
                       ![Embargo].state =
                           IF @ \in {UNAPPROVED, APPROVED} THEN REJECTED ELSE @]
      [] OTHER -> [row EXCEPT ![k] = s]

Publishes(k) == k # Embargo

(***************************************************************************)
(* _on_complete raises when the source project is gone, when an embargo to *)
(* terminate is not in force, and when the registration cannot be made     *)
(* public.                                                                 *)
(***************************************************************************)
CanComplete(k, s) ==
    /\ linked
    /\ k = Termination => is_embargoed
    /\ Publishes(k) => CanPublish(After(k, s))

\* Mutant: a withdrawal does not publish what is withdrawn.
CompleteInPrivate(k, s) ==
    /\ row' = After(k, s)
    /\ public' = (public \/ k \in {Approval, Termination})
    /\ UNCHANGED <<deleted, linked>>

Complete(k, s) ==
    /\ row' = After(k, s)
    /\ public' = (public \/ Publishes(k))
    /\ UNCHANGED <<deleted, linked>>

Save(k, s) == row' = [row EXCEPT ![k] = s]

Attached(k, s) == s.id # 0 /\ row[k].id = s.id

-----------------------------------------------------------------------------
(***************************************************************************)
(* Token links (sanction_handler).  The tokens exist as soon as the row    *)
(* does, and nothing waits for the archiver: the page of a registration    *)
(* links to the rejection while its sanction is pending.                   *)
(***************************************************************************)

\* Mutants: a rejected sanction can still be answered; an approved one can.
AnswerableAfterReject(k) == row[k].state \in {UNAPPROVED, REJECTED, COMPLETED}
AnswerableAfterApprove(k) == row[k].state \in {UNAPPROVED, APPROVED, COMPLETED}

(***************************************************************************)
(* The handler loads the row and checks its state, once: an approved one   *)
(* redirects and a rejected one is an error, a completed one passes.       *)
(***************************************************************************)
Answerable(k) == row[k].state \in {UNAPPROVED, COMPLETED}

Load(r, k, verb, u) ==
    /\ req[r].user = Nobody
    /\ Answerable(k)
    /\ req' = [req EXCEPT ![r] = [kind |-> k, verb |-> verb, user |-> u, snap |-> row[k]]]
    /\ UNCHANGED <<row, created, registration, clock, archive, job>>

Respond(r) ==
    /\ req' = [req EXCEPT ![r] = Idle]
    /\ UNCHANGED <<created, clock, archive, job>>

Refuse(r) ==
    /\ Respond(r)
    /\ UNCHANGED <<row, registration>>

\* Mutant: Sanction.mode is ANY.
AnyAuthorizer(s) == s.yes # {}

Unanimous(s) == s.yes = Admins

(***************************************************************************)
(* approve: the user's has_approved is set in the fetched row; when all    *)
(* are set the sanction completes, or raises and is rolled back.           *)
(***************************************************************************)
Approve(r) ==
    LET k == req[r].kind
        s == [req[r].snap EXCEPT !.yes = @ \cup {req[r].user}]
        a == [s EXCEPT !.state = APPROVED]
    IN  /\ req[r].user # Nobody
        /\ req[r].verb = "approve"
        /\ \/ /\ Attached(k, s)
              /\ ~Unanimous(s)
              /\ Save(k, s)
              /\ Respond(r)
              /\ UNCHANGED registration
           \/ /\ Attached(k, s)
              /\ Unanimous(s)
              /\ CanComplete(k, a)
              /\ Complete(k, a)
              /\ Respond(r)
           \/ /\ ~Attached(k, s) \/ (Unanimous(s) /\ ~CanComplete(k, a))
              /\ Refuse(r)

\* Mutant: the embargo of a public registration can be rejected.
RejectRaisesUnlinked(k) == k # Termination /\ ~linked

(***************************************************************************)
(* The embargo of a public registration is not rejected, and the callbacks *)
(* that log raise without a source project.                                *)
(***************************************************************************)
RejectRaises(k) ==
    \/ k # Termination /\ ~linked
    \/ k = Embargo /\ public

(***************************************************************************)
(* reject: the callbacks of an embargo and of an approval delete the       *)
(* registration, that of a termination request detaches the request, that  *)
(* of a withdrawal only logs.                                              *)
(***************************************************************************)
Reject(r) ==
    LET k == req[r].kind
        s == [req[r].snap EXCEPT !.state = REJECTED]
        refused == ~Attached(k, s) \/ RejectRaises(k)
    IN  /\ req[r].user # Nobody
        /\ req[r].verb = "reject"
        /\ \/ /\ refused
              /\ Refuse(r)
           \/ /\ ~refused
              /\ k = Termination
              /\ Save(k, NoRow)
              /\ Respond(r)
              /\ UNCHANGED registration
           \/ /\ ~refused
              /\ k = Approval \/ (k = Embargo /\ ~s.existing)
              /\ Save(k, s)
              /\ DeleteTree
              /\ Respond(r)
              /\ UNCHANGED public
           \/ /\ ~refused
              /\ k = Retraction \/ (k = Embargo /\ s.existing)
              /\ Save(k, s)
              /\ Respond(r)
              /\ UNCHANGED registration

-----------------------------------------------------------------------------
(***************************************************************************)
(* What administrators do to the registration.                             *)
(***************************************************************************)

Create(k, existing) ==
    /\ created[k] < MaxRows[k]
    /\ created' = [created EXCEPT ![k] = @ + 1]
    /\ row' = [row EXCEPT ![k] = NewRow(created[k] + 1, existing)]
    /\ waited' = [waited EXCEPT ![k] = FALSE]

(***************************************************************************)
(* retract_registration, behind the checks of its two views: no withdrawal *)
(* pending, registration public, embargoed or about to be.                 *)
(***************************************************************************)
RetractRegistration ==
    /\ ~deleted
    /\ linked
    /\ ~is_pending(Retraction)
    /\ public \/ row[Embargo].state \in {UNAPPROVED, APPROVED}
    /\ Create(Retraction, FALSE)
    /\ UNCHANGED <<registration, ended, archive, req, job>>

(***************************************************************************)
(* set_privacy('public', auth) by an administrator: under an embargo it    *)
(* files a request to end it, which replaces an earlier one.               *)
(***************************************************************************)
RequestTermination ==
    /\ ~deleted
    /\ is_embargoed
    /\ ~is_pending(Approval)
    /\ Create(Termination, FALSE)
    /\ UNCHANGED <<registration, ended, archive, req, job>>

MakePublic ==
    /\ ~deleted
    /\ ~public
    /\ CanPublish(row)
    /\ public' = TRUE
    /\ UNCHANGED <<row, created, deleted, linked, clock, archive, req, job>>

(***************************************************************************)
(* set_privacy('private', auth): refused unless an embargo is pending.     *)
(***************************************************************************)
MakePrivate ==
    /\ ~deleted
    /\ public
    /\ is_pending(Embargo)
    /\ public' = FALSE
    /\ UNCHANGED <<row, created, deleted, linked, clock, archive, req, job>>

(***************************************************************************)
(* change_embargo_date, from the administration site: a new pending        *)
(* embargo replaces whatever was there and hides the registration.         *)
(***************************************************************************)
ChangeEmbargoDate ==
    /\ Create(Embargo, TRUE)
    /\ public' = FALSE
    /\ ended' = FALSE
    /\ UNCHANGED <<deleted, linked, archive, req, job>>

-----------------------------------------------------------------------------
(***************************************************************************)
(* Time.  A request or a job lasts seconds and an embargo or a pending     *)
(* time days, so none is in flight across one of these steps; the one that *)
(* is in flight at the very moment does what one that starts just after    *)
(* it does.                                                                *)
(***************************************************************************)

Quiet == (\A r \in Requests : req[r].user = Nobody) /\ (\A k \in Kinds : job[k].id = 0)

Elapse(k) ==
    /\ Quiet
    /\ is_pending(k)
    /\ ~waited[k]
    /\ waited' = [waited EXCEPT ![k] = TRUE]
    /\ UNCHANGED <<row, created, registration, ended, archive, req, job>>

EndDatePasses ==
    /\ Quiet
    /\ row[Embargo].id # 0
    /\ ~ended
    /\ ended' = TRUE
    /\ UNCHANGED <<row, created, registration, waited, archive, req, job>>

\* Mutant: nobody looks at the end date.
DuePending(k) == is_pending(k) /\ waited[k]

(***************************************************************************)
(* The nightly jobs: each fetches the rows that are due, then handles them *)
(* one after the other.                                                    *)
(***************************************************************************)

Due(k) ==
    \/ is_pending(k) /\ waited[k]
    \/ k = Embargo /\ row[k].state = APPROVED /\ ended

Fetch(k) ==
    /\ job[k].id = 0
    /\ Due(k)
    /\ job' = [job EXCEPT ![k] = row[k]]
    /\ UNCHANGED <<row, created, registration, clock, archive, req>>

Done(k) ==
    /\ job' = [job EXCEPT ![k] = NoRow]
    /\ UNCHANGED <<created, clock, archive, req>>

Skip(k) ==
    /\ Done(k)
    /\ UNCHANGED <<row, registration>>

(***************************************************************************)
(* approve_registrations: what is deleted is cleaned up, what is still     *)
(* being archived waits for another night.  An exception is logged inside  *)
(* the atomic block, so the row it had saved as approved is committed.     *)
(***************************************************************************)
ApproveRegistrations ==
    LET j == job[Approval]
        a == [j EXCEPT !.state = APPROVED]
    IN  /\ j.id # 0
        /\ \/ /\ ~Attached(Approval, j) \/ (~deleted /\ archiving)
              /\ Skip(Approval)
           \/ /\ Attached(Approval, j)
              /\ deleted
              /\ Save(Approval, [j EXCEPT !.state = REJECTED])
              /\ Done(Approval)
              /\ UNCHANGED registration
           \/ /\ Attached(Approval, j)
              /\ ~deleted
              /\ ~archiving
              /\ CanComplete(Approval, a)
              /\ Complete(Approval, a)
              /\ Done(Approval)
           \/ /\ Attached(Approval, j)
              /\ ~deleted
              /\ ~archiving
              /\ ~CanComplete(Approval, a)
              /\ Save(Approval, a)
              /\ Done(Approval)
              /\ UNCHANGED registration

(***************************************************************************)
(* embargo_registrations: a pending embargo takes effect; one in force     *)
(* whose end date has passed is completed and the registration published.  *)
(* The exception of set_privacy is logged inside the atomic block here     *)
(* too.                                                                    *)
(***************************************************************************)
EmbargoRegistrations ==
    LET j == job[Embargo]
        c == [j EXCEPT !.state = COMPLETED]
    IN  /\ j.id # 0
        /\ \/ /\ ~Attached(Embargo, j) \/ deleted
              /\ Skip(Embargo)
           \/ /\ Attached(Embargo, j)
              /\ ~deleted
              /\ j.state = UNAPPROVED
              /\ Save(Embargo, [j EXCEPT !.state = APPROVED])
              /\ Done(Embargo)
              /\ UNCHANGED registration
           \/ /\ Attached(Embargo, j)
              /\ ~deleted
              /\ j.state = APPROVED
              /\ Save(Embargo, c)
              /\ public' = CanPublish(row')
              /\ Done(Embargo)
              /\ UNCHANGED <<deleted, linked>>

\* Mutant: the approved retraction is not saved.
RetractRegistrationsUnsaved == job[Retraction].id # 0 /\ Skip(Retraction)

(***************************************************************************)
(* retract_registrations sets the state and logs; the callbacks of the     *)
(* sanction are not called.                                                *)
(***************************************************************************)
RetractRegistrations ==
    LET j == job[Retraction]
    IN  /\ j.id # 0
        /\ \/ /\ ~Attached(Retraction, j) \/ ~linked
              /\ Skip(Retraction)
           \/ /\ Attached(Retraction, j)
              /\ linked
              /\ Save(Retraction, [j EXCEPT !.state = APPROVED])
              /\ Done(Retraction)
              /\ UNCHANGED registration

(***************************************************************************)
(* approve_embargo_terminations, one transaction: a request for a          *)
(* registration that is not embargoed is left as it is.                    *)
(***************************************************************************)
ApproveEmbargoTerminations ==
    LET j == job[Termination]
        a == [j EXCEPT !.state = APPROVED]
    IN  /\ j.id # 0
        /\ \/ /\ Attached(Termination, j)
              /\ CanComplete(Termination, a)
              /\ Complete(Termination, a)
              /\ Done(Termination)
           \/ /\ ~Attached(Termination, j) \/ ~CanComplete(Termination, a)
              /\ Skip(Termination)

RunJob(k) ==
    \/ k = Approval /\ ApproveRegistrations
    \/ k = Embargo /\ EmbargoRegistrations
    \/ k = Retraction /\ RetractRegistrations
    \/ k = Termination /\ ApproveEmbargoTerminations

-----------------------------------------------------------------------------
(***************************************************************************)
(* The archiver, of which only the outcome matters here (module Archiver). *)
(***************************************************************************)

JobDone ==
    /\ archive = "initiated"
    /\ archive' = "done"
    /\ UNCHANGED <<row, created, registration, clock, req, job>>

ArchiveSuccess ==
    /\ archive = "done"
    /\ archive' = "success"
    /\ UNCHANGED <<row, created, registration, clock, req, job>>

(***************************************************************************)
(* handle_archive_fail: the current sanction is marked rejected, with none *)
(* of its callbacks, and the registration is cancelled.                    *)
(***************************************************************************)
ArchiveFailure ==
    /\ archive \in {"initiated", "done"}
    /\ archive' = "failure"
    /\ row' = [row EXCEPT ![sanction].state = REJECTED]
    /\ DeleteTree
    /\ UNCHANGED <<created, public, clock, req, job>>

(***************************************************************************)
(* RemoveStuckRegistrationsView, from the administration site: what the    *)
(* archiver did not conclude in time is deleted, its sanction left as it   *)
(* is.                                                                     *)
(***************************************************************************)
RemoveStuckRegistration ==
    /\ archive \in {"initiated", "done"}
    /\ ~deleted
    /\ DeleteTree
    /\ UNCHANGED <<row, created, public, clock, archive, req, job>>

-----------------------------------------------------------------------------

Serve(r) == Approve(r) \/ Reject(r)

Next ==
    \/ \E r \in Requests, k \in Kinds, verb \in {"approve", "reject"}, u \in Admins :
           Load(r, k, verb, u)
    \/ \E r \in Requests : Serve(r)
    \/ RetractRegistration
    \/ RequestTermination
    \/ MakePublic
    \/ MakePrivate
    \/ ChangeEmbargoDate
    \/ \E k \in Kinds : Elapse(k)
    \/ EndDatePasses
    \/ \E k \in Kinds : Fetch(k)
    \/ \E k \in Kinds : RunJob(k)
    \/ JobDone
    \/ ArchiveSuccess
    \/ ArchiveFailure
    \/ RemoveStuckRegistration

Spec == Init /\ [][Next]_vars

(***************************************************************************)
(* Time passes, celery beat starts the jobs every night (that of the       *)
(* approvals is off by default, ENABLED_REGISTRATION_APPROVAL_TIME), a job *)
(* that has started goes on, and a worker that serves a link answers.  No  *)
(* user has to do anything.                                                *)
(***************************************************************************)
Fairness ==
    /\ \A k \in Kinds : SF_vars(Elapse(k)) /\ WF_vars(RunJob(k))
    /\ \A k \in Kinds \ {Approval} : WF_vars(Fetch(k))
    /\ SF_vars(EndDatePasses)
    /\ \A r \in Requests : WF_vars(Serve(r))

FairSpec == Spec /\ Fairness

(***************************************************************************)
(* The same system if its transactions were serializable: what has fetched *)
(* a row also writes it before anything else happens.                      *)
(***************************************************************************)
Serializable == ~Quiet => Quiet'

SerialSpec == Init /\ [][Next /\ Serializable]_vars

-----------------------------------------------------------------------------
(***************************************************************************)
(* Properties that hold whatever overlaps.                                 *)
(***************************************************************************)

(***************************************************************************)
(* No minority decides: a sanction takes effect when every administrator   *)
(* has approved it (TokenApprovableSanction._on_approve) or when its 48    *)
(* hours are over, although approvals are written back from stale rows.    *)
(***************************************************************************)
NoMinorityApproval ==
    \A k \in Kinds : row[k].state \in {APPROVED, COMPLETED} =>
        row[k].yes = Admins \/ waited[k]

(***************************************************************************)
(* A private registration that was cancelled never becomes public, even if *)
(* an approval fetched its sanction before the rejection: the callbacks    *)
(* need the source project, which the cancellation unlinks.                *)
(***************************************************************************)
NoResurrection == [][deleted /\ ~public => ~public']_vars

(***************************************************************************)
(* A registration created under embargo is not cancelled once it is public *)
(* and archived, even by a rejection that fetched the embargo before:      *)
(* Embargo.reject looks at is_public again.                                *)
(***************************************************************************)
PublishedEmbargoIsKept ==
    [][public /\ ~deleted /\ archive = "success" /\ row[Approval].id = 0 => ~deleted']_vars

(***************************************************************************)
(* An embargoed registration becomes public only in the step that ends the *)
(* embargo at its date, or that approves a request to end it or a          *)
(* withdrawal, the request unanimously or after 48 hours and the           *)
(* withdrawal unanimously (the nightly job does not publish).              *)
(***************************************************************************)
EmbargoHolds ==
    [][~public /\ public' /\ row[Embargo].id # 0 =>
          \/ ended /\ row'[Embargo].state = COMPLETED
          \/ \E k \in {Termination, Retraction} :
                /\ row'[k] # row[k]
                /\ row'[k].state = APPROVED
                /\ row'[k].yes = Admins \/ (k = Termination /\ waited[k])]_vars

LinksStop == <>[](\A r \in Requests : req[r].user = Nobody)

(***************************************************************************)
(* Once users stop opening links, every embargoed registration that stays  *)
(* private is lifted or was cancelled: the nightly job activates and later *)
(* completes the embargo without anybody's help.                           *)
(***************************************************************************)
EmbargoIsLifted ==
    LinksStop => ((row[Embargo].id # 0 /\ ~public) ~> (public \/ deleted))

(***************************************************************************)
(* A requested withdrawal does not stay pending: the administrators or the *)
(* nightly job decide it, unless the registration is cancelled meanwhile.  *)
(***************************************************************************)
RetractionIsDecided ==
    LinksStop => (is_pending(Retraction) ~> ~is_pending(Retraction) \/ deleted)

-----------------------------------------------------------------------------
(***************************************************************************)
(* Properties that need transactions to be Serializable.                   *)
(***************************************************************************)

(***************************************************************************)
(* A rejected sanction stays rejected: must_not_be_rejected "ensures       *)
(* approval/disapproval requests can't reach Sanctions that have already   *)
(* been rejected".                                                         *)
(***************************************************************************)
RejectedIsFinal ==
    [][\A k \in Kinds : row[k].state = REJECTED /\ row'[k].id = row[k].id =>
          row'[k].state = REJECTED]_vars

(***************************************************************************)
(* A withdrawal that has its date took effect in full: it stays approved,  *)
(* the registration is public, and no embargo is pending on it, although   *)
(* the embargo's own links and job go on.  Only the archiver may still     *)
(* reject it, when it fails after all, and only an embargo put on the      *)
(* registration later hides it.                                            *)
(***************************************************************************)
DatedWithdrawalIsComplete ==
    row[Retraction].dated /\ archive # "failure" /\ ~row[Embargo].existing =>
        /\ row[Retraction].state = APPROVED
        /\ public
        /\ row[Embargo].state # UNAPPROVED

(***************************************************************************)
(* The life of the registration as its readers see it.  A withdrawal that  *)
(* the nightly job approved shows when the registration becomes public.    *)
(***************************************************************************)
phase ==
    CASE deleted -> "cancelled"
      [] ~deleted /\ ~public -> "private"
      [] ~deleted /\ public /\ is_retracted -> "withdrawn"
      [] OTHER -> "public"

L == INSTANCE Lifecycle WITH embargoes <- created[Embargo], copying <- archive \in {"initiated", "done"}, phase <- phase

(***************************************************************************)
(* The sanctions, the jobs and the archiver together implement Lifecycle:  *)
(* as long as it is withdrawn once, a registration moves back only when an *)
(* administrator of the site puts another embargo on it, and nothing that  *)
(* was shown to the public is cancelled once its files are copied.         *)
(***************************************************************************)
ImplementsLifecycle == L!Spec

(***************************************************************************)
(* What was made public is not taken back: once the files are archived, no *)
(* link and no job deletes a public registration.                          *)
(***************************************************************************)
PublicIsKept == [][public /\ ~deleted /\ archive = "success" => ~deleted']_vars

=============================================================================
