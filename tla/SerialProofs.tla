---------------------------- MODULE SerialProofs ----------------------------
(***************************************************************************)
(* Theorems about Sanctions with serializable transactions, for any set of *)
(* administrators, any number of web workers and any bounds: what is       *)
(* rejected stays rejected, what is public is kept, a dated withdrawal is  *)
(* complete, and, if it is withdrawn once, a registration has the life     *)
(* that Lifecycle describes.                                               *)
(***************************************************************************)
EXTENDS SanctionsProofs

(***************************************************************************)
(* What is fetched is the row as it is, and it is fetched because it can   *)
(* be answered or is due.                                                  *)
(***************************************************************************)
Current ==
    /\ \A r \in Requests : req[r].user # Nobody =>
          req[r].snap = row[req[r].kind] /\ Answerable(req[r].kind)
    /\ \A k \in Kinds : job[k].id # 0 => job[k] = row[k] /\ Due(k)

ApprovalIsNotCompleted == row[Approval].state # COMPLETED

PublicIsDecided ==
    public => row[Approval].state # UNAPPROVED /\ row[Embargo].state # UNAPPROVED

FailureCancels == archive = "failure" => deleted

LivingRowsHaveKeys ==
    \A k \in Kinds : row[k].state \in {UNAPPROVED, APPROVED, COMPLETED} => row[k].id # 0

Decided ==
    /\ ApprovalIsNotCompleted
    /\ PublicIsDecided
    /\ FailureCancels
    /\ LivingRowsHaveKeys
    /\ DatedWithdrawalIsComplete

SerialInv == ConsentInv /\ Current /\ Decided

\* What RejectedIsFinal says of one step.
RejectedStays ==
    \A k \in Kinds : row[k].state = REJECTED /\ row'[k].id = row[k].id =>
        row'[k].state = REJECTED

(***************************************************************************)
(* What a reader sees of a step that is neither another embargo nor the    *)
(* work of the archiver.                                                   *)
(***************************************************************************)
copying == archive \in {"initiated", "done"}

Forward ==
    /\ deleted => deleted'
    /\ public /\ ~deleted' => public'
    /\ deleted' /\ ~deleted => ~public \/ copying

StaysWithdrawn == public /\ is_retracted /\ ~deleted' => is_retracted'

LEMMA StatesDistinct ==
    /\ UNAPPROVED # APPROVED /\ UNAPPROVED # REJECTED /\ UNAPPROVED # COMPLETED
    /\ APPROVED # REJECTED /\ APPROVED # COMPLETED /\ REJECTED # COMPLETED
BY DEF UNAPPROVED, APPROVED, REJECTED, COMPLETED

LEMMA InitSerial == Init => SerialInv
<1> SUFFICES ASSUME Init PROVE SerialInv
  OBVIOUS
<1> PICK first \in Firsts :
        row = [k \in Kinds |-> IF k = first THEN NewRow(1, FALSE) ELSE NoRow]
  BY DEF Init
<1>1. /\ NoRow.id = 0 /\ NoRow.state = "none" /\ ~NoRow.dated
      /\ NewRow(1, FALSE).id = 1 /\ NewRow(1, FALSE).state = UNAPPROVED /\ ~NewRow(1, FALSE).dated
      /\ Idle.user = Nobody
  BY DEF NoRow, NewRow, Idle
<1>2. \A k \in Kinds : row[k] \in {NewRow(1, FALSE), NoRow}
  OBVIOUS
<1>3. Current
  <2>1. /\ \A r \in Requests : req[r] = Idle
        /\ \A k \in Kinds : job[k] = NoRow
    BY DEF Init
  <2> QED  BY <2>1, <1>1 DEF Current
<1>4. ~public /\ archive = "initiated"
  BY DEF Init
<1>5. ApprovalIsNotCompleted
  BY <1>1, <1>2, KindsDistinct DEF ApprovalIsNotCompleted, UNAPPROVED, COMPLETED
<1>6. PublicIsDecided /\ FailureCancels
  BY <1>4 DEF PublicIsDecided, FailureCancels
<1>7. LivingRowsHaveKeys
  <2>1. ASSUME NEW k \in Kinds
        PROVE  row[k].id = 1 \/ row[k].state = "none"
    BY <1>1, <1>2
  <2>2. ASSUME NEW k \in Kinds, row[k].state \in {UNAPPROVED, APPROVED, COMPLETED}
        PROVE  row[k].id # 0
    <3>1. row[k].state # "none"
      BY ONLY <2>2 DEF UNAPPROVED, APPROVED, COMPLETED
    <3> QED  BY ONLY <2>1, <3>1
  <2> QED  BY <2>2 DEF LivingRowsHaveKeys
<1>8. DatedWithdrawalIsComplete
  <2>1. ~row[Retraction].dated
    BY <1>1, <1>2, KindsDistinct
  <2> QED  BY <2>1 DEF DatedWithdrawalIsComplete
<1> QED
  BY <1>3, <1>5, <1>6, <1>7, <1>8, InitConsent DEF SerialInv, Decided

(***************************************************************************)
(* Nothing overlaps: what is fetched in a quiet moment is written back     *)
(* before anything else happens.                                           *)
(***************************************************************************)
LEMMA CurrentKept ==
    ASSUME SerialInv, Next, Serializable
    PROVE  Current'
<1>1. CASE Quiet'
  BY <1>1 DEF Quiet, Current
<1>2. CASE ~Quiet'
  <2>1. Quiet
    BY <1>2 DEF Serializable
  <2>2. TypeOK
    BY DEF SerialInv, ConsentInv
  <2>3. ASSUME req' = req, job' = job PROVE FALSE
    BY <2>1, <2>3, <1>2 DEF Quiet
  <2>4. ASSUME NEW r \in Requests, NEW k \in Kinds, NEW verb \in {"approve", "reject"},
               NEW u \in Admins, Load(r, k, verb, u)
        PROVE  Current'
    <3>1. /\ row' = row /\ job' = job /\ req'[r].kind = k /\ req'[r].snap = row[k]
          /\ Answerable(k) /\ \A q \in Requests \ {r} : req'[q] = req[q]
      BY <2>2, <2>4 DEF Load, TypeOK
    <3> QED
      BY <3>1, <2>1 DEF Current, Quiet, Answerable
  <2>5. ASSUME NEW k \in Kinds, Fetch(k)
        PROVE  Current'
    <3>1. /\ row' = row /\ req' = req /\ job'[k] = row[k] /\ ended' = ended /\ waited' = waited
          /\ Due(k) /\ \A m \in Kinds \ {k} : job'[m] = job[m]
      BY <2>2, <2>5 DEF Fetch, TypeOK, clock
    <3>2. Due(k)'
      BY <3>1 DEF Due, is_pending
    <3> QED
      BY <3>1, <3>2, <2>1 DEF Current, Quiet
  <2>6. ASSUME NEW r \in Requests, Serve(r) PROVE FALSE
    BY <2>1, <2>6 DEF Serve, Approve, Reject, Quiet
  <2>7. ASSUME NEW k \in Kinds, RunJob(k) PROVE FALSE
    BY <2>1, <2>7, KindsDistinct DEF RunJob, ApproveRegistrations, EmbargoRegistrations,
       RetractRegistrations, ApproveEmbargoTerminations, Quiet
  <2> QED
    BY <2>3, <2>4, <2>5, <2>6, <2>7
    DEF Next, RetractRegistration, RequestTermination, MakePublic, MakePrivate,
        ChangeEmbargoDate, Elapse, EndDatePasses, JobDone, ArchiveSuccess,
        ArchiveFailure, RemoveStuckRegistration
<1> QED
  BY <1>1, <1>2

-----------------------------------------------------------------------------
(***************************************************************************)
(* What a decision does: it saves the row that it has fetched, changed in  *)
(* its state and approvals only, or completes its sanction.                *)
(***************************************************************************)

Open(k) == row[k].state # REJECTED /\ (k = Retraction => row[k].state # APPROVED)

SameRow(k, s) == Attached(k, s) /\ s.dated = row[k].dated /\ s.existing = row[k].existing

LEMMA SaveDecides ==
    ASSUME SerialInv, NEW k \in Kinds, NEW s \in Row, SameRow(k, s), Open(k), Save(k, s),
           s.state = UNAPPROVED => row[k].state = UNAPPROVED,
           k = Approval => s.state # COMPLETED,
           public => public',
           public' /\ ~public => row'[Approval].state # UNAPPROVED /\ row'[Embargo].state # UNAPPROVED,
           deleted => deleted', deleted' /\ ~deleted => ~public, archive' = archive
    PROVE  Decided' /\ RejectedStays /\ Forward /\ StaysWithdrawn
<1>1. TypeOK /\ Decided
  BY DEF SerialInv, ConsentInv
<1>2. row'[k] = s /\ \A m \in Kinds \ {k} : row'[m] = row[m]
  BY <1>1, SaveRows
<1>3. ApprovalIsNotCompleted' /\ FailureCancels'
  BY <1>1, <1>2, KindsDistinct DEF Decided, ApprovalIsNotCompleted, FailureCancels
<1>4. PublicIsDecided'
  BY <1>1, <1>2, KindsDistinct DEF Decided, PublicIsDecided
<1>5. LivingRowsHaveKeys'
  BY <1>1, <1>2 DEF Decided, LivingRowsHaveKeys, SameRow, Attached
<1>6. DatedWithdrawalIsComplete'
  <2> SUFFICES ASSUME row'[Retraction].dated, archive # "failure", ~row'[Embargo].existing
               PROVE  /\ row'[Retraction].state = APPROVED
                      /\ public'
                      /\ row'[Embargo].state # UNAPPROVED
    BY DEF DatedWithdrawalIsComplete
  <2>1. row[Retraction].dated /\ ~row[Embargo].existing
    BY <1>2, KindsDistinct DEF SameRow
  <2>2. row[Retraction].state = APPROVED /\ public /\ row[Embargo].state # UNAPPROVED
    BY <2>1, <1>1 DEF Decided, DatedWithdrawalIsComplete
  <2>3. k # Retraction
    BY <2>2 DEF Open
  <2> QED
    BY <2>2, <2>3, <1>2, KindsDistinct
<1>7. RejectedStays
  BY <1>2 DEF RejectedStays, Open
<1>8. Forward
  BY DEF Forward
<1>9. StaysWithdrawn
  BY <1>2, KindsDistinct DEF StaysWithdrawn, is_retracted, Open
<1> QED
  BY <1>3, <1>4, <1>5, <1>6, <1>7, <1>8, <1>9 DEF Decided

LEMMA CompleteDecides ==
    ASSUME SerialInv, NEW k \in Kinds, NEW s \in Row, SameRow(k, s), Open(k),
           s.state = APPROVED, CanComplete(k, s), Complete(k, s), archive' = archive
    PROVE  Decided' /\ RejectedStays /\ Forward /\ StaysWithdrawn
<1>1. TypeOK /\ Decided
  BY DEF SerialInv, ConsentInv
<1>2. /\ row'[k].id = s.id /\ row'[k].state = APPROVED
      /\ row'[k].existing = s.existing
      /\ row'[k].dated = (s.dated \/ k = Retraction)
      /\ \A m \in Kinds \ {k, Embargo} : row'[m] = row[m]
      /\ row'[Embargo].id = IF k = Embargo THEN s.id ELSE row[Embargo].id
      /\ k # Embargo => row'[Embargo].existing = row[Embargo].existing
      /\ k = Approval => row'[Embargo] = row[Embargo]
      /\ k = Termination => row'[Embargo].state = COMPLETED
      /\ k = Retraction =>
            row'[Embargo].state = IF row[Embargo].state \in {UNAPPROVED, APPROVED}
                                  THEN REJECTED ELSE row[Embargo].state
  BY <1>1, CompleteRows
<1>3. public' = (public \/ k # Embargo) /\ deleted' = deleted /\ row' = After(k, s)
  BY DEF Complete, Publishes
<1>4. k # Embargo => public \/ (row'[Approval].state # UNAPPROVED /\ row'[Embargo].state # UNAPPROVED)
  BY <1>3 DEF CanComplete, Publishes, CanPublish
<1>5. k = Termination => row[Embargo].state = APPROVED
  BY DEF CanComplete, is_embargoed
<1>6. s.id = row[k].id /\ s.id # 0 /\ s.dated = row[k].dated /\ s.existing = row[k].existing
  BY DEF SameRow, Attached
<1>7. ApprovalIsNotCompleted' /\ FailureCancels'
  BY <1>1, <1>2, <1>3, StatesDistinct, KindsDistinct
  DEF Decided, ApprovalIsNotCompleted, FailureCancels
<1>8. PublicIsDecided'
  <2>1. row[Approval].state # UNAPPROVED => row'[Approval].state # UNAPPROVED
    BY <1>2, StatesDistinct, KindsDistinct
  <2>2. row[Embargo].state # UNAPPROVED => row'[Embargo].state # UNAPPROVED
    BY <1>2, StatesDistinct, KindsDistinct DEF Kinds
  <2> QED
    BY <2>1, <2>2, <1>1, <1>3, <1>4 DEF Decided, PublicIsDecided
<1>9. LivingRowsHaveKeys'
  <2>1. \A m \in Kinds : row'[m].id = row[m].id
    BY <1>2, <1>6, KindsDistinct
  <2>2. ASSUME NEW m \in Kinds, row'[m].state \in {UNAPPROVED, APPROVED, COMPLETED}
        PROVE  m = k \/ row[m].state \in {UNAPPROVED, APPROVED, COMPLETED}
    BY <2>2, <1>2, <1>5, StatesDistinct, KindsDistinct DEF Kinds
  <2> QED
    BY <2>1, <2>2, <1>1, <1>6 DEF Decided, LivingRowsHaveKeys
<1>10. DatedWithdrawalIsComplete'
  <2> SUFFICES ASSUME row'[Retraction].dated, archive # "failure", ~row'[Embargo].existing
               PROVE  /\ row'[Retraction].state = APPROVED
                      /\ public'
                      /\ row'[Embargo].state # UNAPPROVED
    BY DEF DatedWithdrawalIsComplete
  <2>1. CASE k = Retraction
    <3>1. public' /\ row'[Retraction].state = APPROVED
      BY <2>1, <1>2, <1>3, KindsDistinct
    <3>2. row'[Embargo].state # UNAPPROVED
      BY <3>1, <1>8 DEF PublicIsDecided
    <3> QED  BY <3>1, <3>2
  <2>2. CASE k # Retraction
    <3>1. row'[Retraction] = row[Retraction] /\ row'[Embargo].existing = row[Embargo].existing
      BY <2>2, <1>2, <1>6, KindsDistinct
    <3>2. row[Retraction].state = APPROVED /\ public
      BY <3>1, <1>1 DEF Decided, DatedWithdrawalIsComplete
    <3>3. public'
      BY <3>2, <1>3
    <3> QED
      BY <3>1, <3>2, <3>3, <1>8 DEF PublicIsDecided
  <2> QED  BY <2>1, <2>2
<1>11. RejectedStays
  BY <1>2, <1>5, StatesDistinct, KindsDistinct DEF RejectedStays, Open, Kinds
<1>12. Forward
  BY <1>3 DEF Forward
<1>13. StaysWithdrawn
  BY <1>2, KindsDistinct DEF StaysWithdrawn, is_retracted, Open
<1> QED
  BY <1>7, <1>8, <1>9, <1>10, <1>11, <1>12, <1>13 DEF Decided

-----------------------------------------------------------------------------
(***************************************************************************)
(* Links and jobs.                                                         *)
(***************************************************************************)

LEMMA IdleDecides ==
    ASSUME SerialInv, UNCHANGED <<row, registration, archive>>
    PROVE  Decided' /\ RejectedStays /\ Forward /\ StaysWithdrawn
BY DEF SerialInv, registration, Decided, ApprovalIsNotCompleted, PublicIsDecided, FailureCancels,
   LivingRowsHaveKeys, DatedWithdrawalIsComplete, RejectedStays, Forward, StaysWithdrawn,
   is_retracted

LEMMA ApproveDecides ==
    ASSUME SerialInv, NEW r \in Requests, Approve(r)
    PROVE  Decided' /\ RejectedStays /\ Forward /\ StaysWithdrawn
<1> DEFINE k == req[r].kind
           s == [req[r].snap EXCEPT !.yes = @ \cup {req[r].user}]
           a == [s EXCEPT !.state = APPROVED]
<1>1. k \in Kinds /\ req[r].snap \in Row /\ req[r].user \in Admins /\ req[r].user # Nobody
  BY DEF SerialInv, ConsentInv, TypeOK, Request, Approve
<1>2. req[r].snap = row[k] /\ row[k].state \in {UNAPPROVED, COMPLETED}
  BY <1>1 DEF SerialInv, Current, Answerable
<1>3. /\ s \in Row /\ s.id = row[k].id /\ s.state = row[k].state
      /\ s.dated = row[k].dated /\ s.existing = row[k].existing
  BY <1>1, <1>2, AnsweredIsRow DEF Row
<1>4. /\ a \in Row /\ a.id = row[k].id /\ a.state = APPROVED
      /\ a.dated = row[k].dated /\ a.existing = row[k].existing
  BY <1>3, DecidedIsRow DEF States, Row
<1>5. Open(k)
  BY <1>2, StatesDistinct DEF Open
<1>6. Respond(r) /\ archive' = archive
  BY DEF Approve, Refuse, Respond
<1>7. CASE Attached(k, s) /\ Save(k, s) /\ UNCHANGED registration
  <2>1. SameRow(k, s)
    BY <1>3, <1>7 DEF SameRow
  <2>2. k = Approval => s.state # COMPLETED
    BY <1>3 DEF SerialInv, Decided, ApprovalIsNotCompleted
  <2>3. public' = public /\ deleted' = deleted
    BY <1>7 DEF registration
  <2> QED
    BY <2>1, <2>2, <2>3, <1>1, <1>3, <1>5, <1>6, <1>7, SaveDecides
<1>8. CASE Attached(k, s) /\ CanComplete(k, a) /\ Complete(k, a)
  <2>1. SameRow(k, a)
    BY <1>3, <1>4, <1>8 DEF SameRow, Attached
  <2> QED
    BY <2>1, <1>1, <1>4, <1>5, <1>6, <1>8, CompleteDecides
<1>9. CASE Refuse(r)
  BY <1>6, <1>9, IdleDecides DEF Refuse
<1> QED
  BY <1>7, <1>8, <1>9 DEF Approve

LEMMA RejectDecides ==
    ASSUME SerialInv, NEW r \in Requests, Reject(r)
    PROVE  Decided' /\ RejectedStays /\ Forward /\ StaysWithdrawn
<1> DEFINE k == req[r].kind
           s == [req[r].snap EXCEPT !.state = REJECTED]
<1>1. k \in Kinds /\ req[r].snap \in Row /\ req[r].user # Nobody
  BY DEF SerialInv, ConsentInv, TypeOK, Request, Reject
<1>2. req[r].snap = row[k] /\ row[k].state \in {UNAPPROVED, COMPLETED}
  BY <1>1 DEF SerialInv, Current, Answerable
<1>3. /\ s \in Row /\ s.id = row[k].id /\ s.state = REJECTED
      /\ s.dated = row[k].dated /\ s.existing = row[k].existing
  BY <1>1, <1>2, DecidedIsRow DEF States, Row
<1>4. Open(k)
  BY <1>2, StatesDistinct DEF Open
<1>5. Respond(r) /\ archive' = archive
  BY DEF Reject, Refuse, Respond
<1>6. CASE Refuse(r)
  BY <1>5, <1>6, IdleDecides DEF Refuse
<1>7. CASE k = Termination /\ Save(k, NoRow) /\ UNCHANGED registration
  <2>1. row'[Termination] = NoRow /\ \A m \in Kinds \ {Termination} : row'[m] = row[m]
    BY <1>1, <1>7, NoRowIsRow, SaveRows DEF SerialInv, ConsentInv
  <2>2. NoRow.state \notin {UNAPPROVED, APPROVED, COMPLETED}
    BY DEF NoRow, UNAPPROVED, APPROVED, COMPLETED
  <2>3. public' = public /\ deleted' = deleted
    BY <1>7 DEF registration
  <2>4. /\ row'[Approval] = row[Approval] /\ row'[Embargo] = row[Embargo]
        /\ row'[Retraction] = row[Retraction]
    BY <2>1, KindsDistinct
  <2>5. LivingRowsHaveKeys'
    BY <2>1, <2>2 DEF SerialInv, Decided, LivingRowsHaveKeys
  <2>6. RejectedStays
    BY <2>1, <1>4, <1>7 DEF RejectedStays, Open
  <2>7. Decided'
    BY <2>3, <2>4, <2>5, <1>5 DEF SerialInv, Decided, ApprovalIsNotCompleted, PublicIsDecided,
       FailureCancels, DatedWithdrawalIsComplete
  <2> QED
    BY <2>3, <2>4, <2>6, <2>7 DEF Forward, StaysWithdrawn, is_retracted
<1>8. ASSUME Attached(k, s), Save(k, s), public' = public, deleted => deleted',
             deleted' /\ ~deleted => ~public
      PROVE  Decided' /\ RejectedStays /\ Forward /\ StaysWithdrawn
  <2>1. SameRow(k, s)
    BY <1>3, <1>8 DEF SameRow
  <2>2. s.state # UNAPPROVED /\ s.state # COMPLETED
    BY <1>3, StatesDistinct
  <2> QED
    BY <2>1, <2>2, <1>1, <1>3, <1>4, <1>5, <1>8, SaveDecides
<1>9. CASE /\ Attached(k, s) /\ ~RejectRaises(k) /\ k \in {Approval, Embargo}
           /\ Save(k, s) /\ DeleteTree /\ UNCHANGED public
  <2>1. CASE k = Embargo
    BY <2>1, <1>8, <1>9 DEF RejectRaises, DeleteTree
  <2>2. CASE k = Approval
    <3>1. ~public
      BY <2>2, <1>2 DEF SerialInv, Decided, ApprovalIsNotCompleted, PublicIsDecided
    <3> QED
      BY <3>1, <1>8, <1>9 DEF DeleteTree
  <2> QED  BY <2>1, <2>2, <1>9
<1>10. CASE Attached(k, s) /\ Save(k, s) /\ UNCHANGED registration
  BY <1>8, <1>10 DEF registration
<1> QED
  BY <1>6, <1>7, <1>9, <1>10 DEF Reject

LEMMA RunJobDecides ==
    ASSUME SerialInv, NEW k \in Kinds, RunJob(k)
    PROVE  Decided' /\ RejectedStays /\ Forward /\ StaysWithdrawn
<1> DEFINE j == job[k]
<1>1. j.id # 0
  BY KindsDistinct DEF RunJob, ApproveRegistrations, EmbargoRegistrations,
        RetractRegistrations, ApproveEmbargoTerminations
<1>2. j = row[k] /\ j \in Row /\ Due(k)
  BY <1>1 DEF SerialInv, Current, ConsentInv, TypeOK
<1>3. /\ row[k].state = UNAPPROVED \/ (k = Embargo /\ row[k].state = APPROVED)
      /\ Open(k)
  BY <1>2, StatesDistinct, KindsDistinct DEF Due, is_pending, Open
<1>4. Done(k) /\ archive' = archive
  BY KindsDistinct DEF RunJob, ApproveRegistrations, EmbargoRegistrations,
        RetractRegistrations, ApproveEmbargoTerminations, Skip, Done
<1>5. ASSUME NEW state \in States, Attached(k, j)
      PROVE  /\ [j EXCEPT !.state = state] \in Row
             /\ [j EXCEPT !.state = state].state = state
             /\ SameRow(k, [j EXCEPT !.state = state])
  BY <1>2, <1>5, DecidedIsRow DEF Row, SameRow, Attached
<1>6. APPROVED \in States /\ REJECTED \in States /\ COMPLETED \in States
  BY DEF States
<1>7. CASE Skip(k)
  BY <1>4, <1>7, IdleDecides DEF Skip
<1>8. ASSUME NEW state \in {APPROVED, REJECTED}, Attached(k, j),
             Save(k, [j EXCEPT !.state = state]), UNCHANGED registration
      PROVE  Decided' /\ RejectedStays /\ Forward /\ StaysWithdrawn
  <2> DEFINE s == [j EXCEPT !.state = state]
  <2>1. s \in Row /\ s.state = state /\ SameRow(k, s)
    BY <1>5, <1>6, <1>8
  <2>2. s.state # UNAPPROVED /\ s.state # COMPLETED
    BY <2>1, <1>8, StatesDistinct
  <2>3. public' = public /\ deleted' = deleted
    BY <1>8 DEF registration
  <2> QED
    BY <2>1, <2>2, <2>3, <1>3, <1>4, <1>8, SaveDecides
<1>9. ASSUME Attached(k, j), CanComplete(k, [j EXCEPT !.state = APPROVED]),
             Complete(k, [j EXCEPT !.state = APPROVED])
      PROVE  Decided' /\ RejectedStays /\ Forward /\ StaysWithdrawn
  BY <1>3, <1>4, <1>5, <1>6, <1>9, CompleteDecides
<1>10. CASE k = Approval /\ ApproveRegistrations
  BY <1>7, <1>8, <1>9, <1>10 DEF ApproveRegistrations
<1>11. CASE k = Embargo /\ EmbargoRegistrations
  <2>1. CASE /\ Attached(k, j) /\ ~deleted
             /\ Save(k, [j EXCEPT !.state = COMPLETED])
             /\ public' = CanPublish(row')
             /\ UNCHANGED <<deleted, linked>>
    <3> DEFINE c == [j EXCEPT !.state = COMPLETED]
    <3>1. c \in Row /\ c.state = COMPLETED /\ SameRow(k, c)
      BY <2>1, <1>5, <1>6
    <3>2. c.state # UNAPPROVED /\ k # Approval
      BY <3>1, <1>11, StatesDistinct, KindsDistinct
    <3>3. /\ public => public'
          /\ public' /\ ~public => row'[Approval].state # UNAPPROVED /\ row'[Embargo].state # UNAPPROVED
      BY <2>1 DEF CanPublish
    <3> QED
      BY <2>1, <3>1, <3>2, <3>3, <1>3, <1>4, SaveDecides
  <2> QED
    BY <2>1, <1>7, <1>8, <1>11 DEF EmbargoRegistrations
<1>12. CASE k = Retraction /\ RetractRegistrations
  BY <1>7, <1>8, <1>12 DEF RetractRegistrations
<1>13. CASE k = Termination /\ ApproveEmbargoTerminations
  BY <1>7, <1>9, <1>13 DEF ApproveEmbargoTerminations
<1> QED
  BY <1>10, <1>11, <1>12, <1>13 DEF RunJob

-----------------------------------------------------------------------------
(***************************************************************************)
(* The other steps.                                                        *)
(***************************************************************************)

LEMMA CreateDecides ==
    ASSUME SerialInv, NEW k \in {Termination, Retraction}, Create(k, FALSE),
           UNCHANGED <<registration, archive>>
    PROVE  Decided' /\ RejectedStays /\ Forward
<1>1. TypeOK /\ k \in Kinds /\ created[k] \in Nat /\ row[k].id \in Nat /\ row[k].id <= created[k]
  BY KindsDistinct DEF SerialInv, ConsentInv, TypeOK, Row, Fetched, FetchedKeys
<1>2. row'[k] = NewRow(created[k] + 1, FALSE) /\ \A m \in Kinds \ {k} : row'[m] = row[m]
  BY <1>1 DEF Create, TypeOK
<1>3. row'[k].id = created[k] + 1 /\ row'[k].id # 0 /\ ~row'[k].dated
  BY <1>1, <1>2 DEF NewRow
<1>4. public' = public /\ deleted' = deleted /\ archive' = archive
  BY DEF registration
<1>5. row'[Approval] = row[Approval] /\ row'[Embargo] = row[Embargo]
  BY <1>2, KindsDistinct
<1>6. LivingRowsHaveKeys'
  BY <1>2, <1>3 DEF SerialInv, Decided, LivingRowsHaveKeys
<1>7. row'[Retraction].dated => row'[Retraction] = row[Retraction]
  BY <1>2, <1>3, KindsDistinct
<1>8. Decided'
  BY <1>4, <1>5, <1>6, <1>7 DEF SerialInv, Decided, ApprovalIsNotCompleted, PublicIsDecided,
     FailureCancels, DatedWithdrawalIsComplete
<1>9. row'[k].id # row[k].id
  BY ONLY <1>1, <1>3
<1>10. RejectedStays
  BY <1>2, <1>9 DEF RejectedStays
<1> QED
  BY <1>4, <1>8, <1>10 DEF Forward

(***************************************************************************)
(* Another embargo is the only thing that hides what was public.           *)
(***************************************************************************)
LEMMA ChangeDateDecides ==
    ASSUME SerialInv, ChangeEmbargoDate
    PROVE  /\ Decided' /\ RejectedStays
           /\ ~public' /\ deleted' = deleted /\ archive' = archive
           /\ created'[Embargo] = created[Embargo] + 1
<1>1. /\ TypeOK /\ created[Embargo] \in Nat
      /\ row[Embargo].id \in Nat /\ row[Embargo].id <= created[Embargo]
  BY KindsDistinct DEF SerialInv, ConsentInv, TypeOK, Row, Fetched, FetchedKeys
<1>2. /\ row'[Embargo] = NewRow(created[Embargo] + 1, TRUE)
      /\ \A m \in Kinds \ {Embargo} : row'[m] = row[m]
      /\ created'[Embargo] = created[Embargo] + 1
  BY <1>1, KindsDistinct DEF ChangeEmbargoDate, Create, TypeOK
<1>3. row'[Embargo].id = created[Embargo] + 1 /\ row'[Embargo].id # 0 /\ row'[Embargo].existing
  BY <1>1, <1>2 DEF NewRow
<1>4. ~public' /\ deleted' = deleted /\ archive' = archive
  BY DEF ChangeEmbargoDate
<1>5. LivingRowsHaveKeys'
  BY <1>2, <1>3 DEF SerialInv, Decided, LivingRowsHaveKeys
<1>6. DatedWithdrawalIsComplete'
  BY <1>3 DEF DatedWithdrawalIsComplete
<1>7. Decided'
  BY <1>2, <1>4, <1>5, <1>6, KindsDistinct
  DEF SerialInv, Decided, ApprovalIsNotCompleted, PublicIsDecided, FailureCancels
<1>8. row'[Embargo].id # row[Embargo].id
  BY ONLY <1>1, <1>3
<1>9. RejectedStays
  BY <1>2, <1>8 DEF RejectedStays
<1> QED
  BY <1>2, <1>4, <1>7, <1>9

LEMMA FailureDecides ==
    ASSUME SerialInv, ArchiveFailure
    PROVE  Decided' /\ RejectedStays /\ deleted' /\ copying
<1>1. /\ TypeOK /\ deleted' /\ public' = public /\ archive' = "failure" /\ copying
      /\ \A k \in Kinds : row'[k].id = row[k].id /\ row'[k].state \in {REJECTED, row[k].state}
  BY DEF ArchiveFailure, DeleteTree, copying, SerialInv, ConsentInv, TypeOK, Row
<1>2. LivingRowsHaveKeys'
  BY <1>1, StatesDistinct DEF SerialInv, Decided, LivingRowsHaveKeys
<1>3. Decided'
  BY <1>1, <1>2, StatesDistinct, KindsDistinct
  DEF SerialInv, Decided, ApprovalIsNotCompleted, PublicIsDecided, FailureCancels,
      DatedWithdrawalIsComplete
<1> QED
  BY <1>1, <1>3 DEF RejectedStays

LEMMA MakePublicDecides ==
    ASSUME SerialInv, MakePublic
    PROVE  Decided' /\ RejectedStays /\ Forward /\ StaysWithdrawn
<1>1. /\ row' = row /\ public' /\ deleted' = deleted /\ archive' = archive /\ ~public
      /\ row[Approval].state # UNAPPROVED /\ row[Embargo].state # UNAPPROVED
  BY DEF MakePublic, CanPublish
<1>2. Decided'
  BY <1>1 DEF SerialInv, Decided, ApprovalIsNotCompleted, PublicIsDecided, FailureCancels,
     LivingRowsHaveKeys, DatedWithdrawalIsComplete
<1> QED
  BY <1>1, <1>2 DEF RejectedStays, Forward, StaysWithdrawn

LEMMA ArchiverGoesOn ==
    ASSUME SerialInv, JobDone \/ ArchiveSuccess
    PROVE  /\ Decided' /\ RejectedStays /\ Forward /\ StaysWithdrawn
           /\ copying /\ created' = created
<1>1. /\ row' = row /\ public' = public /\ deleted' = deleted /\ created' = created
      /\ archive # "failure" /\ archive' # "failure" /\ copying
  BY DEF JobDone, ArchiveSuccess, registration, copying
<1> QED
  BY <1>1 DEF SerialInv, Decided, ApprovalIsNotCompleted, PublicIsDecided, FailureCancels,
     LivingRowsHaveKeys, DatedWithdrawalIsComplete, RejectedStays, Forward, StaysWithdrawn,
     is_retracted

LEMMA StuckDecides ==
    ASSUME SerialInv, RemoveStuckRegistration
    PROVE  Decided' /\ RejectedStays /\ Forward /\ StaysWithdrawn
<1>1. row' = row /\ public' = public /\ deleted' /\ archive' = archive /\ copying
  BY DEF RemoveStuckRegistration, DeleteTree, copying
<1> QED
  BY <1>1 DEF SerialInv, Decided, ApprovalIsNotCompleted, PublicIsDecided, FailureCancels,
     LivingRowsHaveKeys, DatedWithdrawalIsComplete, RejectedStays, Forward, StaysWithdrawn

(***************************************************************************)
(* Every step of the serial system: it moves forward, or the archiver      *)
(* fails, or another embargo is put on the registration.                   *)
(***************************************************************************)
LEMMA StepDecides ==
    ASSUME SerialInv, Next
    PROVE  /\ Decided' /\ RejectedStays
           /\ \/ Forward
              \/ ArchiveFailure
              \/ ChangeEmbargoDate
<1>1. ASSUME NEW r \in Requests, NEW k \in Kinds, NEW verb \in {"approve", "reject"},
             NEW u \in Admins, Load(r, k, verb, u)
      PROVE  Decided' /\ RejectedStays /\ Forward
  BY <1>1, IdleDecides DEF Load
<1>2. ASSUME NEW r \in Requests, Serve(r)
      PROVE  Decided' /\ RejectedStays /\ Forward
  BY <1>2, ApproveDecides, RejectDecides DEF Serve
<1>3. CASE RetractRegistration \/ RequestTermination
  BY <1>3, CreateDecides DEF RetractRegistration, RequestTermination
<1>4. CASE MakePublic
  BY <1>4, MakePublicDecides
<1>5. CASE MakePrivate
  BY <1>5 DEF MakePrivate, is_pending, SerialInv, Decided, PublicIsDecided
<1>6. CASE ChangeEmbargoDate
  BY <1>6, ChangeDateDecides
<1>7. ASSUME NEW k \in Kinds, Elapse(k) \/ Fetch(k)
      PROVE  Decided' /\ RejectedStays /\ Forward
  BY <1>7, IdleDecides DEF Elapse, Fetch
<1>8. CASE EndDatePasses
  BY <1>8, IdleDecides DEF EndDatePasses
<1>9. ASSUME NEW k \in Kinds, RunJob(k)
      PROVE  Decided' /\ RejectedStays /\ Forward
  BY <1>9, RunJobDecides
<1>10. CASE JobDone \/ ArchiveSuccess
  BY <1>10, ArchiverGoesOn
<1>11. CASE ArchiveFailure
  BY <1>11, FailureDecides
<1>12. CASE RemoveStuckRegistration
  BY <1>12, StuckDecides
<1> QED
  BY <1>1, <1>2, <1>3, <1>4, <1>5, <1>6, <1>7, <1>8, <1>9, <1>10, <1>11, <1>12 DEF Next

LEMMA NextSerial ==
    ASSUME SerialInv, [Next /\ Serializable]_vars
    PROVE  /\ SerialInv' /\ RejectedStays
           /\ public /\ ~deleted /\ archive = "success" => ~deleted'
<1>1. ConsentInv'
  BY NextConsent DEF SerialInv
<1>2. CASE Next /\ Serializable
  <2>1. Current' /\ Decided' /\ RejectedStays
    BY <1>2, CurrentKept, StepDecides
  <2>2. public /\ ~deleted /\ archive = "success" => ~deleted'
    <3>1. CASE Forward
      BY <3>1 DEF Forward, copying
    <3>2. CASE ArchiveFailure \/ ChangeEmbargoDate
      BY <3>2 DEF ArchiveFailure, ChangeEmbargoDate
    <3> QED  BY <3>1, <3>2, <1>2, StepDecides
  <2> QED
    BY <2>1, <2>2, <1>1 DEF SerialInv
<1>3. CASE UNCHANGED vars
  <2>1. UNCHANGED <<row, registration, archive>> /\ req' = req /\ job' = job /\ ended' = ended
        /\ waited' = waited
    BY <1>3 DEF vars, registration
  <2>2. Current'
    BY <2>1 DEF SerialInv, Current, Answerable, Due, is_pending
  <2> QED
    BY <2>1, <2>2, <1>1, IdleDecides DEF SerialInv, registration
<1> QED
  BY <1>2, <1>3

(***************************************************************************)
(* With serializable transactions a rejected sanction stays rejected, as   *)
(* must_not_be_rejected means to ensure, for every kind of sanction.       *)
(***************************************************************************)
THEOREM RejectionIsFinal == SerialSpec => RejectedIsFinal
<1>1. Init => SerialInv
  BY InitSerial
<1>2. SerialInv /\ [Next /\ Serializable]_vars => SerialInv'
  BY NextSerial
<1>3. SerialInv /\ [Next /\ Serializable]_vars =>
         [\A k \in Kinds : row[k].state = REJECTED /\ row'[k].id = row[k].id =>
             row'[k].state = REJECTED]_vars
  BY NextSerial DEF RejectedStays
<1> QED
  BY <1>1, <1>2, <1>3, PTL DEF SerialSpec, RejectedIsFinal

(***************************************************************************)
(* With serializable transactions what is public and archived is never     *)
(* cancelled: no link and no job deletes it.                               *)
(***************************************************************************)
THEOREM PublishedIsKept == SerialSpec => PublicIsKept
<1>1. Init => SerialInv
  BY InitSerial
<1>2. SerialInv /\ [Next /\ Serializable]_vars => SerialInv'
  BY NextSerial
<1>3. SerialInv /\ [Next /\ Serializable]_vars =>
         [public /\ ~deleted /\ archive = "success" => ~deleted']_vars
  BY NextSerial
<1> QED
  BY <1>1, <1>2, <1>3, PTL DEF SerialSpec, PublicIsKept

(***************************************************************************)
(* With serializable transactions a withdrawal that has its date is in     *)
(* full effect, however often a withdrawal is asked for.                   *)
(***************************************************************************)
THEOREM WithdrawalIsComplete == SerialSpec => []DatedWithdrawalIsComplete
<1>1. Init => SerialInv
  BY InitSerial
<1>2. SerialInv /\ [Next /\ Serializable]_vars => SerialInv'
  BY NextSerial
<1>3. SerialInv => DatedWithdrawalIsComplete
  BY DEF SerialInv, Decided
<1> QED
  BY <1>1, <1>2, <1>3, PTL DEF SerialSpec

-----------------------------------------------------------------------------
(***************************************************************************)
(* The refinement of Lifecycle, step by step.  First what a reader sees of *)
(* a step that moves forward.                                              *)
(***************************************************************************)

shown == <<phase, created[Embargo], archive \in {"initiated", "done"}>>

LEMMA PhaseIs ==
    ASSUME TypeOK
    PROVE  /\ deleted => phase = "cancelled"
           /\ ~deleted /\ ~public => phase = "private"
           /\ ~deleted /\ public /\ is_retracted => phase = "withdrawn"
           /\ ~deleted /\ public /\ ~is_retracted => phase = "public"
BY DEF phase, TypeOK

LEMMA ForwardImplements ==
    ASSUME TypeOK, TypeOK', Forward, StaysWithdrawn,
           created'[Embargo] = created[Embargo], copying' = copying
    PROVE  [L!Next]_shown
<1>1. /\ deleted' => phase' = "cancelled"
      /\ ~deleted' /\ ~public' => phase' = "private"
      /\ ~deleted' /\ public' /\ is_retracted' => phase' = "withdrawn"
      /\ ~deleted' /\ public' /\ ~is_retracted' => phase' = "public"
  BY DEF phase, TypeOK
<1>2. \/ phase' = phase
      \/ phase = "private" /\ phase' = "public"
      \/ phase \in {"private", "public"} /\ phase' = "withdrawn"
      \/ (phase = "private" \/ copying) /\ phase' = "cancelled"
  BY <1>1, PhaseIs DEF Forward, StaysWithdrawn
<1> QED
  BY <1>2 DEF shown, copying, L!Next, L!Publish, L!Withdraw, L!Cancel

(***************************************************************************)
(* As long as it is asked for once, nothing takes a withdrawal back:       *)
(* neither a link nor a job is at work on one that is approved.            *)
(***************************************************************************)
LEMMA SecondWithdrawal ==
    ASSUME MaxRows[Retraction] <= 1, SerialInv, RetractRegistration
    PROVE  Forward /\ StaysWithdrawn
<1>1. /\ created[Retraction] \in Nat /\ created[Retraction] < MaxRows[Retraction]
      /\ row[Retraction].id \in Nat /\ row[Retraction].id <= created[Retraction]
      /\ MaxRows[Retraction] \in Nat
  BY ConstantsAssumption, KindsDistinct DEF RetractRegistration, Create, TypeOK, Row, SerialInv,
     ConsentInv, Fetched, FetchedKeys
<1>2. row[Retraction].id = 0
  BY ONLY <1>1, MaxRows[Retraction] <= 1
<1>3. ~is_retracted
  BY <1>2, KindsDistinct DEF is_retracted, SerialInv, Decided, LivingRowsHaveKeys
<1> QED
  BY <1>3, CreateDecides DEF StaysWithdrawn, RetractRegistration

LEMMA StepImplements ==
    ASSUME MaxRows[Retraction] <= 1, SerialInv, Next
    PROVE  [L!Next]_shown
<1>1. TypeOK /\ TypeOK'
  BY NextType DEF SerialInv, ConsentInv
<1>2. ASSUME Forward, StaysWithdrawn, created' = created, archive' = archive
      PROVE  [L!Next]_shown
  BY <1>1, <1>2, ForwardImplements DEF copying
<1>3. ASSUME NEW r \in Requests, NEW k \in Kinds, NEW verb \in {"approve", "reject"},
             NEW u \in Admins, Load(r, k, verb, u)
      PROVE  [L!Next]_shown
  BY <1>2, <1>3, IdleDecides DEF Load
<1>4. ASSUME NEW r \in Requests, Serve(r) PROVE [L!Next]_shown
  <2>1. created' = created /\ archive' = archive
    BY <1>4 DEF Serve, Approve, Reject, Refuse, Respond
  <2> QED
    BY <2>1, <1>2, <1>4, ApproveDecides, RejectDecides DEF Serve
<1>5. ASSUME NEW k \in {Termination, Retraction}, Create(k, FALSE), Forward, StaysWithdrawn,
             archive' = archive
      PROVE  [L!Next]_shown
  <2>1. created'[Embargo] = created[Embargo]
    BY <1>1, <1>5, KindsDistinct DEF Create, TypeOK
  <2> QED
    BY <2>1, <1>1, <1>5, ForwardImplements DEF copying
<1>6. CASE RetractRegistration
  BY <1>5, <1>6, SecondWithdrawal DEF RetractRegistration
<1>7. CASE RequestTermination
  <2>1. row'[Retraction] = row[Retraction]
    BY <1>1, <1>7, KindsDistinct DEF RequestTermination, Create, TypeOK
  <2> QED
    BY <2>1, <1>5, <1>7, CreateDecides DEF RequestTermination, StaysWithdrawn, is_retracted
<1>8. CASE MakePublic
  BY <1>2, <1>8, MakePublicDecides DEF MakePublic
<1>9. CASE MakePrivate
  BY <1>9 DEF MakePrivate, is_pending, SerialInv, Decided, PublicIsDecided
<1>10. CASE ChangeEmbargoDate
  <2>1. /\ ~public' /\ deleted' = deleted /\ archive' = archive
        /\ created'[Embargo] = created[Embargo] + 1
    BY <1>10, ChangeDateDecides
  <2>2. phase' = IF phase = "cancelled" THEN phase ELSE "private"
    BY <2>1, <1>1 DEF phase, TypeOK
  <2> QED
    BY <2>1, <2>2 DEF shown, L!Next, L!Hide
<1>11. ASSUME NEW k \in Kinds, Elapse(k) \/ Fetch(k) PROVE [L!Next]_shown
  BY <1>2, <1>11, IdleDecides DEF Elapse, Fetch
<1>12. CASE EndDatePasses
  BY <1>2, <1>12, IdleDecides DEF EndDatePasses
<1>13. ASSUME NEW k \in Kinds, RunJob(k) PROVE [L!Next]_shown
  <2>1. created' = created /\ archive' = archive
    BY <1>13, KindsDistinct DEF RunJob, ApproveRegistrations, EmbargoRegistrations,
       RetractRegistrations, ApproveEmbargoTerminations, Skip, Done
  <2> QED
    BY <2>1, <1>2, <1>13, RunJobDecides
<1>14. CASE JobDone
  BY <1>1, <1>14, ArchiverGoesOn, ForwardImplements DEF JobDone, copying
<1>15. CASE ArchiveSuccess
  <2>1. phase' = phase /\ created' = created
    BY <1>15 DEF ArchiveSuccess, registration, phase, is_retracted
  <2> QED
    BY <2>1, <1>15 DEF ArchiveSuccess, shown, L!Next, L!Copied
<1>16. CASE ArchiveFailure
  <2>1. /\ phase' = "cancelled" /\ created' = created
        /\ archive \in {"initiated", "done"} /\ archive' = "failure"
    BY <1>16 DEF ArchiveFailure, DeleteTree, phase
  <2> QED
    BY <2>1 DEF shown, L!Next, L!CopyFails
<1>17. CASE RemoveStuckRegistration
  BY <1>2, <1>17, StuckDecides DEF RemoveStuckRegistration
<1> QED
  BY <1>3, <1>4, <1>6, <1>7, <1>8, <1>9, <1>10, <1>11, <1>12, <1>13, <1>14, <1>15, <1>16,
     <1>17 DEF Next

LEMMA InitImplements == Init => L!Init
<1> SUFFICES ASSUME Init PROVE L!Init
  OBVIOUS
<1> PICK first \in Firsts : created = [k \in Kinds |-> IF k = first THEN 1 ELSE 0]
  BY DEF Init
<1>1. created[Embargo] \in {0, 1}
  BY KindsDistinct
<1>2. phase = "private" /\ archive \in {"initiated", "done"}
  BY DEF Init, phase
<1> QED
  BY <1>1, <1>2 DEF L!Init

(***************************************************************************)
(* With serializable transactions, and as long as a withdrawal is asked    *)
(* for once, the sanctions, the jobs and the archiver implement Lifecycle: *)
(* whatever the number of administrators, links and embargoes, readers see *)
(* the registration published, withdrawn and cancelled in the right order. *)
(***************************************************************************)
THEOREM LifecycleIsImplemented ==
    ASSUME MaxRows[Retraction] <= 1
    PROVE  SerialSpec => ImplementsLifecycle
<1>1. Init => SerialInv
  BY InitSerial
<1>2. SerialInv /\ [Next /\ Serializable]_vars => SerialInv'
  BY NextSerial
<1>3. Init => L!Init
  BY InitImplements
<1>4. SerialInv /\ [Next /\ Serializable]_vars => [L!Next]_shown
  <2>1. SerialInv /\ Next => [L!Next]_shown
    BY StepImplements
  <2>2. UNCHANGED vars => UNCHANGED shown
    BY DEF vars, shown, phase, registration, is_retracted
  <2> QED
    BY <2>1, <2>2
<1> QED
  BY <1>1, <1>2, <1>3, <1>4, PTL DEF SerialSpec, ImplementsLifecycle, L!Spec, shown
=============================================================================
