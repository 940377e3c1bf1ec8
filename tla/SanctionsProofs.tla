--------------------------- MODULE SanctionsProofs ---------------------------
(***************************************************************************)
(* Theorems about Sanctions, for any set of administrators, any number of  *)
(* web workers and any bounds: type correctness, that no minority decides, *)
(* and, without a second embargo, that a cancelled registration does not   *)
(* come back and a published one that was embargoed is not cancelled.      *)
(***************************************************************************)
EXTENDS Sanctions, TLAPS

(***************************************************************************)
(* The four sanctions have different names.                                *)
(***************************************************************************)
LEMMA KindsDistinct ==
    /\ Approval \in Kinds /\ Embargo \in Kinds
    /\ Termination \in Kinds /\ Retraction \in Kinds
    /\ Approval # Embargo /\ Approval # Termination /\ Approval # Retraction
    /\ Embargo # Termination /\ Embargo # Retraction /\ Termination # Retraction
BY DEF Kinds, Approval, Embargo, Termination, Retraction

LEMMA NoRowIsRow == NoRow \in Row
BY DEF NoRow, Row, States

LEMMA NewRowIsRow ==
    ASSUME NEW id \in Nat, NEW existing \in BOOLEAN
    PROVE  NewRow(id, existing) \in Row
BY DEF NewRow, Row, States, UNAPPROVED

(***************************************************************************)
(* The rows after a completion are rows.                                   *)
(***************************************************************************)
LEMMA AfterIsRows ==
    ASSUME row \in [Kinds -> Row], NEW k \in Kinds, NEW s \in Row
    PROVE  After(k, s) \in [Kinds -> Row]
<1>1. CASE k = Termination
  <2>1. [row[Embargo] EXCEPT !.state = COMPLETED] \in Row
    BY KindsDistinct DEF Row, States
  <2> QED  BY <1>1, <2>1, KindsDistinct DEF After
<1>2. CASE k = Retraction
  <2>1. [s EXCEPT !.dated = TRUE] \in Row
    BY DEF Row
  <2>2. [row[Embargo] EXCEPT !.state =
            IF @ \in {UNAPPROVED, APPROVED} THEN REJECTED ELSE @] \in Row
    BY KindsDistinct DEF Row, States
  <2> QED  BY <1>2, <2>1, <2>2, KindsDistinct DEF After
<1>3. CASE k # Termination /\ k # Retraction
  BY <1>3 DEF After
<1> QED  BY <1>1, <1>2, <1>3

LEMMA SaveIsRows ==
    ASSUME row \in [Kinds -> Row], NEW k \in Kinds, NEW s \in Row, Save(k, s)
    PROVE  row' \in [Kinds -> Row]
BY DEF Save

(***************************************************************************)
(* What a transaction computes from the row it has fetched is a row.       *)
(***************************************************************************)
LEMMA DecidedIsRow ==
    ASSUME NEW s \in Row, NEW state \in States
    PROVE  [s EXCEPT !.state = state] \in Row
BY DEF Row

LEMMA AnsweredIsRow ==
    ASSUME NEW s \in Row, NEW u \in Admins
    PROVE  [s EXCEPT !.yes = @ \cup {u}] \in Row
BY DEF Row

-----------------------------------------------------------------------------
(***************************************************************************)
(* Type correctness.                                                       *)
(***************************************************************************)

LEMMA IdleIsRequest == Idle \in Request
BY NoRowIsRow, KindsDistinct DEF Idle, Request

LEMMA InitType == Init => TypeOK
<1> SUFFICES ASSUME Init PROVE TypeOK
  OBVIOUS
<1>1. row \in [Kinds -> Row] /\ created \in [Kinds -> Nat]
  <2> PICK first \in Firsts :
        /\ row = [k \in Kinds |-> IF k = first THEN NewRow(1, FALSE) ELSE NoRow]
        /\ created = [k \in Kinds |-> IF k = first THEN 1 ELSE 0]
    BY DEF Init
  <2> QED
    BY NoRowIsRow, NewRowIsRow
<1>2. req \in [Requests -> Request] /\ job \in [Kinds -> Row]
  BY NoRowIsRow, IdleIsRequest DEF Init
<1>3. waited \in [Kinds -> BOOLEAN]
  BY DEF Init
<1> QED
  BY <1>1, <1>2, <1>3 DEF Init, TypeOK

LEMMA ApproveType ==
    ASSUME TypeOK, NEW r \in Requests, Approve(r)
    PROVE  TypeOK'
<1> DEFINE k == req[r].kind
           s == [req[r].snap EXCEPT !.yes = @ \cup {req[r].user}]
           a == [s EXCEPT !.state = APPROVED]
<1>1. k \in Kinds /\ req[r].snap \in Row /\ req[r].user \in Admins
  BY DEF TypeOK, Request, Approve
<1>2. s \in Row
  BY <1>1, AnsweredIsRow
<1>3. a \in Row
  BY <1>2, DecidedIsRow DEF States
<1>4. Respond(r)
  BY DEF Approve, Refuse
<1>5. row' \in [Kinds -> Row] /\ public' \in BOOLEAN /\ deleted' \in BOOLEAN /\ linked' \in BOOLEAN
  <2>1. CASE Save(k, s) /\ UNCHANGED registration
    BY <1>1, <1>2, <2>1, SaveIsRows DEF TypeOK, registration
  <2>2. CASE Complete(k, a)
    BY <1>1, <1>3, <2>2, AfterIsRows DEF Complete, TypeOK, Publishes
  <2>3. CASE Refuse(r)
    BY <2>3 DEF Refuse, TypeOK, registration
  <2> QED
    BY <2>1, <2>2, <2>3 DEF Approve
<1> QED
  BY <1>4, <1>5, IdleIsRequest DEF Respond, TypeOK, clock

LEMMA RejectType ==
    ASSUME TypeOK, NEW r \in Requests, Reject(r)
    PROVE  TypeOK'
<1> DEFINE k == req[r].kind
           s == [req[r].snap EXCEPT !.state = REJECTED]
<1>1. k \in Kinds /\ req[r].snap \in Row
  BY DEF TypeOK, Request
<1>2. s \in Row
  BY <1>1, DecidedIsRow DEF States
<1>3. Respond(r)
  BY DEF Reject, Refuse
<1>4. row' \in [Kinds -> Row] /\ public' \in BOOLEAN /\ deleted' \in BOOLEAN /\ linked' \in BOOLEAN
  <2>1. CASE Refuse(r)
    BY <2>1 DEF Refuse, TypeOK, registration
  <2>2. CASE Save(k, NoRow) /\ UNCHANGED registration
    BY <1>1, <2>2, NoRowIsRow, SaveIsRows DEF TypeOK, registration
  <2>3. CASE Save(k, s) /\ DeleteTree /\ UNCHANGED public
    BY <1>1, <1>2, <2>3, SaveIsRows DEF TypeOK, DeleteTree
  <2>4. CASE Save(k, s) /\ UNCHANGED registration
    BY <1>1, <1>2, <2>4, SaveIsRows DEF TypeOK, registration
  <2> QED
    BY <2>1, <2>2, <2>3, <2>4 DEF Reject
<1> QED
  BY <1>3, <1>4, IdleIsRequest DEF Respond, TypeOK, clock

LEMMA CreateType ==
    ASSUME TypeOK, NEW k \in Kinds, NEW existing \in BOOLEAN, Create(k, existing)
    PROVE  /\ row' \in [Kinds -> Row]
           /\ created' \in [Kinds -> Nat]
           /\ waited' \in [Kinds -> BOOLEAN]
BY NewRowIsRow DEF Create, TypeOK

LEMMA RunJobType ==
    ASSUME TypeOK, NEW k \in Kinds, RunJob(k)
    PROVE  TypeOK'
<1> DEFINE j == job[k]
<1>1. j \in Row
  BY DEF TypeOK
<1>2. \A state \in States : [j EXCEPT !.state = state] \in Row
  BY <1>1, DecidedIsRow
<1>3. Done(k)
  BY KindsDistinct DEF RunJob, ApproveRegistrations, EmbargoRegistrations,
        RetractRegistrations, ApproveEmbargoTerminations, Skip
<1>4. \/ Skip(k)
      \/ /\ \E state \in States : Save(k, [j EXCEPT !.state = state])
         /\ public' \in BOOLEAN
         /\ UNCHANGED <<deleted, linked>>
      \/ Complete(k, [j EXCEPT !.state = APPROVED])
  <2>1. CASE k = Approval /\ ApproveRegistrations
    BY <2>1 DEF ApproveRegistrations, TypeOK, registration, States
  <2>2. CASE k = Embargo /\ EmbargoRegistrations
    BY <2>2 DEF EmbargoRegistrations, TypeOK, registration, States, CanPublish
  <2>3. CASE k = Retraction /\ RetractRegistrations
    BY <2>3 DEF RetractRegistrations, TypeOK, registration, States
  <2>4. CASE k = Termination /\ ApproveEmbargoTerminations
    BY <2>4 DEF ApproveEmbargoTerminations
  <2> QED
    BY <2>1, <2>2, <2>3, <2>4 DEF RunJob
<1>5. row' \in [Kinds -> Row] /\ public' \in BOOLEAN /\ deleted' \in BOOLEAN /\ linked' \in BOOLEAN
  <2>1. CASE Skip(k)
    BY <2>1 DEF Skip, TypeOK, registration
  <2>2. CASE /\ \E state \in States : Save(k, [j EXCEPT !.state = state])
             /\ public' \in BOOLEAN
             /\ UNCHANGED <<deleted, linked>>
    BY <1>2, <2>2, SaveIsRows DEF TypeOK
  <2>3. CASE Complete(k, [j EXCEPT !.state = APPROVED])
    BY <1>2, <2>3, AfterIsRows DEF Complete, TypeOK, Publishes, States
  <2> QED
    BY <1>4, <2>1, <2>2, <2>3
<1> QED
  BY <1>3, <1>5, NoRowIsRow DEF Done, TypeOK, clock

LEMMA NextType == TypeOK /\ [Next]_vars => TypeOK'
<1> SUFFICES ASSUME TypeOK, [Next]_vars PROVE TypeOK'
  OBVIOUS
<1>1. ASSUME NEW r \in Requests, NEW k \in Kinds, NEW verb \in {"approve", "reject"},
             NEW u \in Admins, Load(r, k, verb, u)
      PROVE  TypeOK'
  <2>1. [kind |-> k, verb |-> verb, user |-> u, snap |-> row[k]] \in Request
    BY DEF TypeOK, Request
  <2> QED
    BY <1>1, <2>1 DEF Load, TypeOK, registration, clock
<1>2. ASSUME NEW r \in Requests, Serve(r) PROVE TypeOK'
  BY <1>2, ApproveType, RejectType DEF Serve
<1>3. CASE RetractRegistration
  BY <1>3, CreateType, KindsDistinct DEF RetractRegistration, TypeOK, registration
<1>4. CASE RequestTermination
  BY <1>4, CreateType, KindsDistinct DEF RequestTermination, TypeOK, registration
<1>5. CASE MakePublic
  BY <1>5 DEF MakePublic, TypeOK, clock
<1>6. CASE MakePrivate
  BY <1>6 DEF MakePrivate, TypeOK, clock
<1>7. CASE ChangeEmbargoDate
  BY <1>7, CreateType, KindsDistinct DEF ChangeEmbargoDate, TypeOK
<1>8. ASSUME NEW k \in Kinds, Elapse(k) PROVE TypeOK'
  BY <1>8 DEF Elapse, TypeOK, registration
<1>9. CASE EndDatePasses
  BY <1>9 DEF EndDatePasses, TypeOK, registration
<1>10. ASSUME NEW k \in Kinds, Fetch(k) PROVE TypeOK'
  BY <1>10 DEF Fetch, TypeOK, registration, clock
<1>11. ASSUME NEW k \in Kinds, RunJob(k) PROVE TypeOK'
  BY <1>11, RunJobType
<1>12. CASE JobDone
  BY <1>12 DEF JobDone, TypeOK, registration, clock
<1>13. CASE ArchiveSuccess
  BY <1>13 DEF ArchiveSuccess, TypeOK, registration, clock
<1>14. CASE ArchiveFailure
  <2>1. [row EXCEPT ![sanction].state = REJECTED] \in [Kinds -> Row]
    BY DecidedIsRow DEF TypeOK, Row, States
  <2> QED
    BY <1>14, <2>1 DEF ArchiveFailure, DeleteTree, TypeOK, clock
<1>15. CASE RemoveStuckRegistration
  BY <1>15 DEF RemoveStuckRegistration, DeleteTree, TypeOK, clock
<1>16. CASE UNCHANGED vars
  BY <1>16 DEF vars, TypeOK
<1> QED
  BY <1>1, <1>2, <1>3, <1>4, <1>5, <1>6, <1>7, <1>8, <1>9, <1>10, <1>11, <1>12,
     <1>13, <1>14, <1>15, <1>16 DEF Next

(***************************************************************************)
(* Type correctness: whatever overlaps, every row that is written back is  *)
(* a row of its kind, and only in one of the four states.                  *)
(***************************************************************************)
THEOREM TypeCorrect == Spec => []TypeOK
BY InitType, NextType, PTL DEF Spec

-----------------------------------------------------------------------------
(***************************************************************************)
(* No minority decides.  What may be written back later has to be right    *)
(* when it is fetched and to stay right: a fetched row that still belongs  *)
(* to the registration carries the consent its state needs, and a row that *)
(* is created later has a key no fetched row has.                          *)
(***************************************************************************)

Consent(k, s) == s.yes = Admins \/ waited[k]

FetchedKeys ==
    /\ \A k \in Kinds : row[k].id <= created[k] /\ job[k].id <= created[k]
    /\ \A r \in Requests : req[r].snap.id <= created[req[r].kind]

FetchedLinks ==
    \A r \in Requests :
        LET k == req[r].kind
            s == req[r].snap
        IN  Attached(k, s) /\ s.state \in {APPROVED, COMPLETED} => Consent(k, s)

FetchedJobs == \A k \in Kinds : Attached(k, job[k]) => Consent(k, job[k])

Fetched == FetchedKeys /\ FetchedLinks /\ FetchedJobs

ConsentInv == TypeOK /\ NoMinorityApproval /\ Fetched

LEMMA InitConsent == Init => ConsentInv
<1> SUFFICES ASSUME Init PROVE ConsentInv
  OBVIOUS
<1> PICK first \in Firsts :
        /\ row = [k \in Kinds |-> IF k = first THEN NewRow(1, FALSE) ELSE NoRow]
        /\ created = [k \in Kinds |-> IF k = first THEN 1 ELSE 0]
  BY DEF Init
<1>1. NoRow.id = 0 /\ NoRow.state = "none" /\ NewRow(1, FALSE).id = 1
      /\ NewRow(1, FALSE).state = UNAPPROVED
  BY DEF NoRow, NewRow
<1>2. Idle.snap.id = 0 /\ Idle.kind \in Kinds
  BY <1>1, KindsDistinct DEF Idle
<1>3. NoMinorityApproval
  BY <1>1 DEF NoMinorityApproval, UNAPPROVED, APPROVED, COMPLETED
<1>4. FetchedKeys
  <2>1. ASSUME NEW k \in Kinds
        PROVE  row[k].id = created[k] /\ created[k] \in Nat
    <3>1. /\ row[k] = IF k = first THEN NewRow(1, FALSE) ELSE NoRow
          /\ created[k] = IF k = first THEN 1 ELSE 0
      OBVIOUS
    <3> QED  BY <3>1, <1>1
  <2>2. \A k \in Kinds : job[k].id = 0
    <3>1. job = [k \in Kinds |-> NoRow]
      BY DEF Init
    <3> QED  BY <1>1, <3>1
  <2>3. \A r \in Requests : req[r] = Idle
    <3>1. req = [r \in Requests |-> Idle]
      BY DEF Init
    <3> QED  BY <3>1
  <2>4. ASSUME NEW k \in Kinds
        PROVE  row[k].id <= created[k] /\ job[k].id <= created[k]
    <3>1. row[k].id = created[k] /\ created[k] \in Nat /\ job[k].id = 0
      BY <2>1, <2>2
    <3> QED  BY ONLY <3>1
  <2>5. ASSUME NEW r \in Requests
        PROVE  req[r].snap.id <= created[req[r].kind]
    <3>1. req[r].snap.id = 0 /\ req[r].kind \in Kinds
      BY <1>2, <2>3
    <3>2. created[req[r].kind] \in Nat
      BY <3>1, <2>1
    <3> QED  BY <3>1, <3>2
  <2> QED
    BY <2>4, <2>5 DEF FetchedKeys
<1>5. FetchedLinks
  BY <1>2 DEF FetchedLinks, Attached, Init
<1>6. FetchedJobs
  BY <1>1 DEF FetchedJobs, Attached, Init
<1> QED
  BY <1>3, <1>4, <1>5, <1>6, InitType DEF ConsentInv, Fetched

(***************************************************************************)
(* A step that creates no row and fetches none.                            *)
(***************************************************************************)
OnlyForgets ==
    /\ created' = created
    /\ \A k \in Kinds : row'[k].id \in {row[k].id, 0} /\ (waited[k] => waited'[k])
    /\ \A k \in Kinds : job'[k] \in {job[k], NoRow}
    /\ \A r \in Requests : req'[r] \in {req[r], Idle}

LEMMA ForgettingKeepsFetched ==
    ASSUME TypeOK, Fetched, OnlyForgets
    PROVE  Fetched'
<1>1. NoRow.id = 0 /\ Idle.snap.id = 0 /\ Idle.kind \in Kinds
  BY KindsDistinct DEF NoRow, Idle
<1>2. \A k \in Kinds : created[k] \in Nat /\ job[k].id \in Nat /\ row[k].id \in Nat
  BY DEF TypeOK, Row
<1>3. \A r \in Requests : req[r].kind \in Kinds /\ req[r].snap.id \in Nat
  BY DEF TypeOK, Request, Row
<1>4. FetchedKeys'
  <2>1. \A k \in Kinds : row'[k].id <= created'[k]
    BY <1>2 DEF Fetched, FetchedKeys, OnlyForgets
  <2>2. \A k \in Kinds : job'[k].id <= created'[k]
    BY <1>1, <1>2 DEF Fetched, FetchedKeys, OnlyForgets
  <2>3. ASSUME NEW r \in Requests PROVE req'[r].snap.id <= created'[req'[r].kind]
    <3>1. CASE req'[r] = req[r]
      BY <3>1 DEF Fetched, FetchedKeys, OnlyForgets
    <3>2. CASE req'[r] = Idle
      BY <3>2, <1>1, <1>2 DEF OnlyForgets
    <3> QED  BY <3>1, <3>2 DEF OnlyForgets
  <2> QED
    BY <2>1, <2>2, <2>3 DEF FetchedKeys
<1>5. FetchedLinks'
  <2> SUFFICES ASSUME NEW r \in Requests,
                      Attached(req[r].kind, req[r].snap)',
                      req'[r].snap.state \in {APPROVED, COMPLETED}
               PROVE  Consent(req[r].kind, req[r].snap)'
    BY DEF FetchedLinks
  <2>1. req'[r] = req[r]
    BY <1>1 DEF Attached, OnlyForgets
  <2>2. Attached(req[r].kind, req[r].snap)
    BY <2>1, <1>3 DEF Attached, OnlyForgets
  <2>3. Consent(req[r].kind, req[r].snap)
    BY <2>1, <2>2 DEF Fetched, FetchedLinks
  <2> QED
    BY <2>1, <2>3, <1>3 DEF Consent, OnlyForgets
<1>6. FetchedJobs'
  <2> SUFFICES ASSUME NEW k \in Kinds, Attached(k, job[k])'
               PROVE  Consent(k, job[k])'
    BY DEF FetchedJobs
  <2>1. job'[k] = job[k]
    BY <1>1 DEF Attached, OnlyForgets
  <2>2. Attached(k, job[k])
    BY <2>1 DEF Attached, OnlyForgets
  <2> QED
    BY <2>1, <2>2 DEF Fetched, FetchedJobs, Consent, OnlyForgets
<1> QED
  BY <1>4, <1>5, <1>6 DEF Fetched

(***************************************************************************)
(* A completion leaves the keys alone, and consent is needed of the row it *)
(* completes only: the embargo that an approved request ends had its own.  *)
(***************************************************************************)
LEMMA CompleteConsent ==
    ASSUME TypeOK, NoMinorityApproval, NEW k \in Kinds, NEW s \in Row,
           Attached(k, s), Consent(k, s), CanComplete(k, s), Complete(k, s),
           waited' = waited
    PROVE  /\ NoMinorityApproval'
           /\ \A m \in Kinds : row'[m].id = row[m].id
<1> SUFFICES ASSUME NEW m \in Kinds
             PROVE  /\ row'[m].id = row[m].id
                    /\ row'[m].state \in {APPROVED, COMPLETED} =>
                          row'[m].yes = Admins \/ waited'[m]
  BY DEF NoMinorityApproval
<1>1. row' = After(k, s) /\ row \in [Kinds -> Row]
  BY DEF Complete, TypeOK
<1>2. CASE k = Termination
  <2>1. row' = [row EXCEPT ![k] = s, ![Embargo] = [row[Embargo] EXCEPT !.state = COMPLETED]]
    BY <1>1, <1>2, KindsDistinct DEF After
  <2>2. row[Embargo].state = APPROVED
    BY <1>2 DEF CanComplete, is_embargoed
  <2>3. CASE m = Embargo
    BY <2>1, <2>2, <2>3, <1>1, <1>2, KindsDistinct DEF NoMinorityApproval, Row
  <2>4. CASE m # Embargo
    BY <2>1, <2>4, <1>1 DEF NoMinorityApproval, Attached, Consent
  <2> QED  BY <2>3, <2>4
<1>3. CASE k = Retraction
  <2>1. row' = [row EXCEPT ![k] = [s EXCEPT !.dated = TRUE],
                           ![Embargo] = [row[Embargo] EXCEPT !.state =
                              IF @ \in {UNAPPROVED, APPROVED} THEN REJECTED ELSE @]]
    BY <1>1, <1>3, KindsDistinct DEF After
  <2>2. CASE m = Embargo
    <3>1. /\ row'[m].id = row[m].id
          /\ row'[m].yes = row[m].yes
          /\ row'[m].state \in {REJECTED, row[m].state}
      BY <2>1, <2>2, <1>1, KindsDistinct DEF Row
    <3> QED
      BY <3>1 DEF NoMinorityApproval, REJECTED, APPROVED, COMPLETED
  <2>3. CASE m = k
    <3>1. row'[m] = [s EXCEPT !.dated = TRUE]
      BY <2>1, <2>3, <1>1, <1>3, KindsDistinct
    <3>2. row'[m].id = s.id /\ row'[m].yes = s.yes
      BY <3>1 DEF Row
    <3> QED
      BY <3>2, <2>3 DEF Attached, Consent
  <2>4. CASE m # Embargo /\ m # k
    BY <2>1, <2>4, <1>1 DEF NoMinorityApproval
  <2> QED  BY <2>2, <2>3, <2>4
<1>4. CASE k # Termination /\ k # Retraction
  <2>1. row' = [row EXCEPT ![k] = s]
    BY <1>1, <1>4 DEF After
  <2> QED
    BY <2>1, <1>1 DEF NoMinorityApproval, Attached, Consent
<1> QED  BY <1>2, <1>3, <1>4

LEMMA SaveConsent ==
    ASSUME TypeOK, NoMinorityApproval, NEW k \in Kinds, NEW s \in Row,
           Attached(k, s), Save(k, s), waited' = waited,
           s.state \in {APPROVED, COMPLETED} => Consent(k, s)
    PROVE  /\ NoMinorityApproval'
           /\ \A m \in Kinds : row'[m].id = row[m].id
BY DEF NoMinorityApproval, Save, Attached, Consent, TypeOK

LEMMA ApproveConsent ==
    ASSUME ConsentInv, NEW r \in Requests, Approve(r)
    PROVE  NoMinorityApproval' /\ OnlyForgets
<1> DEFINE k == req[r].kind
           s == [req[r].snap EXCEPT !.yes = @ \cup {req[r].user}]
           a == [s EXCEPT !.state = APPROVED]
<1>1. k \in Kinds /\ req[r].snap \in Row /\ req[r].user \in Admins
  BY DEF ConsentInv, TypeOK, Request, Approve
<1>2. s \in Row /\ s.id = req[r].snap.id /\ s.state = req[r].snap.state
      /\ s.yes = req[r].snap.yes \cup {req[r].user}
  BY <1>1, AnsweredIsRow DEF Row
<1>3. a \in Row /\ a.id = s.id /\ a.yes = s.yes
  BY <1>2, DecidedIsRow DEF States, Row
<1>4. Respond(r) /\ waited' = waited
  BY DEF Approve, Refuse, Respond, clock
<1>5. NoMinorityApproval' /\ \A m \in Kinds : row'[m].id = row[m].id
  <2>1. CASE Attached(k, s) /\ ~Unanimous(s) /\ Save(k, s)
    <3>1. Attached(k, req[r].snap)
      BY <2>1, <1>2 DEF Attached
    <3>2. s.state \in {APPROVED, COMPLETED} => Consent(k, req[r].snap)
      BY <3>1, <1>2 DEF ConsentInv, Fetched, FetchedLinks
    <3>3. req[r].snap.yes = Admins => s.yes = Admins
      BY <1>1, <1>2
    <3>4. s.state \in {APPROVED, COMPLETED} => Consent(k, s)
      BY <3>2, <3>3 DEF Consent
    <3> QED
      BY <2>1, <3>4, <1>1, <1>2, <1>4, SaveConsent DEF ConsentInv
  <2>2. CASE Attached(k, s) /\ Unanimous(s) /\ CanComplete(k, a) /\ Complete(k, a)
    <3>1. Attached(k, a) /\ Consent(k, a)
      BY <2>2, <1>3 DEF Attached, Consent, Unanimous
    <3> QED
      BY <2>2, <3>1, <1>1, <1>3, <1>4, CompleteConsent DEF ConsentInv
  <2>3. CASE Refuse(r)
    BY <2>3, <1>4 DEF Refuse, ConsentInv, NoMinorityApproval
  <2> QED
    BY <2>1, <2>2, <2>3 DEF Approve
<1>6. OnlyForgets
  BY <1>4, <1>5 DEF OnlyForgets, Respond, clock, ConsentInv, TypeOK
<1> QED
  BY <1>5, <1>6

LEMMA RejectConsent ==
    ASSUME ConsentInv, NEW r \in Requests, Reject(r)
    PROVE  NoMinorityApproval' /\ OnlyForgets
<1> DEFINE k == req[r].kind
           s == [req[r].snap EXCEPT !.state = REJECTED]
<1>1. k \in Kinds /\ req[r].snap \in Row
  BY DEF ConsentInv, TypeOK, Request
<1>2. s \in Row /\ s.state \notin {APPROVED, COMPLETED}
  BY <1>1, DecidedIsRow DEF States, Row, APPROVED, COMPLETED, REJECTED
<1>3. Respond(r) /\ waited' = waited
  BY DEF Reject, Refuse, Respond, clock
<1>4. NoMinorityApproval' /\ \A m \in Kinds : row'[m].id \in {row[m].id, 0}
  <2>1. CASE Refuse(r)
    BY <2>1, <1>3 DEF Refuse, ConsentInv, NoMinorityApproval
  <2>2. CASE Save(k, NoRow)
    <3>1. NoRow.id = 0 /\ NoRow.state \notin {APPROVED, COMPLETED}
      BY DEF NoRow, APPROVED, COMPLETED
    <3> QED
      BY <2>2, <3>1, <1>1, <1>3 DEF Save, ConsentInv, NoMinorityApproval, TypeOK
  <2>3. CASE Attached(k, s) /\ Save(k, s)
    BY <2>3, <1>1, <1>2, <1>3, SaveConsent DEF ConsentInv
  <2> QED
    BY <2>1, <2>2, <2>3 DEF Reject
<1>5. OnlyForgets
  BY <1>3, <1>4 DEF OnlyForgets, Respond, clock, ConsentInv, TypeOK
<1> QED
  BY <1>4, <1>5

LEMMA RunJobConsent ==
    ASSUME ConsentInv, NEW k \in Kinds, RunJob(k)
    PROVE  NoMinorityApproval' /\ OnlyForgets
<1> DEFINE j == job[k]
<1>1. j \in Row
  BY DEF ConsentInv, TypeOK
<1>2. ASSUME NEW state \in States
      PROVE  /\ [j EXCEPT !.state = state] \in Row
             /\ [j EXCEPT !.state = state].yes = j.yes
             /\ [j EXCEPT !.state = state].id = j.id
  BY <1>1, DecidedIsRow DEF Row
<1>3. Attached(k, j) => Consent(k, j)
  BY DEF ConsentInv, Fetched, FetchedJobs
<1>4. Done(k)
  BY KindsDistinct DEF RunJob, ApproveRegistrations, EmbargoRegistrations,
        RetractRegistrations, ApproveEmbargoTerminations, Skip
<1>5. waited' = waited
  BY <1>4 DEF Done, clock
<1>6. \/ Skip(k)
      \/ \E state \in States : Attached(k, j) /\ Save(k, [j EXCEPT !.state = state])
      \/ /\ Attached(k, j)
         /\ CanComplete(k, [j EXCEPT !.state = APPROVED])
         /\ Complete(k, [j EXCEPT !.state = APPROVED])
  <2>1. CASE k = Approval /\ ApproveRegistrations
    BY <2>1 DEF ApproveRegistrations, States
  <2>2. CASE k = Embargo /\ EmbargoRegistrations
    BY <2>2 DEF EmbargoRegistrations, States
  <2>3. CASE k = Retraction /\ RetractRegistrations
    BY <2>3 DEF RetractRegistrations, States
  <2>4. CASE k = Termination /\ ApproveEmbargoTerminations
    BY <2>4 DEF ApproveEmbargoTerminations
  <2> QED
    BY <2>1, <2>2, <2>3, <2>4 DEF RunJob
<1>7. NoMinorityApproval' /\ \A m \in Kinds : row'[m].id = row[m].id
  <2>1. CASE Skip(k)
    BY <2>1, <1>5 DEF Skip, ConsentInv, NoMinorityApproval
  <2>2. ASSUME NEW state \in States, Attached(k, j), Save(k, [j EXCEPT !.state = state])
        PROVE  NoMinorityApproval' /\ \A m \in Kinds : row'[m].id = row[m].id
    <3> DEFINE s == [j EXCEPT !.state = state]
    <3>1. s \in Row /\ Attached(k, s) /\ Consent(k, s)
      BY <2>2, <1>2, <1>3 DEF Attached, Consent
    <3> QED
      BY <2>2, <3>1, <1>5, SaveConsent DEF ConsentInv
  <2>3. CASE /\ Attached(k, j)
             /\ CanComplete(k, [j EXCEPT !.state = APPROVED])
             /\ Complete(k, [j EXCEPT !.state = APPROVED])
    <3> DEFINE s == [j EXCEPT !.state = APPROVED]
    <3>1. APPROVED \in States
      BY DEF States
    <3>2. s \in Row /\ Attached(k, s) /\ Consent(k, s)
      BY <2>3, <3>1, <1>2, <1>3 DEF Attached, Consent
    <3> QED
      BY <2>3, <3>2, <1>5, CompleteConsent DEF ConsentInv
  <2> QED
    BY <1>6, <2>1, <2>2, <2>3
<1>8. OnlyForgets
  BY <1>4, <1>7 DEF OnlyForgets, Done, clock, ConsentInv, TypeOK
<1> QED
  BY <1>7, <1>8

(***************************************************************************)
(* A new row has a key that nothing fetched can have.                      *)
(***************************************************************************)
LEMMA CreateConsent ==
    ASSUME ConsentInv, NEW k \in Kinds, NEW existing \in BOOLEAN, Create(k, existing),
           req' = req, job' = job
    PROVE  NoMinorityApproval' /\ Fetched'
<1>1. \A m \in Kinds : created[m] \in Nat /\ row[m].id \in Nat /\ job[m].id \in Nat
  BY DEF ConsentInv, TypeOK, Row
<1>2. \A r \in Requests : req[r].kind \in Kinds /\ req[r].snap.id \in Nat
  BY DEF ConsentInv, TypeOK, Request, Row
<1>3. /\ row'[k].id = created[k] + 1
      /\ row'[k].state = UNAPPROVED
      /\ created'[k] = created[k] + 1
  BY DEF Create, ConsentInv, TypeOK, NewRow
<1>4. \A m \in Kinds \ {k} :
         row'[m] = row[m] /\ created'[m] = created[m] /\ waited'[m] = waited[m]
  BY DEF Create, ConsentInv, TypeOK
<1>5. NoMinorityApproval'
  BY <1>3, <1>4 DEF NoMinorityApproval, ConsentInv, UNAPPROVED, APPROVED, COMPLETED
<1>6. \A m \in Kinds, id \in Nat : id <= created[m] => id <= created'[m]
  BY <1>1, <1>3, <1>4
<1>7. FetchedKeys'
  <2>1. \A m \in Kinds : row'[m].id <= created'[m]
    BY <1>1, <1>3, <1>4 DEF ConsentInv, Fetched, FetchedKeys
  <2> QED
    BY <2>1, <1>1, <1>2, <1>6 DEF ConsentInv, Fetched, FetchedKeys
<1>8. ASSUME NEW m \in Kinds, NEW s, s.id \in Nat, s.id <= created[m], Attached(m, s)'
      PROVE  m # k /\ Attached(m, s)
  BY <1>1, <1>3, <1>4, <1>8 DEF Attached
<1>9. FetchedLinks'
  BY <1>2, <1>4, <1>8 DEF ConsentInv, Fetched, FetchedKeys, FetchedLinks, Consent
<1>10. FetchedJobs'
  BY <1>1, <1>4, <1>8 DEF ConsentInv, Fetched, FetchedKeys, FetchedJobs, Consent
<1> QED
  BY <1>5, <1>7, <1>9, <1>10 DEF Fetched

LEMMA NextConsent == ConsentInv /\ [Next]_vars => ConsentInv'
<1> SUFFICES ASSUME ConsentInv, [Next]_vars PROVE ConsentInv'
  OBVIOUS
<1>1. TypeOK'
  BY NextType DEF ConsentInv
<1>2. ASSUME NoMinorityApproval', OnlyForgets PROVE ConsentInv'
  BY <1>1, <1>2, ForgettingKeepsFetched DEF ConsentInv
<1>3. ASSUME row' = row, created' = created, waited' = waited, req' = req, job' = job
      PROVE  ConsentInv'
  BY <1>2, <1>3 DEF OnlyForgets, ConsentInv, NoMinorityApproval
<1>4. ASSUME NoMinorityApproval', Fetched' PROVE ConsentInv'
  BY <1>1, <1>4 DEF ConsentInv
<1>5. ASSUME NEW r \in Requests, NEW k \in Kinds, NEW verb \in {"approve", "reject"},
             NEW u \in Admins, Load(r, k, verb, u)
      PROVE  ConsentInv'
  <2>1. /\ row' = row /\ created' = created /\ waited' = waited /\ job' = job
        /\ req'[r].kind = k /\ req'[r].snap = row[k]
        /\ \A q \in Requests \ {r} : req'[q] = req[q]
    BY <1>5 DEF Load, clock, ConsentInv, TypeOK
  <2>2. NoMinorityApproval'
    BY <2>1 DEF ConsentInv, NoMinorityApproval
  <2>3. FetchedKeys'
    BY <2>1 DEF ConsentInv, Fetched, FetchedKeys
  <2>4. FetchedLinks'
    BY <2>1 DEF ConsentInv, Fetched, FetchedLinks, NoMinorityApproval, Attached, Consent
  <2>5. FetchedJobs'
    BY <2>1 DEF ConsentInv, Fetched, FetchedJobs, Attached, Consent
  <2> QED
    BY <1>4, <2>2, <2>3, <2>4, <2>5 DEF Fetched
<1>6. ASSUME NEW r \in Requests, Serve(r) PROVE ConsentInv'
  BY <1>2, <1>6, ApproveConsent, RejectConsent DEF Serve
<1>7. CASE RetractRegistration
  BY <1>4, <1>7, CreateConsent, KindsDistinct DEF RetractRegistration
<1>8. CASE RequestTermination
  BY <1>4, <1>8, CreateConsent, KindsDistinct DEF RequestTermination
<1>9. CASE MakePublic \/ MakePrivate \/ EndDatePasses \/ JobDone \/ ArchiveSuccess
  BY <1>3, <1>9 DEF MakePublic, MakePrivate, EndDatePasses, JobDone, ArchiveSuccess, clock
<1>10. CASE ChangeEmbargoDate
  BY <1>4, <1>10, CreateConsent, KindsDistinct DEF ChangeEmbargoDate
<1>11. ASSUME NEW k \in Kinds, Elapse(k) PROVE ConsentInv'
  <2>1. /\ row' = row /\ created' = created /\ req' = req /\ job' = job
        /\ \A m \in Kinds : waited[m] => waited'[m]
    BY <1>11 DEF Elapse, ConsentInv, TypeOK
  <2>2. NoMinorityApproval'
    BY <2>1 DEF ConsentInv, NoMinorityApproval
  <2>3. OnlyForgets
    BY <2>1 DEF OnlyForgets
  <2> QED
    BY <1>2, <2>2, <2>3
<1>12. ASSUME NEW k \in Kinds, Fetch(k) PROVE ConsentInv'
  <2>1. /\ row' = row /\ created' = created /\ waited' = waited /\ req' = req
        /\ job'[k] = row[k]
        /\ \A m \in Kinds \ {k} : job'[m] = job[m]
    BY <1>12 DEF Fetch, clock, ConsentInv, TypeOK
  <2>2. NoMinorityApproval'
    BY <2>1 DEF ConsentInv, NoMinorityApproval
  <2>3. FetchedKeys'
    BY <2>1 DEF ConsentInv, Fetched, FetchedKeys
  <2>4. FetchedLinks'
    BY <2>1 DEF ConsentInv, Fetched, FetchedLinks, Attached, Consent
  <2>5. Consent(k, row[k])
    BY <1>12 DEF Fetch, Due, is_pending, Consent, ConsentInv, NoMinorityApproval
  <2>6. FetchedJobs'
    BY <2>1, <2>5 DEF ConsentInv, Fetched, FetchedJobs, Attached, Consent
  <2> QED
    BY <1>4, <2>2, <2>3, <2>4, <2>6 DEF Fetched
<1>13. ASSUME NEW k \in Kinds, RunJob(k) PROVE ConsentInv'
  BY <1>2, <1>13, RunJobConsent
<1>14. CASE ArchiveFailure
  <2>1. /\ created' = created /\ waited' = waited /\ req' = req /\ job' = job
        /\ \A m \in Kinds : /\ row'[m].id = row[m].id
                            /\ row'[m].yes = row[m].yes
                            /\ row'[m].state \in {REJECTED, row[m].state}
    BY <1>14 DEF ArchiveFailure, clock, ConsentInv, TypeOK, Row
  <2>2. NoMinorityApproval'
    BY <2>1 DEF ConsentInv, NoMinorityApproval, REJECTED, APPROVED, COMPLETED
  <2>3. OnlyForgets
    BY <2>1 DEF OnlyForgets
  <2> QED
    BY <1>2, <2>2, <2>3
<1>15. CASE RemoveStuckRegistration \/ UNCHANGED vars
  BY <1>3, <1>15 DEF RemoveStuckRegistration, clock, vars
<1> QED
  BY <1>5, <1>6, <1>7, <1>8, <1>9, <1>10, <1>11, <1>12, <1>13, <1>14, <1>15 DEF Next

(***************************************************************************)
(* No minority decides, however many administrators, workers and rows: a   *)
(* sanction that took effect has the approval of every administrator or    *)
(* has waited its 48 hours, although what is written back may be stale.    *)
(***************************************************************************)
THEOREM NoMinorityDecides == Spec => []NoMinorityApproval
<1>1. Init => ConsentInv
  BY InitConsent
<1>2. ConsentInv /\ [Next]_vars => ConsentInv'
  BY NextConsent
<1>3. ConsentInv => NoMinorityApproval
  BY DEF ConsentInv
<1> QED
  BY <1>1, <1>2, <1>3, PTL DEF Spec

-----------------------------------------------------------------------------
(***************************************************************************)
(* Cancellation.  As long as no embargo is put on an existing registration *)
(* a cancelled registration has lost its source project, and everything    *)
(* that publishes needs the source project or looks at is_deleted.         *)
(***************************************************************************)

NoExisting ==
    /\ \A k \in Kinds : ~row[k].existing /\ ~job[k].existing
    /\ \A r \in Requests : ~req[r].snap.existing

CancelInv == TypeOK /\ NoExisting /\ (deleted => ~linked)

(***************************************************************************)
(* What a step may do to the registration: leave it, publish one that is   *)
(* not cancelled, hide it, or cancel it; and only the rejection of an      *)
(* approval cancels one that is public and archived.                       *)
(***************************************************************************)
Publish == ~deleted /\ UNCHANGED <<deleted, linked>>
Hide    == ~public' /\ UNCHANGED <<deleted, linked>>
Cancel  == /\ deleted' /\ ~linked'
           /\ UNCHANGED public
           /\ ~public \/ row[Approval].id # 0 \/ archive # "success"

Lawful == UNCHANGED registration \/ Publish \/ Hide \/ Cancel

LEMMA LawfulKeeps ==
    ASSUME CancelInv, Lawful
    PROVE  /\ (deleted => ~linked)'
           /\ deleted /\ ~public => ~public'
           /\ public /\ ~deleted /\ archive = "success" /\ row[Approval].id = 0 => ~deleted'
BY DEF CancelInv, Lawful, Publish, Hide, Cancel, registration

LEMMA InitCancel == Init => CancelInv
<1> SUFFICES ASSUME Init PROVE CancelInv
  OBVIOUS
<1> PICK first \in Firsts :
        row = [k \in Kinds |-> IF k = first THEN NewRow(1, FALSE) ELSE NoRow]
  BY DEF Init
<1>1. NoRow.existing = FALSE /\ NewRow(1, FALSE).existing = FALSE
      /\ Idle.snap.existing = FALSE
  BY DEF NoRow, NewRow, Idle
<1>2. NoExisting
  BY <1>1 DEF NoExisting, Init
<1> QED
  BY <1>2, InitType DEF CancelInv, Init

LEMMA CompleteLawful ==
    ASSUME CancelInv, NEW k \in Kinds, NEW s \in Row, ~s.existing,
           CanComplete(k, s), Complete(k, s)
    PROVE  /\ Publish
           /\ \A m \in Kinds : ~row'[m].existing
<1>1. Publish
  BY DEF CanComplete, Complete, CancelInv, Publish
<1>2. row' = After(k, s) /\ row \in [Kinds -> Row]
  BY DEF Complete, CancelInv, TypeOK
<1>3. \A m \in Kinds : ~row[m].existing
  BY DEF CancelInv, NoExisting
<1>4. ASSUME NEW m \in Kinds
      PROVE  ~row'[m].existing
  <2>1. CASE k = Termination
    BY <1>2, <1>3, <2>1, KindsDistinct DEF After, Row
  <2>2. CASE k = Retraction
    <3>1. row' = [row EXCEPT ![k] = [s EXCEPT !.dated = TRUE],
                             ![Embargo] = [row[Embargo] EXCEPT !.state =
                                IF @ \in {UNAPPROVED, APPROVED} THEN REJECTED ELSE @]]
      BY <1>2, <2>2, KindsDistinct DEF After
    <3>2. [s EXCEPT !.dated = TRUE].existing = s.existing
      BY DEF Row
    <3>3. CASE m = k
      BY <1>2, <2>2, <3>1, <3>2, <3>3, KindsDistinct
    <3>4. CASE m = Embargo
      BY <1>2, <1>3, <3>1, <3>4, KindsDistinct DEF Row
    <3>5. CASE m # k /\ m # Embargo
      BY <1>2, <1>3, <3>1, <3>5
    <3> QED  BY <3>3, <3>4, <3>5
  <2>3. CASE k # Termination /\ k # Retraction
    BY <1>2, <1>3, <2>3 DEF After
  <2> QED  BY <2>1, <2>2, <2>3
<1> QED
  BY <1>1, <1>4

LEMMA SaveLawful ==
    ASSUME CancelInv, NEW k \in Kinds, NEW s \in Row, ~s.existing, Save(k, s),
           UNCHANGED registration \/ Lawful
    PROVE  Lawful /\ \A m \in Kinds : ~row'[m].existing
BY DEF CancelInv, NoExisting, TypeOK, Save, Lawful

LEMMA DeleteTreeUnlinks == CancelInv /\ DeleteTree => deleted' /\ ~linked'
BY KindsDistinct DEF CancelInv, NoExisting, DeleteTree

(***************************************************************************)
(* What every step has to keep, one conjunct for each of the facts above.  *)
(***************************************************************************)
Kept ==
    /\ Lawful
    /\ NoExisting'

LEMMA ApproveKept ==
    ASSUME CancelInv, NEW r \in Requests, Approve(r)
    PROVE  Kept
<1> DEFINE k == req[r].kind
           s == [req[r].snap EXCEPT !.yes = @ \cup {req[r].user}]
           a == [s EXCEPT !.state = APPROVED]
<1>1. k \in Kinds /\ req[r].snap \in Row /\ req[r].user \in Admins
  BY DEF CancelInv, TypeOK, Request, Approve
<1>2. s \in Row /\ ~s.existing
  BY <1>1, AnsweredIsRow DEF Row, CancelInv, NoExisting
<1>3. a \in Row /\ ~a.existing
  BY <1>2, DecidedIsRow DEF States, Row
<1>4. Respond(r)
  BY DEF Approve, Refuse
<1>5. /\ Lawful
      /\ \A m \in Kinds : ~row'[m].existing
  <2>1. CASE Attached(k, s) /\ Save(k, s) /\ UNCHANGED registration
    BY <2>1, <1>1, <1>2, SaveLawful
  <2>2. CASE Attached(k, s) /\ CanComplete(k, a) /\ Complete(k, a)
    BY <2>2, <1>1, <1>3, CompleteLawful DEF Lawful
  <2>3. CASE Refuse(r)
    BY <2>3 DEF Refuse, Lawful, CancelInv, NoExisting
  <2> QED
    BY <2>1, <2>2, <2>3 DEF Approve
<1>6. \A q \in Requests : ~req'[q].snap.existing
  BY <1>4 DEF Respond, Idle, NoRow, CancelInv, NoExisting, TypeOK
<1> QED
  BY <1>4, <1>5, <1>6 DEF Kept, Respond, NoExisting, CancelInv

LEMMA RejectKept ==
    ASSUME CancelInv, NEW r \in Requests, Reject(r)
    PROVE  Kept
<1> DEFINE k == req[r].kind
           s == [req[r].snap EXCEPT !.state = REJECTED]
<1>1. k \in Kinds /\ req[r].snap \in Row
  BY DEF CancelInv, TypeOK, Request
<1>2. s \in Row /\ ~s.existing
  BY <1>1, DecidedIsRow DEF Row, States, CancelInv, NoExisting
<1>3. NoRow \in Row /\ ~NoRow.existing
  BY NoRowIsRow DEF NoRow
<1>4. Respond(r)
  BY DEF Reject, Refuse
<1>5. /\ Lawful
      /\ \A m \in Kinds : ~row'[m].existing
  <2>1. CASE Refuse(r)
    BY <2>1 DEF Refuse, Lawful, CancelInv, NoExisting
  <2>2. CASE k = Termination /\ Save(k, NoRow) /\ UNCHANGED registration
    BY <2>2, <1>1, <1>3, SaveLawful
  <2>3. CASE /\ Attached(k, s) /\ ~RejectRaises(k)
             /\ k = Approval \/ k = Embargo
             /\ Save(k, s) /\ DeleteTree /\ UNCHANGED public
    <3>1. ~public \/ row[Approval].id # 0
      BY <2>3 DEF RejectRaises, Attached
    <3>2. Lawful
      BY <2>3, <3>1, DeleteTreeUnlinks DEF Lawful, Cancel
    <3> QED
      BY <2>3, <3>2, <1>1, <1>2, SaveLawful
  <2>4. CASE Attached(k, s) /\ Save(k, s) /\ UNCHANGED registration
    BY <2>4, <1>1, <1>2, SaveLawful
  <2> QED
    BY <2>1, <2>2, <2>3, <2>4 DEF Reject
<1>6. \A q \in Requests : ~req'[q].snap.existing
  BY <1>4 DEF Respond, Idle, NoRow, CancelInv, NoExisting, TypeOK
<1> QED
  BY <1>4, <1>5, <1>6 DEF Kept, Respond, NoExisting, CancelInv

LEMMA RunJobKept ==
    ASSUME CancelInv, NEW k \in Kinds, RunJob(k)
    PROVE  Kept
<1> DEFINE j == job[k]
<1>1. j \in Row /\ ~j.existing
  BY DEF CancelInv, TypeOK, NoExisting
<1>2. ASSUME NEW state \in States
      PROVE  /\ [j EXCEPT !.state = state] \in Row
             /\ ~[j EXCEPT !.state = state].existing
             /\ [j EXCEPT !.state = state].id = j.id
  BY <1>1, DecidedIsRow DEF Row
<1>3. Done(k)
  BY KindsDistinct DEF RunJob, ApproveRegistrations, EmbargoRegistrations,
        RetractRegistrations, ApproveEmbargoTerminations, Skip
<1>4. \/ Skip(k)
      \/ /\ \E state \in States : Attached(k, j) /\ Save(k, [j EXCEPT !.state = state])
         /\ UNCHANGED registration \/ (~deleted /\ UNCHANGED <<deleted, linked>>)
      \/ /\ Attached(k, j)
         /\ CanComplete(k, [j EXCEPT !.state = APPROVED])
         /\ Complete(k, [j EXCEPT !.state = APPROVED])
  <2>1. CASE k = Approval /\ ApproveRegistrations
    BY <2>1 DEF ApproveRegistrations, States
  <2>2. CASE k = Embargo /\ EmbargoRegistrations
    BY <2>2 DEF EmbargoRegistrations, States
  <2>3. CASE k = Retraction /\ RetractRegistrations
    BY <2>3 DEF RetractRegistrations, States
  <2>4. CASE k = Termination /\ ApproveEmbargoTerminations
    BY <2>4 DEF ApproveEmbargoTerminations
  <2> QED
    BY <2>1, <2>2, <2>3, <2>4 DEF RunJob
<1>5. /\ Lawful
      /\ \A m \in Kinds : ~row'[m].existing
  <2>1. CASE Skip(k)
    BY <2>1 DEF Skip, Lawful, CancelInv, NoExisting
  <2>2. ASSUME NEW state \in States, Attached(k, j), Save(k, [j EXCEPT !.state = state]),
               UNCHANGED registration \/ (~deleted /\ UNCHANGED <<deleted, linked>>)
        PROVE  /\ Lawful
               /\ \A m \in Kinds : ~row'[m].existing
    <3> DEFINE s == [j EXCEPT !.state = state]
    <3>1. s \in Row /\ ~s.existing
      BY <1>2
    <3>2. Lawful
      BY <2>2 DEF Lawful, Publish
    <3> QED
      BY <2>2, <3>1, <3>2, SaveLawful
  <2>3. CASE /\ Attached(k, j)
             /\ CanComplete(k, [j EXCEPT !.state = APPROVED])
             /\ Complete(k, [j EXCEPT !.state = APPROVED])
    <3> DEFINE s == [j EXCEPT !.state = APPROVED]
    <3>1. APPROVED \in States
      BY DEF States
    <3>2. s \in Row /\ ~s.existing
      BY <3>1, <1>2
    <3> QED
      BY <2>3, <3>2, CompleteLawful DEF Lawful
  <2> QED
    BY <1>4, <2>1, <2>2, <2>3
<1>6. \A m \in Kinds : ~job'[m].existing
  BY <1>3 DEF Done, NoRow, CancelInv, NoExisting, TypeOK
<1> QED
  BY <1>3, <1>5, <1>6 DEF Kept, Done, NoExisting, CancelInv

(***************************************************************************)
(* A new row other than that of an embargo is not for an existing          *)
(* registration.                                                           *)
(***************************************************************************)
LEMMA CreateKept ==
    ASSUME CancelInv, NEW k \in Kinds, Create(k, FALSE),
           UNCHANGED <<registration, archive, req, job>>
    PROVE  Kept
<1>1. NewRow(created[k] + 1, FALSE).existing = FALSE
  BY DEF NewRow
<1>2. \A m \in Kinds : ~row'[m].existing
  BY <1>1 DEF Create, CancelInv, TypeOK, NoExisting
<1> QED
  BY <1>2 DEF Kept, Lawful, NoExisting, CancelInv

LEMMA NextKept ==
    ASSUME MaxRows[Embargo] = 0, CancelInv, [Next]_vars
    PROVE  Kept
<1>1. ASSUME row' = row, req' = req, job' = job, Lawful
      PROVE  Kept
  BY <1>1 DEF Kept, CancelInv, NoExisting
<1>2. ASSUME NEW r \in Requests, NEW k \in Kinds, NEW verb \in {"approve", "reject"},
             NEW u \in Admins, Load(r, k, verb, u)
      PROVE  Kept
  <2>1. req'[r].snap = row[k] /\ \A q \in Requests \ {r} : req'[q] = req[q]
    BY <1>2 DEF Load, CancelInv, TypeOK
  <2> QED
    BY <1>2, <2>1 DEF Load, Kept, Lawful, CancelInv, NoExisting
<1>3. ASSUME NEW r \in Requests, Serve(r) PROVE Kept
  BY <1>3, ApproveKept, RejectKept DEF Serve
<1>4. CASE RetractRegistration
  BY <1>4, CreateKept, KindsDistinct DEF RetractRegistration
<1>5. CASE RequestTermination
  BY <1>5, CreateKept, KindsDistinct DEF RequestTermination
<1>6. CASE MakePublic
  BY <1>1, <1>6 DEF MakePublic, Lawful, Publish
<1>7. CASE MakePrivate
  BY <1>1, <1>7 DEF MakePrivate, Lawful, Hide
<1>8. CASE ChangeEmbargoDate
  <2>1. created[Embargo] \in Nat /\ created[Embargo] < 0
    BY <1>8, KindsDistinct DEF ChangeEmbargoDate, Create, CancelInv, TypeOK
  <2> QED
    BY <2>1
<1>9. ASSUME NEW k \in Kinds, Elapse(k) PROVE Kept
  BY <1>1, <1>9 DEF Elapse, Lawful
<1>10. CASE EndDatePasses
  BY <1>1, <1>10 DEF EndDatePasses, Lawful
<1>11. ASSUME NEW k \in Kinds, Fetch(k) PROVE Kept
  <2>1. job'[k] = row[k] /\ \A m \in Kinds \ {k} : job'[m] = job[m]
    BY <1>11 DEF Fetch, CancelInv, TypeOK
  <2> QED
    BY <1>11, <2>1 DEF Fetch, Kept, Lawful, CancelInv, NoExisting
<1>12. ASSUME NEW k \in Kinds, RunJob(k) PROVE Kept
  BY <1>12, RunJobKept
<1>13. CASE JobDone \/ ArchiveSuccess
  BY <1>13 DEF JobDone, ArchiveSuccess, Kept, Lawful, CancelInv, NoExisting
<1>14. CASE ArchiveFailure
  <2>1. deleted' /\ ~linked'
    BY <1>14, DeleteTreeUnlinks DEF ArchiveFailure
  <2>2. \A m \in Kinds : row'[m].id = row[m].id /\ row'[m].existing = row[m].existing
    BY <1>14 DEF ArchiveFailure, CancelInv, TypeOK, Row
  <2> QED
    BY <1>14, <2>1, <2>2, KindsDistinct
    DEF ArchiveFailure, Kept, Lawful, Cancel, CancelInv, NoExisting
<1>15. CASE RemoveStuckRegistration
  <2>1. Lawful
    BY <1>15, DeleteTreeUnlinks DEF RemoveStuckRegistration, Lawful, Cancel
  <2> QED
    BY <1>1, <1>15, <2>1 DEF RemoveStuckRegistration
<1>16. CASE UNCHANGED vars
  BY <1>1, <1>16 DEF vars, Lawful, registration
<1> QED
  BY <1>2, <1>3, <1>4, <1>5, <1>6, <1>7, <1>8, <1>9, <1>10, <1>11, <1>12, <1>13,
     <1>14, <1>15, <1>16 DEF Next

LEMMA NextCancel ==
    ASSUME MaxRows[Embargo] = 0, CancelInv, [Next]_vars
    PROVE  /\ CancelInv'
           /\ deleted /\ ~public => ~public'
           /\ public /\ ~deleted /\ archive = "success" /\ row[Approval].id = 0 => ~deleted'
<1>1. Kept
  BY NextKept
<1>2. TypeOK'
  BY NextType DEF CancelInv
<1> QED
  BY <1>1, <1>2, LawfulKeeps DEF Kept, CancelInv

(***************************************************************************)
(* Unless an embargo is put on it later, a registration that was cancelled *)
(* while it was private stays private, whatever overlaps: an approval that *)
(* fetched its sanction before the rejection finds no source project.      *)
(***************************************************************************)
THEOREM CancelledStaysPrivate ==
    ASSUME MaxRows[Embargo] = 0
    PROVE  Spec => NoResurrection
<1>1. Init => CancelInv
  BY InitCancel
<1>2. CancelInv /\ [Next]_vars => CancelInv'
  BY NextCancel
<1>3. CancelInv /\ [Next]_vars => [deleted /\ ~public => ~public']_vars
  BY NextCancel
<1> QED
  BY <1>1, <1>2, <1>3, PTL DEF Spec, NoResurrection

(***************************************************************************)
(* Unless an embargo is put on it later, a registration created under      *)
(* embargo is not cancelled once it is public and archived.                *)
(***************************************************************************)
THEOREM PublishedEmbargoStays ==
    ASSUME MaxRows[Embargo] = 0
    PROVE  Spec => PublishedEmbargoIsKept
<1>1. Init => CancelInv
  BY InitCancel
<1>2. CancelInv /\ [Next]_vars => CancelInv'
  BY NextCancel
<1>3. CancelInv /\ [Next]_vars =>
         [public /\ ~deleted /\ archive = "success" /\ row[Approval].id = 0 => ~deleted']_vars
  BY NextCancel
<1> QED
  BY <1>1, <1>2, <1>3, PTL DEF Spec, PublishedEmbargoIsKept

-----------------------------------------------------------------------------
(***************************************************************************)
(* What the two ways of writing a row do to the rows, field by field.      *)
(***************************************************************************)

LEMMA SaveRows ==
    ASSUME TypeOK, NEW k \in Kinds, NEW s \in Row, Save(k, s)
    PROVE  row'[k] = s /\ \A m \in Kinds \ {k} : row'[m] = row[m]
BY DEF TypeOK, Save

LEMMA CompleteRows ==
    ASSUME TypeOK, NEW k \in Kinds, NEW s \in Row, Complete(k, s)
    PROVE  /\ row'[k].id = s.id /\ row'[k].state = s.state /\ row'[k].yes = s.yes
           /\ row'[k].existing = s.existing
           /\ row'[k].dated = (s.dated \/ k = Retraction)
           /\ \A m \in Kinds \ {k, Embargo} : row'[m] = row[m]
           /\ row'[Embargo].id = IF k = Embargo THEN s.id ELSE row[Embargo].id
           /\ k # Embargo =>
                 /\ row'[Embargo].yes = row[Embargo].yes
                 /\ row'[Embargo].existing = row[Embargo].existing
           /\ k = Approval => row'[Embargo] = row[Embargo]
           /\ k = Termination => row'[Embargo].state = COMPLETED
           /\ k = Retraction =>
                 row'[Embargo].state = IF row[Embargo].state \in {UNAPPROVED, APPROVED}
                                       THEN REJECTED ELSE row[Embargo].state
<1>1. row' = After(k, s) /\ row \in [Kinds -> Row] /\ s \in Row
  BY DEF Complete, TypeOK
<1>2. CASE k = Termination
  <2>1. row' = [row EXCEPT ![k] = s, ![Embargo] = [row[Embargo] EXCEPT !.state = COMPLETED]]
    BY <1>1, <1>2, KindsDistinct DEF After
  <2>2. /\ row'[k] = s
        /\ row'[Embargo] = [row[Embargo] EXCEPT !.state = COMPLETED]
        /\ \A m \in Kinds \ {k, Embargo} : row'[m] = row[m]
    BY <2>1, <1>1, <1>2, KindsDistinct
  <2>3. s.dated \in BOOLEAN
    BY DEF Row
  <2> QED  BY <2>2, <2>3, <1>1, <1>2, KindsDistinct DEF Row
<1>3. CASE k = Retraction
  <2>1. row' = [row EXCEPT ![k] = [s EXCEPT !.dated = TRUE],
                           ![Embargo] = [row[Embargo] EXCEPT !.state =
                              IF @ \in {UNAPPROVED, APPROVED} THEN REJECTED ELSE @]]
    BY <1>1, <1>3, KindsDistinct DEF After
  <2>2. /\ row'[k] = [s EXCEPT !.dated = TRUE]
        /\ row'[Embargo] = [row[Embargo] EXCEPT !.state =
                              IF @ \in {UNAPPROVED, APPROVED} THEN REJECTED ELSE @]
        /\ \A m \in Kinds \ {k, Embargo} : row'[m] = row[m]
    BY <2>1, <1>1, <1>3, KindsDistinct
  <2> QED  BY <2>2, <1>1, <1>3, KindsDistinct DEF Row
<1>4. CASE k # Termination /\ k # Retraction
  <2>1. row' = [row EXCEPT ![k] = s]
    BY <1>1, <1>4 DEF After
  <2>2. s.dated \in BOOLEAN
    BY DEF Row
  <2> QED  BY <2>1, <2>2, <1>1, <1>4, KindsDistinct
<1> QED  BY <1>2, <1>3, <1>4

-----------------------------------------------------------------------------
(***************************************************************************)
(* The embargo.  As long as nobody else serves a link, a stale row cannot  *)
(* undo the end of an embargo and hide that it ended: only a link writes a *)
(* pending embargo back, and none is at work that fetched a completed one. *)
(***************************************************************************)

\* An embargo of its own is the only sanction the registration begins with.
NeverBoth == row[Embargo].id # 0 => row[Approval].id = 0

PendingIsOpen ==
    \A k \in Kinds : row[k].state = UNAPPROVED => row[k].id # 0 /\ row[k].yes # Admins

OnlyEmbargoesComplete == \A k \in Kinds \ {Embargo} : row[k].state # COMPLETED

\* A private embargoed registration is under embargo, unless it is cancelled.
EmbargoStands ==
    /\ row[Embargo].id # 0 /\ ~public /\ ~deleted => row[Embargo].state \in {UNAPPROVED, APPROVED}
    /\ row[Embargo].state = COMPLETED => public

JobsAreDue ==
    \A k \in Kinds : job[k].id # 0 =>
        \/ k = Embargo /\ job[k].state = APPROVED /\ ended
        \/ job[k].state = UNAPPROVED /\ job[k].yes # Admins

LinkIsCurrent(k, s) ==
    /\ s.state \in {UNAPPROVED, COMPLETED}
    /\ s.state = COMPLETED => k = Embargo /\ public /\ row[Embargo].state # UNAPPROVED
    /\ k \in {Termination, Retraction} /\ Attached(k, s) => row[k].yes # Admins

LinksAreCurrent ==
    \A r \in Requests : req[r].user # Nobody => LinkIsCurrent(req[r].kind, req[r].snap)

\* Only a link approves a request to end the embargo before its job does.
JobIsOvertaken ==
    Attached(Termination, job[Termination]) /\ row[Termination].state = APPROVED =>
        row[Termination].yes = Admins

StandInv ==
    /\ NeverBoth
    /\ PendingIsOpen
    /\ OnlyEmbargoesComplete
    /\ EmbargoStands
    /\ JobsAreDue
    /\ LinksAreCurrent
    /\ JobIsOvertaken

EmbargoInv == ConsentInv /\ CancelInv /\ StandInv

\* What EmbargoHolds says of one step.
HoldsOrEnds ==
    ~public /\ public' /\ row[Embargo].id # 0 =>
          \/ ended /\ row'[Embargo].state = COMPLETED
          \/ \E k \in {Termination, Retraction} :
                /\ row'[k] # row[k]
                /\ row'[k].state = APPROVED
                /\ row'[k].yes = Admins \/ (k = Termination /\ waited[k])

LEMMA InitEmbargo == Init => EmbargoInv
<1> SUFFICES ASSUME Init PROVE EmbargoInv
  OBVIOUS
<1> PICK first \in Firsts :
        row = [k \in Kinds |-> IF k = first THEN NewRow(1, FALSE) ELSE NoRow]
  BY DEF Init
<1>1. /\ NoRow.id = 0 /\ NoRow.state = "none" /\ NewRow(1, FALSE).id = 1
      /\ NewRow(1, FALSE).state = UNAPPROVED /\ NewRow(1, FALSE).yes = {}
      /\ Idle.user = Nobody
  BY DEF NoRow, NewRow, Idle
<1>2. \A k \in Kinds : row[k] \in {NewRow(1, FALSE), NoRow} /\ job[k] = NoRow
  <2>1. \A k \in Kinds : row[k] \in {NewRow(1, FALSE), NoRow}
    OBVIOUS
  <2>2. job = [k \in Kinds |-> NoRow]
    BY DEF Init
  <2> QED  BY <2>1, <2>2
<1>3. first \in {Approval, Embargo}
  BY ConstantsAssumption
<1>4. NeverBoth
  BY <1>1, <1>3, KindsDistinct DEF NeverBoth
<1>5. PendingIsOpen /\ OnlyEmbargoesComplete
  <2>1. ASSUME NEW k \in Kinds
        PROVE  /\ row[k].state = UNAPPROVED => row[k].id # 0 /\ row[k].yes # Admins
               /\ row[k].state # COMPLETED
    <3>1. CASE row[k] = NewRow(1, FALSE)
      <4>1. row[k].id = 1 /\ row[k].state = UNAPPROVED /\ row[k].yes = {}
        BY ONLY <1>1, <3>1
      <4>2. row[k].yes # Admins
        BY <4>1, ConstantsAssumption
      <4>3. UNAPPROVED # COMPLETED
        BY DEF UNAPPROVED, COMPLETED
      <4> QED  BY ONLY <4>1, <4>2, <4>3
    <3>2. CASE row[k] = NoRow
      BY ONLY <1>1, <3>2 DEF UNAPPROVED, COMPLETED
    <3> QED  BY <1>2, <3>1, <3>2
  <2> QED  BY <2>1 DEF PendingIsOpen, OnlyEmbargoesComplete
<1>6. EmbargoStands
  BY <1>1, <1>2, KindsDistinct DEF EmbargoStands, UNAPPROVED, COMPLETED
<1>7. JobsAreDue /\ JobIsOvertaken
  BY <1>1, <1>2, KindsDistinct DEF JobsAreDue, JobIsOvertaken, Attached
<1>8. LinksAreCurrent
  BY <1>1 DEF LinksAreCurrent, Init
<1> QED
  BY <1>4, <1>5, <1>6, <1>7, <1>8, InitConsent, InitCancel DEF EmbargoInv, StandInv

(***************************************************************************)
(* A worker that has answered serves nothing, and it was the only one.     *)
(***************************************************************************)
LEMMA AnsweredLinks ==
    ASSUME EmbargoInv, \A q, r \in Requests : q = r, NEW r \in Requests, Respond(r)
    PROVE  LinksAreCurrent' /\ job' = job /\ ended' = ended /\ archive' = archive
<1>1. Idle.user = Nobody
  BY DEF Idle
<1>2. req'[r].user = Nobody
  BY <1>1 DEF Respond, EmbargoInv, ConsentInv, TypeOK
<1> QED
  BY <1>2 DEF LinksAreCurrent, Respond, clock

LEMMA ApproveStands ==
    ASSUME EmbargoInv, \A q, r \in Requests : q = r, NEW r \in Requests, Approve(r)
    PROVE  StandInv' /\ HoldsOrEnds
<1> DEFINE k == req[r].kind
           s == [req[r].snap EXCEPT !.yes = @ \cup {req[r].user}]
           a == [s EXCEPT !.state = APPROVED]
<1>1. /\ TypeOK /\ k \in Kinds /\ req[r].snap \in Row /\ req[r].user \in Admins
      /\ req[r].user # Nobody
  BY DEF EmbargoInv, ConsentInv, TypeOK, Request, Approve
<1>2. s \in Row /\ s.id = req[r].snap.id /\ s.state = req[r].snap.state
      /\ s.yes = req[r].snap.yes \cup {req[r].user}
  BY <1>1, AnsweredIsRow DEF Row
<1>3. a \in Row /\ a.id = s.id /\ a.yes = s.yes /\ a.state = APPROVED
  BY <1>2, DecidedIsRow DEF States, Row
<1>4. Respond(r)
  BY DEF Approve, Refuse
<1>5. LinksAreCurrent' /\ job' = job /\ ended' = ended
  BY <1>4, AnsweredLinks
<1>6. LinkIsCurrent(k, req[r].snap)
  BY <1>1 DEF EmbargoInv, StandInv, LinksAreCurrent
<1>7. JobsAreDue'
  BY <1>5 DEF JobsAreDue, EmbargoInv, StandInv
<1>8. UNAPPROVED # APPROVED /\ UNAPPROVED # COMPLETED /\ APPROVED # COMPLETED
      /\ UNAPPROVED # REJECTED /\ COMPLETED # REJECTED
  BY DEF UNAPPROVED, APPROVED, COMPLETED, REJECTED
<1>9. CASE Attached(k, s) /\ ~Unanimous(s) /\ Save(k, s) /\ UNCHANGED registration
  <2>1. row'[k] = s /\ \A m \in Kinds \ {k} : row'[m] = row[m]
    BY <1>1, <1>2, <1>9, SaveRows
  <2>2. public' = public /\ deleted' = deleted /\ s.id = row[k].id /\ s.id # 0 /\ s.yes # Admins
    BY <1>9 DEF registration, Attached, Unanimous
  <2>3. NeverBoth'
    BY <2>1, <2>2, <1>1, KindsDistinct DEF EmbargoInv, StandInv, NeverBoth
  <2>4. PendingIsOpen'
    BY <2>1, <2>2, <1>1 DEF EmbargoInv, StandInv, PendingIsOpen
  <2>5. OnlyEmbargoesComplete'
    <3>1. k # Embargo => s.state # COMPLETED
      BY <1>2, <1>6 DEF LinkIsCurrent
    <3> QED
      BY <2>1, <3>1, <1>1 DEF EmbargoInv, StandInv, OnlyEmbargoesComplete
  <2>6. EmbargoStands'
    <3>1. CASE k # Embargo
      <4>1. row'[Embargo] = row[Embargo]
        BY <2>1, <3>1, KindsDistinct
      <4> QED
        BY <4>1, <2>2 DEF EmbargoInv, StandInv, EmbargoStands
    <3>2. CASE k = Embargo
      <4>1. /\ row'[Embargo].id = row[Embargo].id
            /\ row'[Embargo].state = UNAPPROVED \/ (row'[Embargo].state = COMPLETED /\ public)
        BY <2>1, <2>2, <3>2, <1>2, <1>6 DEF LinkIsCurrent
      <4> QED
        BY <4>1, <2>2, <1>8 DEF EmbargoStands
    <3> QED
      BY <3>1, <3>2
  <2>7. JobIsOvertaken'
    <3>1. s.state # APPROVED
      BY <1>2, <1>6, <1>8 DEF LinkIsCurrent
    <3>2. row'[Termination].state = APPROVED => row'[Termination] = row[Termination]
      BY <2>1, <3>1, KindsDistinct
    <3> QED
      BY <3>2, <1>5 DEF EmbargoInv, StandInv, JobIsOvertaken, Attached
  <2> QED
    BY <2>2, <2>3, <2>4, <2>5, <2>6, <2>7, <1>5, <1>7 DEF StandInv, HoldsOrEnds
<1>10. CASE Attached(k, s) /\ Unanimous(s) /\ CanComplete(k, a) /\ Complete(k, a)
  <2>1. /\ row'[k].id = a.id /\ row'[k].state = APPROVED /\ row'[k].yes = Admins
        /\ \A m \in Kinds \ {k, Embargo} : row'[m] = row[m]
        /\ row'[Embargo].id = IF k = Embargo THEN a.id ELSE row[Embargo].id
        /\ k = Approval => row'[Embargo] = row[Embargo]
        /\ k = Termination => row'[Embargo].state = COMPLETED
        /\ k = Retraction =>
              row'[Embargo].state = IF row[Embargo].state \in {UNAPPROVED, APPROVED}
                                    THEN REJECTED ELSE row[Embargo].state
    <3>1. s.yes = Admins
      BY <1>10 DEF Unanimous
    <3>2. TypeOK /\ k \in Kinds /\ Complete(k, a)
      BY <1>1, <1>10
    <3> HIDE DEF k, a
    <3> QED
      BY ONLY <3>1, <3>2, <1>3, CompleteRows
  <2>2. /\ public' = (public \/ k # Embargo) /\ deleted' = deleted
        /\ s.id = row[k].id /\ s.id # 0
    BY <1>10 DEF Complete, Publishes, Attached
  <2>3. \A m \in Kinds : row'[m].id = row[m].id
    BY <2>1, <2>2, <1>3, KindsDistinct
  <2>4. NeverBoth'
    BY <2>3, KindsDistinct DEF EmbargoInv, StandInv, NeverBoth
  <2>5. PendingIsOpen' /\ OnlyEmbargoesComplete'
    BY <2>1, <2>3, <1>1, <1>8, KindsDistinct
    DEF EmbargoInv, StandInv, PendingIsOpen, OnlyEmbargoesComplete, Kinds
  <2>6. EmbargoStands'
    BY <2>1, <2>2, <1>1, <1>8, KindsDistinct DEF EmbargoInv, StandInv, EmbargoStands
  <2>7. JobIsOvertaken'
    BY <2>1, <2>3, <1>1, <1>5, KindsDistinct DEF EmbargoInv, StandInv, JobIsOvertaken, Attached
  <2>8. HoldsOrEnds
    <3>1. CASE k = Embargo
      BY <2>2, <3>1, <1>1 DEF HoldsOrEnds, EmbargoInv, ConsentInv, TypeOK
    <3>2. CASE k = Approval
      BY <2>2, <3>2 DEF HoldsOrEnds, EmbargoInv, StandInv, NeverBoth
    <3>3. CASE k \in {Termination, Retraction}
      <4>1. row[k].yes # Admins
        BY <3>3, <2>2, <1>2, <1>6 DEF LinkIsCurrent, Attached
      <4> QED  BY <3>3, <4>1, <2>1 DEF HoldsOrEnds
    <3> QED  BY <3>1, <3>2, <3>3, <1>1 DEF Kinds
  <2> QED
    BY <2>4, <2>5, <2>6, <2>7, <2>8, <1>5, <1>7 DEF StandInv
<1>11. CASE Refuse(r)
  <2>1. row' = row /\ public' = public /\ deleted' = deleted
    BY <1>11 DEF Refuse, registration
  <2> QED
    BY <2>1, <1>5, <1>7 DEF EmbargoInv, StandInv, NeverBoth, PendingIsOpen,
       OnlyEmbargoesComplete, EmbargoStands, JobIsOvertaken, Attached, HoldsOrEnds
<1> QED
  BY <1>9, <1>10, <1>11 DEF Approve

LEMMA RejectStands ==
    ASSUME EmbargoInv, \A q, r \in Requests : q = r, NEW r \in Requests, Reject(r)
    PROVE  StandInv' /\ HoldsOrEnds
<1> DEFINE k == req[r].kind
           s == [req[r].snap EXCEPT !.state = REJECTED]
<1>1. TypeOK /\ k \in Kinds /\ req[r].snap \in Row
  BY DEF EmbargoInv, ConsentInv, TypeOK, Request
<1>2. s \in Row /\ s.state = REJECTED /\ s.id = req[r].snap.id /\ ~s.existing
  BY <1>1, DecidedIsRow DEF States, Row, EmbargoInv, CancelInv, NoExisting
<1>3. Respond(r)
  BY DEF Reject, Refuse
<1>4. LinksAreCurrent' /\ job' = job /\ ended' = ended
  BY <1>3, AnsweredLinks
<1>5. JobsAreDue'
  BY <1>4 DEF JobsAreDue, EmbargoInv, StandInv
<1>6. REJECTED \notin {UNAPPROVED, APPROVED, COMPLETED}
  BY DEF UNAPPROVED, APPROVED, COMPLETED, REJECTED
<1>7. CASE Refuse(r)
  <2>1. row' = row /\ public' = public /\ deleted' = deleted
    BY <1>7 DEF Refuse, registration
  <2> QED
    BY <2>1, <1>4, <1>5 DEF EmbargoInv, StandInv, NeverBoth, PendingIsOpen,
       OnlyEmbargoesComplete, EmbargoStands, JobIsOvertaken, Attached, HoldsOrEnds
<1>8. CASE k = Termination /\ Save(k, NoRow) /\ UNCHANGED registration
  <2>1. row'[Termination] = NoRow /\ \A m \in Kinds \ {Termination} : row'[m] = row[m]
    BY <1>1, <1>8, NoRowIsRow, SaveRows
  <2>2. NoRow.id = 0 /\ NoRow.state \notin {UNAPPROVED, APPROVED, COMPLETED}
    BY DEF NoRow, UNAPPROVED, APPROVED, COMPLETED
  <2>3. public' = public /\ deleted' = deleted
    BY <1>8 DEF registration
  <2>4. NeverBoth' /\ EmbargoStands'
    BY <2>1, <2>3, KindsDistinct DEF EmbargoInv, StandInv, NeverBoth, EmbargoStands
  <2>5. PendingIsOpen' /\ OnlyEmbargoesComplete'
    BY <2>1, <2>2 DEF EmbargoInv, StandInv, PendingIsOpen, OnlyEmbargoesComplete
  <2>6. JobIsOvertaken'
    BY <2>1, <2>2 DEF JobIsOvertaken
  <2> QED
    BY <2>3, <2>4, <2>5, <2>6, <1>4, <1>5 DEF StandInv, HoldsOrEnds
<1>9. ASSUME Attached(k, s), ~RejectRaises(k), k # Termination, Save(k, s), public' = public,
             deleted => deleted', k = Embargo => deleted'
      PROVE  StandInv' /\ HoldsOrEnds
  <2>1. row'[k] = s /\ \A m \in Kinds \ {k} : row'[m] = row[m]
    BY <1>1, <1>2, <1>9, SaveRows
  <2>2. \A m \in Kinds : row'[m].id = row[m].id
    BY <2>1, <1>9 DEF Attached
  <2>3. NeverBoth'
    BY <2>2, KindsDistinct DEF EmbargoInv, StandInv, NeverBoth
  <2>4. PendingIsOpen' /\ OnlyEmbargoesComplete'
    BY <2>1, <1>2, <1>6 DEF EmbargoInv, StandInv, PendingIsOpen, OnlyEmbargoesComplete
  <2>5. EmbargoStands'
    <3>1. CASE k = Embargo
      BY <3>1, <2>1, <1>2, <1>6, <1>9 DEF EmbargoStands
    <3>2. CASE k # Embargo
      BY <3>2, <2>1, <1>9, KindsDistinct DEF EmbargoInv, StandInv, EmbargoStands
    <3> QED  BY <3>1, <3>2
  <2>6. JobIsOvertaken'
    BY <2>1, <1>4, <1>9, KindsDistinct DEF EmbargoInv, StandInv, JobIsOvertaken, Attached
  <2>7. HoldsOrEnds
    BY <1>9 DEF HoldsOrEnds, EmbargoInv, ConsentInv, TypeOK
  <2> QED
    BY <2>3, <2>4, <2>5, <2>6, <2>7, <1>4, <1>5 DEF StandInv
<1>10. DeleteTree => deleted'
  BY DEF DeleteTree
<1> QED
  BY <1>2, <1>7, <1>8, <1>9, <1>10, KindsDistinct DEF Reject, registration

-----------------------------------------------------------------------------
(***************************************************************************)
(* The nightly jobs.                                                       *)
(***************************************************************************)

LEMMA DoneKeeps ==
    ASSUME EmbargoInv, NEW k \in Kinds, Done(k)
    PROVE  /\ JobsAreDue'
           /\ req' = req /\ waited' = waited /\ ended' = ended
           /\ job'[k] = NoRow /\ \A m \in Kinds \ {k} : job'[m] = job[m]
<1>1. /\ req' = req /\ waited' = waited /\ ended' = ended
      /\ job'[k] = NoRow /\ \A m \in Kinds \ {k} : job'[m] = job[m]
  BY DEF Done, clock, EmbargoInv, ConsentInv, TypeOK
<1>2. NoRow.id = 0
  BY DEF NoRow
<1> QED
  BY <1>1, <1>2 DEF JobsAreDue, EmbargoInv, StandInv

LEMMA SkipStands ==
    ASSUME EmbargoInv, NEW k \in Kinds, Skip(k)
    PROVE  StandInv' /\ HoldsOrEnds
<1>1. row' = row /\ public' = public /\ deleted' = deleted /\ Done(k)
  BY DEF Skip, registration
<1>2. /\ JobsAreDue' /\ req' = req
      /\ job'[k] = NoRow /\ \A m \in Kinds \ {k} : job'[m] = job[m]
  BY <1>1, DoneKeeps
<1>3. LinksAreCurrent'
  BY <1>1, <1>2 DEF EmbargoInv, StandInv, LinksAreCurrent, LinkIsCurrent, Attached
<1>4. JobIsOvertaken'
  BY <1>1, <1>2, KindsDistinct DEF EmbargoInv, StandInv, JobIsOvertaken, Attached, NoRow
<1> QED
  BY <1>1, <1>2, <1>3, <1>4 DEF EmbargoInv, StandInv, NeverBoth, PendingIsOpen,
     OnlyEmbargoesComplete, EmbargoStands, HoldsOrEnds

LEMMA EmbargoJobStands ==
    ASSUME EmbargoInv, EmbargoRegistrations
    PROVE  StandInv' /\ HoldsOrEnds
<1> DEFINE j == job[Embargo]
           c == [j EXCEPT !.state = COMPLETED]
           a == [j EXCEPT !.state = APPROVED]
<1>1. TypeOK /\ j \in Row
  BY KindsDistinct DEF EmbargoInv, ConsentInv, TypeOK
<1>2. /\ c \in Row /\ c.state = COMPLETED /\ c.id = j.id
      /\ a \in Row /\ a.state = APPROVED /\ a.id = j.id
  BY <1>1, DecidedIsRow DEF Row, States
<1>3. Done(Embargo)
  BY DEF EmbargoRegistrations, Skip
<1>4. /\ JobsAreDue' /\ req' = req /\ ended' = ended
      /\ \A m \in Kinds \ {Embargo} : job'[m] = job[m]
  BY <1>3, KindsDistinct, DoneKeeps
<1>5. /\ UNAPPROVED # APPROVED /\ UNAPPROVED # COMPLETED /\ APPROVED # COMPLETED
  BY DEF UNAPPROVED, APPROVED, COMPLETED
<1>6. ASSUME NEW s \in Row, s.state \in {APPROVED, COMPLETED}, s.id = j.id,
             Attached(Embargo, j), Save(Embargo, s), public => public', ~deleted,
             deleted' = deleted, s.state = COMPLETED => public'
      PROVE  StandInv' /\ row'[Embargo] = s
  <2>1. row'[Embargo] = s /\ \A m \in Kinds \ {Embargo} : row'[m] = row[m]
    BY <1>1, <1>6, KindsDistinct, SaveRows
  <2>2. \A m \in Kinds : row'[m].id = row[m].id
    BY <2>1, <1>6 DEF Attached
  <2>3. NeverBoth'
    BY <2>2, KindsDistinct DEF EmbargoInv, StandInv, NeverBoth
  <2>4. PendingIsOpen' /\ OnlyEmbargoesComplete'
    BY <2>1, <1>5, <1>6 DEF EmbargoInv, StandInv, PendingIsOpen, OnlyEmbargoesComplete
  <2>5. EmbargoStands'
    BY <2>1, <1>5, <1>6 DEF EmbargoStands
  <2>6. LinksAreCurrent'
    <3> SUFFICES ASSUME NEW r \in Requests, req[r].user # Nobody
                 PROVE  LinkIsCurrent(req[r].kind, req[r].snap)'
      BY <1>4 DEF LinksAreCurrent
    <3>1. LinkIsCurrent(req[r].kind, req[r].snap) /\ req[r].kind \in Kinds
      BY DEF EmbargoInv, StandInv, LinksAreCurrent, ConsentInv, TypeOK, Request
    <3> QED
      BY <3>1, <2>1, <1>4, <1>5, <1>6, KindsDistinct DEF LinkIsCurrent, Attached
  <2>7. JobIsOvertaken'
    BY <2>1, <1>4, KindsDistinct DEF EmbargoInv, StandInv, JobIsOvertaken, Attached
  <2> QED
    BY <2>1, <2>3, <2>4, <2>5, <2>6, <2>7, <1>4 DEF StandInv
<1>7. CASE Skip(Embargo)
  BY <1>7, SkipStands, KindsDistinct
<1>8. CASE Attached(Embargo, j) /\ ~deleted /\ Save(Embargo, a) /\ UNCHANGED registration
  BY <1>2, <1>5, <1>6, <1>8 DEF registration, HoldsOrEnds
<1>9. CASE /\ Attached(Embargo, j) /\ ~deleted /\ j.state = APPROVED
           /\ Save(Embargo, c)
           /\ public' = CanPublish(row')
           /\ UNCHANGED <<deleted, linked>>
  <2>1. row'[Embargo] = c /\ \A m \in Kinds \ {Embargo} : row'[m] = row[m]
    BY <1>1, <1>2, <1>9, KindsDistinct, SaveRows
  <2>2. row[Embargo].id # 0 /\ j.id # 0
    BY <1>9 DEF Attached
  <2>3. row[Approval].state # UNAPPROVED
    BY <2>2, KindsDistinct DEF EmbargoInv, StandInv, NeverBoth, PendingIsOpen
  <2>4. row'[Embargo].state \notin {UNAPPROVED, APPROVED} /\ row'[Approval].state # UNAPPROVED
    BY <2>1, <2>3, <1>2, <1>5, KindsDistinct
  <2>5. public'
    BY <2>4, <1>9 DEF CanPublish
  <2>6. StandInv'
    BY <2>5, <1>2, <1>6, <1>9
  <2>7. ended
    BY <2>2, <1>5, <1>9, KindsDistinct DEF EmbargoInv, StandInv, JobsAreDue
  <2> QED
    BY <2>1, <2>6, <2>7, <1>2 DEF HoldsOrEnds
<1> QED
  BY <1>7, <1>8, <1>9 DEF EmbargoRegistrations

LEMMA ApprovalJobStands ==
    ASSUME EmbargoInv, ApproveRegistrations
    PROVE  StandInv' /\ HoldsOrEnds
<1> DEFINE j == job[Approval]
           a == [j EXCEPT !.state = APPROVED]
           f == [j EXCEPT !.state = REJECTED]
<1>1. TypeOK /\ j \in Row
  BY KindsDistinct DEF EmbargoInv, ConsentInv, TypeOK
<1>2. /\ a \in Row /\ a.state = APPROVED /\ a.id = j.id
      /\ f \in Row /\ f.state = REJECTED /\ f.id = j.id
  BY <1>1, DecidedIsRow DEF Row, States
<1>3. Done(Approval)
  BY DEF ApproveRegistrations, Skip
<1>4. /\ JobsAreDue' /\ req' = req
      /\ \A m \in Kinds \ {Approval} : job'[m] = job[m]
  BY <1>3, KindsDistinct, DoneKeeps
<1>5. {APPROVED, REJECTED} \cap {UNAPPROVED, COMPLETED} = {}
  BY DEF UNAPPROVED, APPROVED, COMPLETED, REJECTED
<1>6. ASSUME NEW s \in Row, s.state \in {APPROVED, REJECTED}, s.id = j.id,
             Attached(Approval, j), row'[Approval].id = s.id, row'[Approval].state = s.state,
             \A m \in Kinds \ {Approval} : row'[m] = row[m],
             public => public', deleted' = deleted
      PROVE  StandInv' /\ HoldsOrEnds
  <2>1. \A m \in Kinds : row'[m].id = row[m].id
    BY <1>6 DEF Attached
  <2>2. row'[Embargo] = row[Embargo] /\ row[Embargo].id = 0
    BY <1>6, KindsDistinct DEF EmbargoInv, StandInv, NeverBoth, Attached
  <2>3. NeverBoth'
    BY <2>1, KindsDistinct DEF EmbargoInv, StandInv, NeverBoth
  <2>4. PendingIsOpen' /\ OnlyEmbargoesComplete'
    BY <1>5, <1>6 DEF EmbargoInv, StandInv, PendingIsOpen, OnlyEmbargoesComplete
  <2>5. EmbargoStands'
    BY <2>2, <1>6 DEF EmbargoInv, StandInv, EmbargoStands
  <2>6. LinksAreCurrent'
    <3> SUFFICES ASSUME NEW r \in Requests, req[r].user # Nobody
                 PROVE  LinkIsCurrent(req[r].kind, req[r].snap)'
      BY <1>4 DEF LinksAreCurrent
    <3>1. LinkIsCurrent(req[r].kind, req[r].snap)
      BY DEF EmbargoInv, StandInv, LinksAreCurrent
    <3> QED
      BY <3>1, <2>2, <1>4, <1>6, KindsDistinct DEF LinkIsCurrent, Attached
  <2>7. JobIsOvertaken'
    BY <1>4, <1>6, KindsDistinct DEF EmbargoInv, StandInv, JobIsOvertaken, Attached
  <2>8. HoldsOrEnds
    BY <2>2 DEF HoldsOrEnds
  <2> QED
    BY <2>3, <2>4, <2>5, <2>6, <2>7, <2>8, <1>4 DEF StandInv
<1>7. CASE Skip(Approval)
  BY <1>7, SkipStands, KindsDistinct
<1>8. ASSUME NEW s \in {a, f}, Attached(Approval, j), Save(Approval, s), UNCHANGED registration
      PROVE  StandInv' /\ HoldsOrEnds
  <2>1. row'[Approval] = s /\ \A m \in Kinds \ {Approval} : row'[m] = row[m]
    BY <1>1, <1>2, <1>8, KindsDistinct, SaveRows
  <2> QED
    BY <2>1, <1>2, <1>6, <1>8 DEF registration
<1>9. CASE Attached(Approval, j) /\ Complete(Approval, a)
  <2>1. row' = [row EXCEPT ![Approval] = a]
    BY <1>9, KindsDistinct DEF Complete, After
  <2>2. row'[Approval] = a /\ \A m \in Kinds \ {Approval} : row'[m] = row[m]
    BY <2>1, <1>1, KindsDistinct DEF TypeOK
  <2>3. public' = (public \/ Publishes(Approval)) /\ deleted' = deleted
    BY <1>9 DEF Complete
  <2> QED
    BY <2>2, <2>3, <1>2, <1>6, <1>9
<1> QED
  BY <1>7, <1>8, <1>9 DEF ApproveRegistrations

LEMMA RetractionJobStands ==
    ASSUME EmbargoInv, RetractRegistrations
    PROVE  StandInv' /\ HoldsOrEnds
<1> DEFINE j == job[Retraction]
           a == [j EXCEPT !.state = APPROVED]
<1>1. TypeOK /\ j \in Row
  BY KindsDistinct DEF EmbargoInv, ConsentInv, TypeOK
<1>2. a \in Row /\ a.state = APPROVED /\ a.id = j.id /\ a.yes = j.yes
  BY <1>1, DecidedIsRow DEF Row, States
<1>3. Done(Retraction)
  BY DEF RetractRegistrations, Skip
<1>4. /\ JobsAreDue' /\ req' = req
      /\ \A m \in Kinds \ {Retraction} : job'[m] = job[m]
  BY <1>3, KindsDistinct, DoneKeeps
<1>5. APPROVED # UNAPPROVED /\ APPROVED # COMPLETED
  BY DEF UNAPPROVED, APPROVED, COMPLETED
<1>6. CASE Skip(Retraction)
  BY <1>6, SkipStands, KindsDistinct
<1>7. CASE Attached(Retraction, j) /\ Save(Retraction, a) /\ UNCHANGED registration
  <2>1. row'[Retraction] = a /\ \A m \in Kinds \ {Retraction} : row'[m] = row[m]
    BY <1>1, <1>2, <1>7, KindsDistinct, SaveRows
  <2>2. public' = public /\ deleted' = deleted
    BY <1>7 DEF registration
  <2>3. NeverBoth' /\ EmbargoStands'
    BY <2>1, <2>2, KindsDistinct DEF EmbargoInv, StandInv, NeverBoth, EmbargoStands
  <2>4. PendingIsOpen' /\ OnlyEmbargoesComplete'
    BY <2>1, <1>2, <1>5 DEF EmbargoInv, StandInv, PendingIsOpen, OnlyEmbargoesComplete
  <2>5. j.yes # Admins
    BY <1>7, KindsDistinct DEF EmbargoInv, StandInv, JobsAreDue, Attached
  <2>6. LinksAreCurrent'
    <3> SUFFICES ASSUME NEW r \in Requests, req[r].user # Nobody
                 PROVE  LinkIsCurrent(req[r].kind, req[r].snap)'
      BY <1>4 DEF LinksAreCurrent
    <3>1. LinkIsCurrent(req[r].kind, req[r].snap)
      BY DEF EmbargoInv, StandInv, LinksAreCurrent
    <3> QED
      BY <3>1, <2>1, <2>2, <2>5, <1>2, <1>4, KindsDistinct DEF LinkIsCurrent, Attached
  <2>7. JobIsOvertaken'
    BY <2>1, <1>4, KindsDistinct DEF EmbargoInv, StandInv, JobIsOvertaken, Attached
  <2>8. HoldsOrEnds
    BY <2>2 DEF HoldsOrEnds, EmbargoInv, ConsentInv, TypeOK
  <2> QED
    BY <2>3, <2>4, <2>6, <2>7, <2>8, <1>4 DEF StandInv
<1> QED
  BY <1>6, <1>7 DEF RetractRegistrations

LEMMA TerminationJobStands ==
    ASSUME EmbargoInv, ApproveEmbargoTerminations
    PROVE  StandInv' /\ HoldsOrEnds
<1> DEFINE j == job[Termination]
           a == [j EXCEPT !.state = APPROVED]
<1>1. TypeOK /\ j \in Row
  BY KindsDistinct DEF EmbargoInv, ConsentInv, TypeOK
<1>2. a \in Row /\ a.state = APPROVED /\ a.id = j.id /\ a.yes = j.yes
  BY <1>1, DecidedIsRow DEF Row, States
<1>3. Done(Termination)
  BY DEF ApproveEmbargoTerminations, Skip
<1>4. /\ JobsAreDue' /\ req' = req /\ job'[Termination] = NoRow
  BY <1>3, KindsDistinct, DoneKeeps
<1>5. APPROVED # UNAPPROVED /\ APPROVED # COMPLETED /\ UNAPPROVED # COMPLETED
  BY DEF UNAPPROVED, APPROVED, COMPLETED
<1>6. CASE Skip(Termination)
  BY <1>6, SkipStands, KindsDistinct
<1>7. CASE Attached(Termination, a) /\ Complete(Termination, a)
  <2>1. /\ row'[Termination].id = a.id /\ row'[Termination].state = APPROVED
        /\ row'[Termination].yes = j.yes
        /\ \A m \in Kinds \ {Termination, Embargo} : row'[m] = row[m]
        /\ row'[Embargo].id = row[Embargo].id
        /\ row'[Embargo].state = COMPLETED
    BY <1>1, <1>2, <1>7, KindsDistinct, CompleteRows
  <2>2. public'
    BY <1>7, KindsDistinct DEF Complete, Publishes
  <2>3. \A m \in Kinds : row'[m].id = row[m].id
    BY <2>1, <1>7 DEF Attached
  <2>4. NeverBoth' /\ EmbargoStands'
    BY <2>2, <2>3, KindsDistinct DEF EmbargoInv, StandInv, NeverBoth, EmbargoStands
  <2>5. PendingIsOpen' /\ OnlyEmbargoesComplete'
    BY <2>1, <1>5, KindsDistinct DEF EmbargoInv, StandInv, PendingIsOpen, OnlyEmbargoesComplete
  <2>6. j.yes # Admins
    BY <1>2, <1>7, KindsDistinct DEF EmbargoInv, StandInv, JobsAreDue, Attached
  <2>7. LinksAreCurrent'
    <3> SUFFICES ASSUME NEW r \in Requests, req[r].user # Nobody
                 PROVE  LinkIsCurrent(req[r].kind, req[r].snap)'
      BY <1>4 DEF LinksAreCurrent
    <3>1. LinkIsCurrent(req[r].kind, req[r].snap)
      BY DEF EmbargoInv, StandInv, LinksAreCurrent
    <3> QED
      BY <3>1, <2>1, <2>2, <2>3, <2>6, <1>4, <1>5, KindsDistinct DEF LinkIsCurrent, Attached
  <2>8. JobIsOvertaken'
    BY <1>4 DEF JobIsOvertaken, Attached, NoRow
  <2>9. row'[Termination] # row[Termination]
    BY <2>1, <2>6, <1>2, <1>7 DEF EmbargoInv, StandInv, JobIsOvertaken, Attached
  <2>10. waited[Termination]
    BY <2>6, <1>2, <1>7, KindsDistinct
    DEF EmbargoInv, ConsentInv, Fetched, FetchedJobs, Consent, Attached
  <2>11. HoldsOrEnds
    BY <2>1, <2>9, <2>10 DEF HoldsOrEnds
  <2> QED
    BY <2>4, <2>5, <2>7, <2>8, <2>11, <1>4 DEF StandInv
<1> QED
  BY <1>6, <1>7 DEF ApproveEmbargoTerminations, Attached

-----------------------------------------------------------------------------
(***************************************************************************)
(* The other steps.                                                        *)
(***************************************************************************)

LEMMA LoadStands ==
    ASSUME EmbargoInv, NEW r \in Requests, NEW k \in Kinds,
           NEW verb \in {"approve", "reject"}, NEW u \in Admins, Load(r, k, verb, u)
    PROVE  StandInv'
<1>1. /\ row' = row /\ job' = job /\ public' = public /\ deleted' = deleted /\ ended' = ended
      /\ req'[r].kind = k /\ req'[r].snap = row[k]
      /\ \A q \in Requests \ {r} : req'[q] = req[q]
  BY DEF Load, registration, clock, EmbargoInv, ConsentInv, TypeOK
<1>2. row[k].state \in {UNAPPROVED, COMPLETED}
  BY DEF Load, Answerable
<1>3. UNAPPROVED # COMPLETED
  BY DEF UNAPPROVED, COMPLETED
<1>4. LinkIsCurrent(k, row[k])
  BY <1>2, <1>3, KindsDistinct
  DEF LinkIsCurrent, EmbargoInv, StandInv, PendingIsOpen, OnlyEmbargoesComplete, EmbargoStands
<1>5. LinksAreCurrent'
  <2> SUFFICES ASSUME NEW q \in Requests, req'[q].user # Nobody
               PROVE  LinkIsCurrent(req[q].kind, req[q].snap)'
    BY DEF LinksAreCurrent
  <2>1. CASE q = r
    BY <2>1, <1>1, <1>4 DEF LinkIsCurrent, Attached
  <2>2. CASE q # r
    BY <2>2, <1>1 DEF EmbargoInv, StandInv, LinksAreCurrent, LinkIsCurrent, Attached
  <2> QED  BY <2>1, <2>2
<1> QED
  BY <1>1, <1>5 DEF EmbargoInv, StandInv, NeverBoth, PendingIsOpen, OnlyEmbargoesComplete,
     EmbargoStands, JobsAreDue, JobIsOvertaken, Attached

(***************************************************************************)
(* A new withdrawal or request to end the embargo has a key of its own.    *)
(***************************************************************************)
LEMMA CreateStands ==
    ASSUME EmbargoInv, NEW k \in {Termination, Retraction}, Create(k, FALSE),
           UNCHANGED <<registration, ended, archive, req, job>>
    PROVE  StandInv'
<1>1. TypeOK /\ k \in Kinds /\ created[k] \in Nat
  BY KindsDistinct DEF EmbargoInv, ConsentInv, TypeOK
<1>2. row'[k] = NewRow(created[k] + 1, FALSE) /\ \A m \in Kinds \ {k} : row'[m] = row[m]
  BY <1>1 DEF Create, TypeOK
<1>3. /\ row'[k].id = created[k] + 1 /\ row'[k].id # 0 /\ row'[k].state = UNAPPROVED
      /\ row'[k].yes # Admins
  BY <1>1, <1>2, ConstantsAssumption DEF NewRow
<1>4. public' = public /\ deleted' = deleted /\ req' = req /\ job' = job
  BY DEF registration
<1>5. UNAPPROVED # COMPLETED /\ UNAPPROVED # APPROVED
  BY DEF UNAPPROVED, APPROVED, COMPLETED
<1>6. NeverBoth' /\ EmbargoStands'
  BY <1>2, <1>4, KindsDistinct DEF EmbargoInv, StandInv, NeverBoth, EmbargoStands
<1>7. PendingIsOpen' /\ OnlyEmbargoesComplete'
  BY <1>2, <1>3, <1>5 DEF EmbargoInv, StandInv, PendingIsOpen, OnlyEmbargoesComplete
<1>8. JobsAreDue'
  BY <1>4 DEF EmbargoInv, StandInv, JobsAreDue
<1>9. ASSUME NEW s, s.id \in Nat, s.id <= created[k] PROVE ~Attached(k, s)'
  BY <1>1, <1>3, <1>9 DEF Attached
<1>10. LinksAreCurrent'
  <2> SUFFICES ASSUME NEW r \in Requests, req[r].user # Nobody
               PROVE  LinkIsCurrent(req[r].kind, req[r].snap)'
    BY <1>4 DEF LinksAreCurrent
  <2>1. LinkIsCurrent(req[r].kind, req[r].snap)
    BY DEF EmbargoInv, StandInv, LinksAreCurrent
  <2>2. req[r].snap.id \in Nat /\ req[r].snap.id <= created[req[r].kind]
    BY <1>1 DEF TypeOK, Request, Row, EmbargoInv, ConsentInv, Fetched, FetchedKeys
  <2>3. CASE req[r].kind = k
    BY <2>1, <2>2, <2>3, <1>2, <1>4, <1>9, KindsDistinct DEF LinkIsCurrent, Attached
  <2>4. CASE req[r].kind # k
    BY <2>1, <2>4, <1>2, <1>4, KindsDistinct DEF LinkIsCurrent, Attached
  <2> QED  BY <2>3, <2>4
<1>11. JobIsOvertaken'
  BY <1>2, <1>3, <1>4, <1>5, KindsDistinct DEF EmbargoInv, StandInv, JobIsOvertaken, Attached
<1> QED
  BY <1>6, <1>7, <1>8, <1>10, <1>11 DEF StandInv

LEMMA NextEmbargo ==
    ASSUME \A q, r \in Requests : q = r, MaxRows[Embargo] = 0, EmbargoInv, [Next]_vars
    PROVE  EmbargoInv' /\ HoldsOrEnds
<1>1. ConsentInv' /\ CancelInv'
  BY NextConsent, NextCancel DEF EmbargoInv
<1> SUFFICES StandInv' /\ HoldsOrEnds
  BY <1>1 DEF EmbargoInv
<1>2. ASSUME public' = public PROVE HoldsOrEnds
  BY <1>2 DEF HoldsOrEnds, EmbargoInv, ConsentInv, TypeOK
<1>3. ASSUME row' = row, req' = req, job' = job, public' = public, deleted => deleted',
             ended => ended'
      PROVE  StandInv' /\ HoldsOrEnds
  BY <1>2, <1>3 DEF EmbargoInv, StandInv, NeverBoth, PendingIsOpen, OnlyEmbargoesComplete,
     EmbargoStands, JobsAreDue, LinksAreCurrent, LinkIsCurrent, JobIsOvertaken, Attached
<1>4. ASSUME NEW r \in Requests, NEW k \in Kinds, NEW verb \in {"approve", "reject"},
             NEW u \in Admins, Load(r, k, verb, u)
      PROVE  StandInv' /\ HoldsOrEnds
  BY <1>2, <1>4, LoadStands DEF Load, registration
<1>5. ASSUME NEW r \in Requests, Serve(r) PROVE StandInv' /\ HoldsOrEnds
  BY <1>5, ApproveStands, RejectStands DEF Serve
<1>6. CASE RetractRegistration
  BY <1>2, <1>6, CreateStands DEF RetractRegistration, registration
<1>7. CASE RequestTermination
  BY <1>2, <1>7, CreateStands DEF RequestTermination, registration
<1>8. CASE MakePublic
  <2>1. row' = row /\ req' = req /\ job' = job /\ deleted' = deleted /\ ended' = ended /\ public'
        /\ ~deleted /\ ~public /\ row[Embargo].state \notin {UNAPPROVED, APPROVED}
    BY <1>8 DEF MakePublic, CanPublish, clock
  <2>2. row[Embargo].id = 0
    BY <2>1 DEF EmbargoInv, StandInv, EmbargoStands
  <2> QED
    BY <2>1, <2>2 DEF EmbargoInv, StandInv, NeverBoth, PendingIsOpen, OnlyEmbargoesComplete,
       EmbargoStands, JobsAreDue, LinksAreCurrent, LinkIsCurrent, JobIsOvertaken, Attached, HoldsOrEnds
<1>9. CASE MakePrivate
  <2>1. row' = row /\ req' = req /\ job' = job /\ deleted' = deleted /\ ended' = ended /\ ~public'
        /\ row[Embargo].state = UNAPPROVED
    BY <1>9 DEF MakePrivate, is_pending, clock
  <2>2. UNAPPROVED # COMPLETED
    BY DEF UNAPPROVED, COMPLETED
  <2> QED
    BY <2>1, <2>2 DEF EmbargoInv, StandInv, NeverBoth, PendingIsOpen, OnlyEmbargoesComplete,
       EmbargoStands, JobsAreDue, LinksAreCurrent, LinkIsCurrent, JobIsOvertaken, Attached, HoldsOrEnds
<1>10. CASE ChangeEmbargoDate
  <2>1. created[Embargo] \in Nat /\ created[Embargo] < 0
    BY <1>10, KindsDistinct DEF ChangeEmbargoDate, Create, EmbargoInv, ConsentInv, TypeOK
  <2> QED
    BY <2>1
<1>11. ASSUME NEW k \in Kinds, Elapse(k) PROVE StandInv' /\ HoldsOrEnds
  BY <1>3, <1>11 DEF Elapse, registration
<1>12. CASE EndDatePasses
  BY <1>3, <1>12 DEF EndDatePasses, registration
<1>13. ASSUME NEW k \in Kinds, Fetch(k) PROVE StandInv' /\ HoldsOrEnds
  <2>1. /\ row' = row /\ req' = req /\ public' = public /\ deleted' = deleted /\ ended' = ended
        /\ job'[k] = row[k] /\ \A m \in Kinds \ {k} : job'[m] = job[m]
    BY <1>13 DEF Fetch, registration, clock, EmbargoInv, ConsentInv, TypeOK
  <2>2. row[k].state = UNAPPROVED \/ (k = Embargo /\ row[k].state = APPROVED /\ ended)
    BY <1>13 DEF Fetch, Due, is_pending
  <2>3. JobsAreDue'
    BY <2>1, <2>2 DEF EmbargoInv, StandInv, JobsAreDue, PendingIsOpen
  <2>4. UNAPPROVED # APPROVED
    BY DEF UNAPPROVED, APPROVED
  <2>5. JobIsOvertaken'
    BY <2>1, <2>2, <2>4, KindsDistinct DEF EmbargoInv, StandInv, JobIsOvertaken, Attached
  <2> QED
    BY <2>1, <2>3, <2>5, <1>2 DEF EmbargoInv, StandInv, NeverBoth, PendingIsOpen,
       OnlyEmbargoesComplete, EmbargoStands, LinksAreCurrent, LinkIsCurrent, Attached
<1>14. ASSUME NEW k \in Kinds, RunJob(k) PROVE StandInv' /\ HoldsOrEnds
  BY <1>14, ApprovalJobStands, EmbargoJobStands, RetractionJobStands, TerminationJobStands
  DEF RunJob
<1>15. CASE JobDone \/ ArchiveSuccess \/ UNCHANGED vars
  BY <1>3, <1>15 DEF JobDone, ArchiveSuccess, registration, clock, vars
<1>16. CASE ArchiveFailure
  <2>1. /\ req' = req /\ job' = job /\ public' = public /\ deleted' /\ ended' = ended
        /\ \A m \in Kinds : /\ row'[m].id = row[m].id
                            /\ row'[m].yes = row[m].yes
                            /\ row'[m].state \in {REJECTED, row[m].state}
    BY <1>16 DEF ArchiveFailure, DeleteTree, clock, EmbargoInv, ConsentInv, TypeOK, Row
  <2>2. REJECTED \notin {UNAPPROVED, APPROVED, COMPLETED}
    BY DEF UNAPPROVED, APPROVED, COMPLETED, REJECTED
  <2>3. NeverBoth' /\ EmbargoStands'
    BY <2>1, <2>2, KindsDistinct DEF EmbargoInv, StandInv, NeverBoth, EmbargoStands
  <2>4. PendingIsOpen' /\ OnlyEmbargoesComplete'
    BY <2>1, <2>2 DEF EmbargoInv, StandInv, PendingIsOpen, OnlyEmbargoesComplete
  <2>5. JobsAreDue' /\ JobIsOvertaken'
    BY <2>1, <2>2, KindsDistinct
    DEF EmbargoInv, StandInv, JobsAreDue, JobIsOvertaken, Attached
  <2>6. LinksAreCurrent'
    BY <2>1, <2>2, KindsDistinct
    DEF EmbargoInv, StandInv, LinksAreCurrent, LinkIsCurrent, Attached
  <2> QED
    BY <2>1, <2>3, <2>4, <2>5, <2>6, <1>2 DEF StandInv
<1>17. CASE RemoveStuckRegistration
  BY <1>3, <1>17 DEF RemoveStuckRegistration, DeleteTree, clock
<1> QED
  BY <1>4, <1>5, <1>6, <1>7, <1>8, <1>9, <1>10, <1>11, <1>12, <1>13, <1>14, <1>15, <1>16,
     <1>17 DEF Next

(***************************************************************************)
(* As long as one link is served at a time and no other embargo is put on  *)
(* the registration, an embargoed registration becomes public only when    *)
(* its embargo ends or a request or a withdrawal is approved, although the *)
(* nightly jobs overlap the link and write stale rows.  With two links at  *)
(* a time a stale approval brings an embargo that has ended back to life.  *)
(***************************************************************************)
THEOREM EmbargoStandsUnderJobs ==
    ASSUME \A q, r \in Requests : q = r, MaxRows[Embargo] = 0
    PROVE  Spec => EmbargoHolds
<1>1. Init => EmbargoInv
  BY InitEmbargo
<1>2. EmbargoInv /\ [Next]_vars => EmbargoInv'
  BY NextEmbargo
<1>3. EmbargoInv /\ [Next]_vars =>
         [~public /\ public' /\ row[Embargo].id # 0 =>
          \/ ended /\ row'[Embargo].state = COMPLETED
          \/ \E k \in {Termination, Retraction} :
                /\ row'[k] # row[k]
                /\ row'[k].state = APPROVED
                /\ row'[k].yes = Admins \/ (k = Termination /\ waited[k])]_vars
  BY NextEmbargo DEF HoldsOrEnds
<1> QED
  BY <1>1, <1>2, <1>3, PTL DEF Spec, EmbargoHolds
=============================================================================
