---------------------------- MODULE RequestsProofs ----------------------------
(***************************************************************************)
(* Theorems about Requests, for any number of threads and requests: type   *)
(* correctness, that nothing put off leaks into another request, that an   *)
(* answer without an error is kept, and that workers get nothing before    *)
(* the commit.                                                             *)
(***************************************************************************)
EXTENDS Requests, TLAPS

(***************************************************************************)
(* The inductive invariant.  A request is served by one thread of its site *)
(* and never again; what its thread holds was put off by it; and each      *)
(* phase relates the status to the transaction and to what is left to do.  *)
(***************************************************************************)
Alone == \A t, u \in Threads : t # u => serving[t] = None \/ serving[t] # serving[u]

Fresh == \A r \in Requests : fate[r] = "none" =>
            asked[r] = {} /\ answer[r] = "none" /\ \A t \in Threads : serving[t] # r

Answered == \A r \in Requests : answer[r] # "none" => \A t \in Threads : serving[t] # r

\* The functions of r that nobody waits for.
Fits(r, slow, put, end) ==
    /\ slow \subseteq put
    /\ r \in Api /\ slow # {} => end = "committed"

LateOK(r) == Fits(r, late[r], asked[r], fate[r])

\* What the thread holds belongs to its request r.
Owned(t, r) ==
    /\ r \in IF t \in WebThreads THEN Web ELSE Api
    /\ queue[t] \subseteq asked[r]
    /\ phase[t] \in {"view", "postcommit"} => postcommit[t] \subseteq asked[r]
    /\ error[t] => status[t] = "failed" /\ phase[t] \in {"rollback", "send"}
    /\ phase[t] = "view" => status[t] = "ok" /\ late[r] = {}

\* The transaction of r, whose response may be sent.
Settled(t, r) ==
    /\ r \in Manual => fate[r] = "committed"
    /\ t \in ApiThreads /\ phase[t] = "postcommit" => fate[r] = "committed" \/ IsError(t)
    /\ phase[t] = "celery" => fate[r] = "committed" \/ IsError(t)
    /\ phase[t] \in {"rollback", "send"} /\ ~error[t] => fate[r] = "committed" \/ queue[t] = {}
    /\ phase[t] \in {"rollback", "send"} /\ status[t] = "ok" => fate[r] = "committed"
    /\ t \in ApiThreads => phase[t] \notin {"transaction", "rollback"}

\* Nothing r put off is lost while all goes well.
Kept(t, r) ==
    status[t] = "ok" =>
        /\ asked[r] \cap Tasks \subseteq queue[t]
        /\ phase[t] \in {"view", "postcommit"} => asked[r] \cap PutOffs \subseteq postcommit[t]
        /\ phase[t] \notin {"view", "postcommit"} /\ asked[r] \cap Functions = {} =>
               asked[r] \cap PutOffs \subseteq done[r]

InOrder(t) ==
    serving[t] # None => Owned(t, serving[t]) /\ Settled(t, serving[t]) /\ Kept(t, serving[t])

IInv ==
    /\ TypeOK /\ Alone /\ Fresh /\ Answered
    /\ \A t \in Threads : InOrder(t)
    /\ \A r \in Requests : LateOK(r)
    /\ NothingLeaks
    /\ AnswerIsKept

-----------------------------------------------------------------------------
(***************************************************************************)
(* A step of thread t for request r leaves the other threads and requests  *)
(* alone.                                                                  *)
(***************************************************************************)
Frame(t, r) ==
    /\ \A u \in Threads \ {t} :
          /\ serving'[u] = serving[u] /\ phase'[u] = phase[u]
          /\ error'[u] = error[u] /\ status'[u] = status[u]
          /\ queue'[u] = queue[u] /\ postcommit'[u] = postcommit[u]
    /\ \A q \in Requests \ {r} :
          /\ fate'[q] = fate[q] /\ asked'[q] = asked[q]
          /\ late'[q] = late[q] /\ done'[q] = done[q] /\ answer'[q] = answer[q]

(***************************************************************************)
(* So it is enough to look at the thread and its request.                  *)
(***************************************************************************)
LEMMA OthersStay ==
    ASSUME IInv, NEW t \in Threads, NEW r \in Requests, Frame(t, r), TypeOK',
           \A u \in Threads \ {t} : serving[u] # r,
           serving'[t] \in {r, None},
           InOrder(t)',
           Fits(r, late'[r], asked'[r], fate'[r]),
           fate'[r] # "none",
           answer'[r] # "none" => serving'[t] = None,
           done'[r] \subseteq asked'[r],
           answer'[r] = "ok" =>
              /\ fate'[r] = "committed"
              /\ asked'[r] \cap Tasks \subseteq done'[r]
              /\ asked'[r] \cap Functions = {} => asked'[r] \subseteq done'[r]
    PROVE  IInv'
<1>1. Alone'
  BY DEF IInv, Alone, Frame
<1>2. Fresh'
  BY RequestsAssumption DEF IInv, Fresh, Frame
<1>3. Answered'
  BY RequestsAssumption DEF IInv, Answered, Frame, Requests
<1>4. ASSUME NEW u \in Threads PROVE InOrder(u)'
  <2>1. CASE u = t
    BY <2>1
  <2>2. CASE u # t
    <3>1. /\ serving'[u] = serving[u] /\ phase'[u] = phase[u]
          /\ error'[u] = error[u] /\ status'[u] = status[u]
          /\ queue'[u] = queue[u] /\ postcommit'[u] = postcommit[u]
      BY <2>2 DEF Frame
    <3>2. CASE serving[u] = None
      BY <3>1, <3>2 DEF InOrder
    <3>3. CASE serving[u] # None
      <4>1. serving[u] \in Requests \ {r}
        BY <2>2, <3>3 DEF IInv, TypeOK
      <4>2. /\ fate'[serving[u]] = fate[serving[u]] /\ asked'[serving[u]] = asked[serving[u]]
            /\ late'[serving[u]] = late[serving[u]] /\ done'[serving[u]] = done[serving[u]]
        BY <4>1 DEF Frame
      <4>3. InOrder(u)
        BY DEF IInv
      <4> QED  BY <3>1, <3>3, <4>2, <4>3 DEF InOrder, Owned, Settled, Kept, IsError
    <3> QED  BY <3>2, <3>3
  <2> QED  BY <2>1, <2>2
<1>5. NothingLeaks'
  BY DEF IInv, NothingLeaks, Frame
<1>6. AnswerIsKept'
  BY DEF IInv, AnswerIsKept, Frame
<1>7. \A q \in Requests : LateOK(q)'
  BY DEF IInv, LateOK, Fits, Frame
<1> QED  BY <1>1, <1>2, <1>3, <1>4, <1>5, <1>6, <1>7 DEF IInv

LEMMA InitInv == Init => IInv
<1> SUFFICES ASSUME Init PROVE IInv
  OBVIOUS
<1>1. TypeOK
  BY DEF Init, TypeOK, Phases, Statuses
<1>2. Alone /\ Fresh /\ Answered /\ NothingLeaks /\ AnswerIsKept
  BY RequestsAssumption DEF Init, Alone, Fresh, Answered, NothingLeaks, AnswerIsKept, Requests
<1>3. (\A t \in Threads : InOrder(t)) /\ (\A r \in Requests : LateOK(r))
  BY DEF Init, InOrder, LateOK, Fits
<1> QED  BY <1>1, <1>2, <1>3 DEF IInv

-----------------------------------------------------------------------------
(***************************************************************************)
(* What is known of a thread t that serves a request.                      *)
(***************************************************************************)
LEMMA Busy ==
    ASSUME IInv, NEW t \in Threads, phase[t] # "idle"
    PROVE  /\ serving[t] \in Requests /\ serving[t] # None
           /\ fate[serving[t]] # "none" /\ answer[serving[t]] = "none"
           /\ \A u \in Threads \ {t} : serving[u] # serving[t]
           /\ done[serving[t]] \subseteq asked[serving[t]]
           /\ Owned(t, serving[t]) /\ Settled(t, serving[t]) /\ Kept(t, serving[t])
           /\ LateOK(serving[t])
<1>1. serving[t] \in Requests /\ serving[t] # None
  BY DEF IInv, TypeOK
<1>2. fate[serving[t]] # "none" /\ answer[serving[t]] = "none"
  BY <1>1 DEF IInv, Fresh, Answered, TypeOK
<1>3. \A u \in Threads \ {t} : serving[u] # serving[t]
  BY <1>1 DEF IInv, Alone
<1> QED  BY <1>1, <1>2, <1>3 DEF IInv, NothingLeaks, InOrder

\* A step that puts no function aside keeps LateOK if it keeps the transaction.
LEMMA LateStays ==
    ASSUME NEW r \in Requests, LateOK(r), late'[r] = late[r], asked[r] \subseteq asked'[r],
           r \in Api /\ late[r] # {} => fate'[r] = fate[r]
    PROVE  Fits(r, late'[r], asked'[r], fate'[r])
BY DEF LateOK, Fits

LEMMA BeforeRequestKeepsInv ==
    ASSUME IInv, NEW t \in Threads, NEW r \in Requests, transaction_before_request(t, r)
    PROVE  IInv'
<1> USE RequestsAssumption
<1>1. serving[t] = None /\ r # None
  BY DEF transaction_before_request, Accept, IInv, TypeOK, Requests
<1>2. TypeOK'
  <2>1. /\ queue' \in [Threads -> SUBSET Tasks] /\ postcommit' \in [Threads -> SUBSET PutOffs]
        /\ fate' \in [Requests -> {"none", "open", "committed", "rolledback"}]
    BY DEF transaction_before_request, Accept, celery_before_request, postcommit_before_request,
           IInv, TypeOK
  <2>2. serving' \in [Threads -> Requests \cup {None}] /\ phase' \in [Threads -> Phases]
    BY DEF transaction_before_request, Accept, Goto, IInv, TypeOK, Phases
  <2>3. \A u \in Threads : serving'[u] = None <=> phase'[u] = "idle"
    BY <1>1 DEF transaction_before_request, Accept, Goto, IInv, TypeOK
  <2>4. error' \in [Threads -> BOOLEAN] /\ status' \in [Threads -> Statuses]
    BY DEF transaction_before_request, IInv, TypeOK, Statuses
  <2> QED  BY <2>1, <2>2, <2>3, <2>4 DEF transaction_before_request, Accept, history, IInv, TypeOK
<1>3. Frame(t, r)
  BY DEF transaction_before_request, Accept, celery_before_request, postcommit_before_request,
         Goto, history, Frame, IInv, TypeOK
<1>4. /\ fate[r] = "none" /\ asked[r] = {} /\ answer[r] = "none" /\ done[r] = {}
      /\ late[r] = {}
  BY DEF transaction_before_request, Accept, IInv, Fresh, NothingLeaks, LateOK, Fits
<1>5. /\ serving'[t] = r /\ phase'[t] = "view" /\ error'[t] = FALSE /\ status'[t] = "ok"
      /\ queue'[t] = {} /\ postcommit'[t] = {} /\ fate'[r] # "none"
      /\ r \in Manual => fate'[r] = "committed"
      /\ asked' = asked /\ late' = late /\ done' = done /\ answer' = answer
      /\ r \in IF t \in WebThreads THEN Web ELSE Api
  BY DEF transaction_before_request, Accept, celery_before_request, postcommit_before_request,
         Goto, history, IInv, TypeOK
<1>6. InOrder(t)'
  BY <1>4, <1>5 DEF InOrder, Owned, Settled, Kept
<1>7. \A u \in Threads \ {t} : serving[u] # r
  BY <1>4 DEF IInv, Fresh
<1>8. Fits(r, late'[r], asked'[r], fate'[r])
  BY <1>4, <1>5 DEF Fits
<1> QED  BY <1>1, <1>2, <1>3, <1>4, <1>5, <1>6, <1>7, <1>8, OthersStay

LEMMA BeginFailsKeepsInv ==
    ASSUME IInv, NEW t \in Threads, NEW r \in Requests, BeginFails(t, r)
    PROVE  IInv'
<1> USE RequestsAssumption
<1>1. serving[t] = None /\ r # None
  BY DEF BeginFails, Accept, IInv, TypeOK, Requests
<1>2. TypeOK'
  <2>1. /\ queue' \in [Threads -> SUBSET Tasks]
        /\ fate' \in [Requests -> {"none", "open", "committed", "rolledback"}]
    BY DEF BeginFails, Accept, celery_before_request, IInv, TypeOK
  <2>2. serving' \in [Threads -> Requests \cup {None}] /\ phase' \in [Threads -> Phases]
    BY DEF BeginFails, Accept, Raise, Goto, IInv, TypeOK, Phases
  <2>3. \A u \in Threads : serving'[u] = None <=> phase'[u] = "idle"
    BY <1>1 DEF BeginFails, Accept, Raise, Goto, IInv, TypeOK
  <2>4. error' \in [Threads -> BOOLEAN] /\ status' \in [Threads -> Statuses]
    BY DEF BeginFails, Raise, IInv, TypeOK, Statuses
  <2> QED  BY <2>1, <2>2, <2>3, <2>4 DEF BeginFails, Accept, history, IInv, TypeOK
<1>3. Frame(t, r)
  BY DEF BeginFails, Accept, celery_before_request, Raise, Goto, history, Frame, IInv, TypeOK
<1>4. /\ fate[r] = "none" /\ asked[r] = {} /\ answer[r] = "none" /\ done[r] = {}
      /\ late[r] = {}
  BY DEF BeginFails, Accept, IInv, Fresh, NothingLeaks, LateOK, Fits
<1>5. /\ serving'[t] = r /\ phase'[t] = "rollback" /\ error'[t] = TRUE /\ status'[t] = "failed"
      /\ queue'[t] = {} /\ fate'[r] = "rolledback" /\ r \in Web \ Manual
      /\ asked' = asked /\ late' = late /\ done' = done /\ answer' = answer
      /\ r \in IF t \in WebThreads THEN Web ELSE Api
  BY DEF BeginFails, Accept, celery_before_request, Raise, Goto, history, IInv, TypeOK
<1>6. InOrder(t)'
  BY <1>4, <1>5 DEF InOrder, Owned, Settled, Kept, Threads
<1>7. \A u \in Threads \ {t} : serving[u] # r
  BY <1>4 DEF IInv, Fresh
<1>8. Fits(r, late'[r], asked'[r], fate'[r])
  BY <1>4, <1>5 DEF Fits
<1> QED  BY <1>1, <1>2, <1>3, <1>4, <1>5, <1>6, <1>7, <1>8, OthersStay

LEMMA EnqueueTaskKeepsInv ==
    ASSUME IInv, NEW t \in Threads, NEW x \in Tasks, enqueue_task(t, x)
    PROVE  IInv'
<1> DEFINE r == serving[t]
<1> USE RequestsAssumption DEF enqueue_task, PutOff, thread
<1>1. phase[t] = "view"
  OBVIOUS
<1>2. /\ r \in Requests /\ r # None /\ fate[r] # "none" /\ answer[r] = "none"
      /\ \A u \in Threads \ {t} : serving[u] # r
      /\ done[r] \subseteq asked[r]
      /\ Owned(t, r) /\ Settled(t, r) /\ Kept(t, r) /\ LateOK(r)
  BY <1>1, Busy
<1>3. TypeOK'
  BY DEF IInv, TypeOK, Jobs
<1>4. Frame(t, r)
  BY DEF Frame, IInv, TypeOK
<1>5. queue'[t] = queue[t] \cup {x} /\ asked'[r] = asked[r] \cup {x} /\ x \notin PutOffs
  BY <1>2 DEF IInv, TypeOK
<1>6. InOrder(t)'
  BY <1>1, <1>2, <1>5 DEF InOrder, Owned, Settled, Kept, IsError
<1>7. Fits(r, late'[r], asked'[r], fate'[r])
  BY <1>2, <1>5, LateStays
<1> QED  BY <1>2, <1>3, <1>4, <1>5, <1>6, <1>7, OthersStay

LEMMA EnqueuePostcommitKeepsInv ==
    ASSUME IInv, NEW t \in Threads, NEW x \in PutOffs, enqueue_postcommit_task(t, x)
    PROVE  IInv'
<1> DEFINE r == serving[t]
<1> USE RequestsAssumption DEF enqueue_postcommit_task, PutOff, thread
<1>1. phase[t] = "view"
  OBVIOUS
<1>2. /\ r \in Requests /\ r # None /\ fate[r] # "none" /\ answer[r] = "none"
      /\ \A u \in Threads \ {t} : serving[u] # r
      /\ done[r] \subseteq asked[r]
      /\ Owned(t, r) /\ Settled(t, r) /\ Kept(t, r) /\ LateOK(r)
  BY <1>1, Busy
<1>3. TypeOK'
  BY DEF IInv, TypeOK, Jobs
<1>4. Frame(t, r)
  BY DEF Frame, IInv, TypeOK
<1>5. postcommit'[t] = postcommit[t] \cup {x} /\ asked'[r] = asked[r] \cup {x} /\ x \notin Tasks
  BY <1>2 DEF IInv, TypeOK
<1>6. InOrder(t)'
  BY <1>1, <1>2, <1>5 DEF InOrder, Owned, Settled, Kept, IsError
<1>7. Fits(r, late'[r], asked'[r], fate'[r])
  BY <1>2, <1>5, LateStays
<1> QED  BY <1>2, <1>3, <1>4, <1>5, <1>6, <1>7, OthersStay

LEMMA WebViewKeepsInv ==
    ASSUME IInv, NEW t \in Threads, WebView(t)
    PROVE  IInv'
<1> DEFINE r == serving[t]
<1> USE RequestsAssumption DEF WebView, Raise, Goto, queues, history
<1>1. phase[t] = "view"
  OBVIOUS
<1>2. /\ r \in Requests /\ r # None /\ fate[r] # "none" /\ answer[r] = "none"
      /\ \A u \in Threads \ {t} : serving[u] # r
      /\ done[r] \subseteq asked[r]
      /\ Owned(t, r) /\ Settled(t, r) /\ Kept(t, r) /\ LateOK(r)
  BY <1>1, Busy
<1>3. TypeOK'
  <2>1. phase' \in [Threads -> Phases]
    BY DEF IInv, TypeOK, Phases
  <2>2. error' \in [Threads -> BOOLEAN] /\ status' \in [Threads -> Statuses]
    BY DEF IInv, TypeOK, Statuses
  <2>3. \A u \in Threads : serving'[u] = None <=> phase'[u] = "idle"
    BY <1>1 DEF IInv, TypeOK
  <2> QED
    BY <2>1, <2>2, <2>3 DEF IInv, TypeOK
<1>4. Frame(t, r)
  BY DEF Frame, IInv, TypeOK
<1>5. \/ phase'[t] = "postcommit" /\ error' = error /\ status'[t] \in Statuses
      \/ phase'[t] = "rollback" /\ error'[t] = TRUE /\ status'[t] = "failed"
  BY DEF IInv, TypeOK
<1>6. InOrder(t)'
  BY <1>1, <1>2, <1>5 DEF InOrder, Owned, Settled, Kept, IsError
<1>7. Fits(r, late'[r], asked'[r], fate'[r])
  BY <1>2, LateStays
<1> QED  BY <1>2, <1>3, <1>4, <1>6, <1>7, OthersStay

LEMMA ApiViewKeepsInv ==
    ASSUME IInv, NEW t \in Threads, ApiView(t)
    PROVE  IInv'
<1> DEFINE r == serving[t]
<1> USE RequestsAssumption DEF ApiView, Goto, Ended, history
<1>1. phase[t] = "view"
  OBVIOUS
<1>2. /\ r \in Requests /\ r # None /\ fate[r] # "none" /\ answer[r] = "none"
      /\ \A u \in Threads \ {t} : serving[u] # r
      /\ done[r] \subseteq asked[r]
      /\ Owned(t, r) /\ Settled(t, r) /\ Kept(t, r) /\ LateOK(r)
  BY <1>1, Busy
<1>3. PICK s \in Statuses :
        /\ status' = [status EXCEPT ![t] = s]
        /\ \/ fate' = [fate EXCEPT ![r] = "committed"] /\ UNCHANGED queue
           \/ s # "ok" /\ fate' = [fate EXCEPT ![r] = "rolledback"] /\ UNCHANGED queue
           \/ /\ s # "ok" /\ fate' = [fate EXCEPT ![r] = "rolledback"]
              /\ queue' = [queue EXCEPT ![t] = {}]
  OBVIOUS
<1>4. TypeOK'
  <2>1. fate' \in [Requests -> {"none", "open", "committed", "rolledback"}]
    BY <1>3 DEF IInv, TypeOK
  <2>2. queue' \in [Threads -> SUBSET Tasks]
    BY <1>3 DEF IInv, TypeOK
  <2> QED  BY <1>1, <1>3, <2>1, <2>2 DEF IInv, TypeOK, Phases, Statuses
<1>5. Frame(t, r)
  BY <1>3 DEF Frame, IInv, TypeOK
<1>6. /\ phase'[t] = "postcommit" /\ status'[t] = s /\ error' = error
      /\ fate'[r] # "none"
      /\ \/ fate'[r] = "committed" /\ queue'[t] = queue[t]
         \/ s # "ok" /\ fate'[r] = "rolledback" /\ queue'[t] \subseteq queue[t]
      /\ t \in ApiThreads /\ t \notin WebThreads
  <2>1. phase'[t] = "postcommit" /\ status'[t] = s /\ error' = error
    BY <1>3 DEF IInv, TypeOK
  <2>2. /\ fate'[r] # "none"
        /\ \/ fate'[r] = "committed" /\ queue'[t] = queue[t]
           \/ s # "ok" /\ fate'[r] = "rolledback" /\ queue'[t] \subseteq queue[t]
    BY <1>2, <1>3 DEF IInv, TypeOK
  <2>3. t \in ApiThreads /\ t \notin WebThreads
    OBVIOUS
  <2> QED  BY <2>1, <2>2, <2>3
<1>7. s # "ok" => IsError(t)'
  BY <1>6 DEF IsError, Statuses
<1>8. r \notin Manual
  BY <1>2, <1>6 DEF Owned
<1>9. InOrder(t)'
  BY <1>1, <1>2, <1>6, <1>7, <1>8 DEF InOrder, Owned, Settled, Kept
<1>10. Fits(r, late'[r], asked'[r], fate'[r])
  BY <1>1, <1>2, LateStays DEF Owned
<1> QED  BY <1>2, <1>4, <1>5, <1>6, <1>9, <1>10, OthersStay

LEMMA PostcommitKeepsInv ==
    ASSUME IInv, NEW t \in Threads, postcommit_after_request(t)
    PROVE  IInv'
<1> DEFINE r == serving[t]
<1> USE RequestsAssumption DEF postcommit_after_request, AfterPostcommit, GoOn, Goto, Raise, Fail, Did
<1>1. phase[t] = "postcommit"
  OBVIOUS
<1>2. /\ r \in Requests /\ r # None /\ fate[r] # "none" /\ answer[r] = "none"
      /\ \A u \in Threads \ {t} : serving[u] # r
      /\ done[r] \subseteq asked[r]
      /\ Owned(t, r) /\ Settled(t, r) /\ Kept(t, r) /\ LateOK(r)
  BY <1>1, Busy
<1>3. /\ UNCHANGED <<serving, queue, fate, asked, answer>>
      /\ \/ IsError(t) /\ done' = done /\ late' = late
         \/ /\ ~IsError(t)
            /\ \E S \in SUBSET postcommit[t], slow \in SUBSET (postcommit[t] \cap Functions) :
                  /\ done' = [done EXCEPT ![r] = @ \cup S]
                  /\ late' = [late EXCEPT ![r] = slow]
                  /\ \/ S = postcommit[t]
                     \/ status'[t] = "failed"
                     \/ postcommit[t] \cap Functions # {}
  <2>1. CASE IsError(t)
    BY <2>1
  <2>2. CASE ~IsError(t)
    <3>1. PICK ran \in SUBSET (postcommit[t] \cap Functions),
               slow \in SUBSET (postcommit[t] \cap Functions),
               sent \in SUBSET (postcommit[t] \cap Deferred) :
            /\ done' = [done EXCEPT ![r] = @ \cup (ran \cup sent)]
            /\ late' = [late EXCEPT ![r] = slow]
            /\ \/ ran \cup slow # postcommit[t] \cap Functions
               \/ sent = postcommit[t] \cap Deferred
               \/ status' = [status EXCEPT ![t] = "failed"]
      BY <2>2
    <3>2. postcommit[t] \cap Functions = {} => ran = {} /\ slow = {}
      BY <3>1
    <3>3. postcommit[t] = (postcommit[t] \cap Functions) \cup (postcommit[t] \cap Deferred)
      BY DEF IInv, TypeOK, PutOffs
    <3>4. \/ ran \cup sent = postcommit[t]
          \/ status'[t] = "failed"
          \/ postcommit[t] \cap Functions # {}
      BY <3>1, <3>2, <3>3 DEF IInv, TypeOK
    <3> QED  BY <2>2, <3>1, <3>4
  <2> QED  BY <2>1, <2>2
<1>4. \/ /\ phase'[t] = IF t \in WebThreads THEN "transaction" ELSE "celery"
         /\ error' = error /\ status' = status
      \/ /\ t \in WebThreads /\ phase'[t] = "rollback"
         /\ error'[t] = TRUE /\ status'[t] = "failed"
      \/ /\ t \notin WebThreads /\ phase'[t] = "celery"
         /\ error' = error /\ status'[t] = "failed"
  BY DEF IInv, TypeOK
<1>5. TypeOK'
  <2>1. done' \in [Requests -> SUBSET Jobs] /\ late' \in [Requests -> SUBSET Functions]
    BY <1>3 DEF IInv, TypeOK, Jobs
  <2>2. postcommit' \in [Threads -> SUBSET PutOffs]
    BY DEF IInv, TypeOK
  <2>3. error' \in [Threads -> BOOLEAN] /\ status' \in [Threads -> Statuses]
    BY DEF IInv, TypeOK, Statuses
  <2>4. phase' \in [Threads -> Phases]
    BY DEF IInv, TypeOK, Phases
  <2>5. \A u \in Threads : serving'[u] = None <=> phase'[u] = "idle"
    BY <1>1, <1>2, <1>3 DEF IInv, TypeOK
  <2> QED  BY <1>3, <2>1, <2>2, <2>3, <2>4, <2>5 DEF IInv, TypeOK
<1>6. Frame(t, r)
  BY <1>3 DEF Frame, IInv, TypeOK
<1>7. done'[r] \subseteq asked[r] /\ done[r] \subseteq done'[r]
  BY <1>1, <1>2, <1>3 DEF IInv, TypeOK, Owned
<1>8. InOrder(t)'
  <2>1. Owned(t, r)'
    BY <1>1, <1>2, <1>3, <1>4 DEF Owned
  <2>2. Settled(t, r)'
    BY <1>1, <1>2, <1>3, <1>4 DEF Settled, IsError, Threads
  <2>3. Kept(t, r)'
    <3> SUFFICES ASSUME status'[t] = "ok"
                 PROVE  Kept(t, r)'
      BY DEF Kept
    <3>1. status[t] = "ok" /\ phase'[t] \notin {"view", "postcommit"} /\ ~IsError(t)
      BY <1>4 DEF IsError
    <3>2. asked[r] \cap Tasks \subseteq queue[t] /\ asked[r] \cap PutOffs \subseteq postcommit[t]
      BY <1>1, <1>2, <3>1 DEF Kept
    <3>3. asked[r] \cap Functions = {} => asked[r] \cap PutOffs \subseteq done'[r]
      BY <1>1, <1>2, <1>3, <3>1, <3>2 DEF IInv, TypeOK, Owned
    <3> QED  BY <1>3, <3>1, <3>2, <3>3 DEF Kept
  <2> QED  BY <1>2, <1>3, <2>1, <2>2, <2>3 DEF InOrder
<1>9. Fits(r, late'[r], asked'[r], fate'[r])
  <2>1. CASE IsError(t)
    BY <1>2, <1>3, <2>1, LateStays
  <2>2. CASE ~IsError(t)
    <3>1. late'[r] \subseteq asked[r]
      BY <1>1, <1>2, <1>3, <2>2 DEF IInv, TypeOK, Owned
    <3>2. r \in Api => fate[r] = "committed"
      BY <1>1, <1>2, <2>2 DEF Owned, Settled, Threads
    <3> QED  BY <1>3, <3>1, <3>2 DEF Fits
  <2> QED  BY <2>1, <2>2
<1> QED  BY <1>2, <1>3, <1>5, <1>6, <1>7, <1>8, <1>9, OthersStay

LEMMA TransactionKeepsInv ==
    ASSUME IInv, NEW t \in Threads, transaction_after_request(t)
    PROVE  IInv'
<1> DEFINE r == serving[t]
<1> USE RequestsAssumption DEF transaction_after_request, GoOn, Goto, Raise, Ended, queues, history
<1>1. phase[t] = "transaction"
  OBVIOUS
<1>2. /\ r \in Requests /\ r # None /\ fate[r] # "none" /\ answer[r] = "none"
      /\ \A u \in Threads \ {t} : serving[u] # r
      /\ done[r] \subseteq asked[r]
      /\ Owned(t, r) /\ Settled(t, r) /\ Kept(t, r) /\ LateOK(r)
  BY <1>1, Busy
<1>3. t \in WebThreads
  BY <1>1, <1>2 DEF Settled, Threads
<1>4. /\ \A q \in Requests \ {r} : fate'[q] = fate[q]
      /\ \/ /\ phase'[t] = "celery" /\ error' = error /\ status' = status
            /\ \/ r \in Manual /\ fate'[r] = fate[r]
               \/ r \notin Manual /\ fate'[r] = IF IsError(t) THEN "rolledback" ELSE "committed"
         \/ /\ phase'[t] = "rollback" /\ error'[t] = TRUE /\ status'[t] = "failed"
            /\ r \notin Manual /\ fate'[r] = "rolledback"
  BY <1>2 DEF IInv, TypeOK
<1>5. TypeOK'
  <2>1. error' \in [Threads -> BOOLEAN] /\ status' \in [Threads -> Statuses]
    BY DEF IInv, TypeOK, Statuses
  <2>2. phase' \in [Threads -> Phases]
    BY DEF IInv, TypeOK, Phases
  <2>3. fate' \in [Requests -> {"none", "open", "committed", "rolledback"}]
    BY DEF IInv, TypeOK
  <2>4. \A u \in Threads : serving'[u] = None <=> phase'[u] = "idle"
    BY <1>1, <1>2 DEF IInv, TypeOK
  <2> QED  BY <2>1, <2>2, <2>3, <2>4 DEF IInv, TypeOK
<1>6. Frame(t, r)
  BY <1>4 DEF Frame, IInv, TypeOK
<1>7. InOrder(t)'
  BY <1>1, <1>2, <1>3, <1>4 DEF InOrder, Owned, Settled, Kept, IsError
<1>8. Fits(r, late'[r], asked'[r], fate'[r])
  BY <1>2, <1>3, LateStays DEF Owned
<1> QED  BY <1>2, <1>4, <1>5, <1>6, <1>7, <1>8, OthersStay

LEMMA CeleryKeepsInv ==
    ASSUME IInv, NEW t \in Threads, celery_after_request(t)
    PROVE  IInv'
<1> DEFINE r == serving[t]
<1> USE RequestsAssumption DEF celery_after_request, GoOn, Goto, history
<1>1. phase[t] = "celery"
  OBVIOUS
<1>2. /\ r \in Requests /\ r # None /\ fate[r] # "none" /\ answer[r] = "none"
      /\ \A u \in Threads \ {t} : serving[u] # r
      /\ done[r] \subseteq asked[r]
      /\ Owned(t, r) /\ Settled(t, r) /\ Kept(t, r) /\ LateOK(r)
  BY <1>1, Busy
<1>3. /\ phase'[t] = IF t \in WebThreads THEN "rollback" ELSE "send"
      /\ UNCHANGED <<serving, error, status, fate, asked, late, done, answer>>
      /\ queue'[t] = IF IsError(t) THEN {} ELSE queue[t]
  BY DEF IInv, TypeOK
<1>4. TypeOK'
  <2>1. queue' \in [Threads -> SUBSET Tasks]
    BY DEF IInv, TypeOK
  <2> QED  BY <1>1, <1>2, <2>1 DEF IInv, TypeOK, Phases
<1>5. Frame(t, r)
  BY DEF Frame, IInv, TypeOK
<1>6. InOrder(t)'
  BY <1>1, <1>2, <1>3 DEF InOrder, Owned, Settled, Kept, IsError
<1>7. Fits(r, late'[r], asked'[r], fate'[r])
  BY <1>2, <1>3, LateStays
<1> QED  BY <1>2, <1>3, <1>4, <1>5, <1>6, <1>7, OthersStay

LEMMA RollbackKeepsInv ==
    ASSUME IInv, NEW t \in Threads, transaction_teardown_request(t)
    PROVE  IInv'
<1> DEFINE r == serving[t]
<1> USE RequestsAssumption DEF transaction_teardown_request, GoOn, Goto, queues, history
<1>1. phase[t] = "rollback"
  OBVIOUS
<1>2. /\ r \in Requests /\ r # None /\ fate[r] # "none" /\ answer[r] = "none"
      /\ \A u \in Threads \ {t} : serving[u] # r
      /\ done[r] \subseteq asked[r]
      /\ Owned(t, r) /\ Settled(t, r) /\ Kept(t, r) /\ LateOK(r)
  BY <1>1, Busy
<1>3. /\ phase'[t] = "send" /\ UNCHANGED <<serving, error, status, queue, asked, late, done, answer>>
      /\ \A q \in Requests \ {r} : fate'[q] = fate[q]
      /\ fate'[r] = IF error[t] /\ r \notin Manual THEN "rolledback" ELSE fate[r]
  BY <1>2 DEF IInv, TypeOK
<1>4. TypeOK'
  <2>1. fate' \in [Requests -> {"none", "open", "committed", "rolledback"}]
    BY DEF IInv, TypeOK
  <2> QED  BY <1>1, <1>2, <2>1 DEF IInv, TypeOK, Phases
<1>5. Frame(t, r)
  BY <1>3 DEF Frame, IInv, TypeOK
<1>6. InOrder(t)'
  BY <1>1, <1>2, <1>3 DEF InOrder, Owned, Settled, Kept, IsError
<1>7. t \in WebThreads /\ r \notin Api
  BY <1>1, <1>2 DEF Settled, Owned, Threads
<1>8. Fits(r, late'[r], asked'[r], fate'[r])
  BY <1>2, <1>3, <1>7, LateStays
<1> QED  BY <1>2, <1>3, <1>4, <1>5, <1>6, <1>8, OthersStay

LEMMA SendKeepsInv ==
    ASSUME IInv, NEW t \in Threads, celery_teardown_request(t)
    PROVE  IInv'
<1> DEFINE r == serving[t]
<1> USE RequestsAssumption DEF celery_teardown_request, Answer, GoOn, Goto, Did, Sends
<1>1. phase[t] = "send"
  OBVIOUS
<1>2. /\ r \in Requests /\ r # None /\ fate[r] # "none" /\ answer[r] = "none"
      /\ \A u \in Threads \ {t} : serving[u] # r
      /\ done[r] \subseteq asked[r]
      /\ Owned(t, r) /\ Settled(t, r) /\ Kept(t, r) /\ LateOK(r)
  BY <1>1, Busy
<1>3. /\ phase'[t] = "idle" /\ serving'[t] = None /\ UNCHANGED <<error, status, postcommit, fate, asked, late>>
      /\ \/ done' = done /\ error[t] /\ answer'[r] = status[t]
         \/ \E S \in SUBSET queue[t] :
               /\ ~error[t]
               /\ done' = [done EXCEPT ![r] = @ \cup S]
               /\ \/ S = queue[t] /\ answer'[r] = status[t]
                  \/ answer'[r] = "failed"
  BY <1>2 DEF IInv, TypeOK
<1>4. TypeOK'
  <2>1. done' \in [Requests -> SUBSET Jobs]
    BY <1>3 DEF IInv, TypeOK, Jobs
  <2>2. queue' \in [Threads -> SUBSET Tasks]
    BY DEF IInv, TypeOK
  <2>3. answer' \in [Requests -> Statuses \cup {"none"}]
    BY DEF IInv, TypeOK, Statuses
  <2>4. serving' \in [Threads -> Requests \cup {None}] /\ phase' \in [Threads -> Phases]
    BY DEF IInv, TypeOK, Phases
  <2>5. \A u \in Threads : serving'[u] = None <=> phase'[u] = "idle"
    BY <1>3 DEF IInv, TypeOK
  <2> QED  BY <1>3, <2>1, <2>2, <2>3, <2>4, <2>5 DEF IInv, TypeOK
<1>5. Frame(t, r)
  BY <1>3 DEF Frame, IInv, TypeOK
<1>6. done'[r] \subseteq asked[r]
  BY <1>2, <1>3 DEF IInv, TypeOK, Owned
<1>7. ASSUME answer'[r] = "ok"
      PROVE  /\ fate[r] = "committed"
             /\ asked[r] \cap Tasks \subseteq done'[r]
             /\ asked[r] \cap Functions = {} => asked[r] \subseteq done'[r]
  <2>1. status[t] = "ok" /\ done'[r] = done[r] \cup queue[t]
    BY <1>2, <1>3, <1>7 DEF IInv, TypeOK, Owned
  <2>2. asked[r] \subseteq Tasks \cup PutOffs
    BY <1>2 DEF IInv, TypeOK, Jobs
  <2> QED  BY <1>1, <1>2, <2>1, <2>2 DEF Settled, Kept
<1>8. InOrder(t)'
  BY <1>3 DEF InOrder
<1>9. Fits(r, late'[r], asked'[r], fate'[r])
  BY <1>2, <1>3, LateStays
<1> QED  BY <1>2, <1>3, <1>4, <1>5, <1>6, <1>7, <1>8, <1>9, OthersStay

-----------------------------------------------------------------------------
(***************************************************************************)
(* A function that ends late was put off by its request, which may be      *)
(* answered by now.                                                        *)
(***************************************************************************)
LEMMA EndLateKeepsInv ==
    ASSUME IInv, NEW r \in Requests, EndLate(r)
    PROVE  IInv'
<1>1. PICK f \in late[r] : /\ late' = [late EXCEPT ![r] = @ \ {f}]
                           /\ done' \in {done, [done EXCEPT ![r] = @ \cup {f}]}
  BY DEF EndLate
<1>2. UNCHANGED <<serving, phase, error, status, queue, postcommit, fate, asked, answer>>
  BY DEF EndLate, thread, queues
<1>3. f \in asked[r] /\ f \in Functions
  BY <1>1 DEF IInv, LateOK, Fits, TypeOK
<1>4. /\ late' \in [Requests -> SUBSET Functions] /\ done' \in [Requests -> SUBSET Jobs]
      /\ \A q \in Requests :
            /\ late'[q] \subseteq late[q] /\ done[q] \subseteq done'[q]
            /\ done'[q] \subseteq done[q] \cup {f}
            /\ q # r => done'[q] = done[q]
  BY <1>1, <1>3 DEF IInv, TypeOK, Jobs, PutOffs
<1>5. TypeOK'
  BY <1>2, <1>4 DEF IInv, TypeOK
<1>6. Alone' /\ Fresh' /\ Answered'
  BY <1>2 DEF IInv, Alone, Fresh, Answered
<1>7. ASSUME NEW t \in Threads PROVE InOrder(t)'
  <2>1. CASE serving[t] = None
    BY <1>2, <2>1 DEF InOrder
  <2>2. CASE serving[t] # None
    <3>1. serving[t] \in Requests
      BY <2>2 DEF IInv, TypeOK
    <3>2. /\ late'[serving[t]] \subseteq late[serving[t]]
          /\ done[serving[t]] \subseteq done'[serving[t]]
      BY <1>4, <3>1
    <3>3. InOrder(t)
      BY DEF IInv
    <3> QED  BY <1>2, <2>2, <3>2, <3>3 DEF InOrder, Owned, Settled, Kept, IsError
  <2> QED  BY <2>1, <2>2
<1>8. \A q \in Requests : LateOK(q)'
  BY <1>2, <1>4 DEF IInv, LateOK, Fits
<1>9. NothingLeaks'
  BY <1>2, <1>3, <1>4 DEF IInv, NothingLeaks
<1>10. AnswerIsKept'
  BY <1>2, <1>4 DEF IInv, AnswerIsKept
<1> QED  BY <1>5, <1>6, <1>7, <1>8, <1>9, <1>10 DEF IInv

-----------------------------------------------------------------------------
LEMMA NextInv == IInv /\ [Next]_vars => IInv'
<1> SUFFICES ASSUME IInv, [Next]_vars PROVE IInv'
  OBVIOUS
<1>1. CASE UNCHANGED vars
  BY <1>1 DEF vars, thread, queues, history, IInv, TypeOK, Alone, Fresh, Answered, InOrder, Owned,
              Settled, Kept, LateOK, IsError, NothingLeaks, AnswerIsKept
<1>2. CASE \E r \in Requests : EndLate(r)
  BY <1>2, EndLateKeepsInv
<1>3. ASSUME NEW t \in Threads, Serve(t)
      PROVE  IInv'
  <2>1. CASE \E r \in Requests : transaction_before_request(t, r)
    BY <2>1, BeforeRequestKeepsInv
  <2>2. CASE \E r \in Requests : BeginFails(t, r)
    BY <2>2, BeginFailsKeepsInv
  <2>3. CASE \E x \in Tasks : enqueue_task(t, x)
    BY <2>3, EnqueueTaskKeepsInv
  <2>4. CASE \E x \in PutOffs : enqueue_postcommit_task(t, x)
    BY <2>4, EnqueuePostcommitKeepsInv
  <2>5. CASE WebView(t)
    BY <2>5, WebViewKeepsInv
  <2>6. CASE ApiView(t)
    BY <2>6, ApiViewKeepsInv
  <2>7. CASE postcommit_after_request(t)
    BY <2>7, PostcommitKeepsInv
  <2>8. CASE transaction_after_request(t)
    BY <2>8, TransactionKeepsInv
  <2>9. CASE celery_after_request(t)
    BY <2>9, CeleryKeepsInv
  <2>10. CASE transaction_teardown_request(t)
    BY <2>10, RollbackKeepsInv
  <2>11. CASE celery_teardown_request(t)
    BY <2>11, SendKeepsInv
  <2> QED  BY <1>3, <2>1, <2>2, <2>3, <2>4, <2>5, <2>6, <2>7, <2>8, <2>9, <2>10, <2>11 DEF Serve
<1> QED  BY <1>1, <1>2, <1>3 DEF Next

(***************************************************************************)
(* Every variable has its type; a thread is idle when it serves nothing.   *)
(***************************************************************************)
THEOREM TypeCorrect == Spec => []TypeOK
<1>1. IInv => TypeOK
  BY DEF IInv
<1> QED  BY InitInv, NextInv, <1>1, PTL DEF Spec

(***************************************************************************)
(* Nothing a request put off is run or handed over while another one is    *)
(* served, although a thread keeps its queues between requests.            *)
(***************************************************************************)
THEOREM NothingLeaksEver == Spec => []NothingLeaks
<1>1. IInv => NothingLeaks
  BY DEF IInv
<1> QED  BY InitInv, NextInv, <1>1, PTL DEF Spec

(***************************************************************************)
(* A request answered without an error was committed and its tasks are     *)
(* with the workers.                                                       *)
(***************************************************************************)
THEOREM AnswersAreKept == Spec => []AnswerIsKept
<1>1. IInv => AnswerIsKept
  BY DEF IInv
<1> QED  BY InitInv, NextInv, <1>1, PTL DEF Spec

-----------------------------------------------------------------------------
LEMMA StepHandsAfterCommit ==
    ASSUME IInv, [Next]_vars, NEW r \in Requests,
           (done'[r] \ done[r]) \cap Waits(r) # {}
    PROVE  fate[r] = "committed"
<1> USE RequestsAssumption
<1>1. CASE EndLate(r)
  <2>1. done'[r] \ done[r] \subseteq Functions /\ late[r] # {}
    BY <1>1 DEF EndLate, IInv, TypeOK
  <2>2. r \in Api
    BY <2>1 DEF Waits, PutOffs, Requests
  <2> QED  BY <2>1, <2>2 DEF IInv, LateOK, Fits
<1>2. CASE ~EndLate(r)
  <2>1. PICK t \in Threads :
          serving[t] = r /\ (postcommit_after_request(t) \/ celery_teardown_request(t))
    <3>1. ~(UNCHANGED vars)
      BY DEF vars, history
    <3>2. \A q \in Requests : ~EndLate(q)
      BY <1>2 DEF EndLate, IInv, TypeOK
    <3>3. PICK t \in Threads : postcommit_after_request(t) \/ celery_teardown_request(t)
      BY <3>1, <3>2 DEF Next, Serve, transaction_before_request, BeginFails, Accept, enqueue_task,
                  enqueue_postcommit_task, PutOff, WebView, ApiView, transaction_after_request,
                  celery_after_request, transaction_teardown_request, history
    <3>4. serving[t] = r
      BY <3>3 DEF postcommit_after_request, celery_teardown_request, Did, IInv, TypeOK
    <3> QED  BY <3>3, <3>4
  <2>2. CASE postcommit_after_request(t)
    <3>1. phase[t] = "postcommit" /\ ~IsError(t) /\ done'[r] \ done[r] \subseteq postcommit[t]
      BY <2>1, <2>2 DEF postcommit_after_request, Did, IInv, TypeOK
    <3>2. postcommit[t] \cap Tasks = {}
      BY DEF IInv, TypeOK
    <3>3. r \in Api /\ t \in ApiThreads
      BY <2>1, <3>1, <3>2, Busy DEF Waits, Owned, Threads
    <3> QED  BY <2>1, <3>1, <3>3, Busy DEF Settled
  <2>3. CASE celery_teardown_request(t)
    <3>1. phase[t] = "send" /\ ~error[t] /\ queue[t] # {}
      BY <2>1, <2>3 DEF celery_teardown_request, Sends, Did, IInv, TypeOK
    <3> QED  BY <2>1, <3>1, Busy DEF Settled
  <2> QED  BY <2>1, <2>2, <2>3
<1> QED  BY <1>1, <1>2

(***************************************************************************)
(* Workers get nothing before the commit, and in Django nothing put off is *)
(* done before it.                                                         *)
(***************************************************************************)
THEOREM HandsAfterCommit == Spec => HandedAfterCommit
<1>1. IInv /\ [Next]_vars =>
        [\A r \in Requests : (done'[r] \ done[r]) \cap Waits(r) # {} => fate[r] = "committed"]_vars
  BY StepHandsAfterCommit
<1> QED  BY InitInv, NextInv, <1>1, PTL DEF Spec, HandedAfterCommit
=============================================================================
