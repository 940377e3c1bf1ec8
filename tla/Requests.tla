------------------------------ MODULE Requests ------------------------------
(***************************************************************************)
(* How a request is served, and when what it puts off is run.  The web     *)
(* site is Flask: celery_tasks, transactions and postcommit_tasks attach   *)
(* their handlers in this order, and Flask calls those that follow the     *)
(* view in reverse.  The API and the administration site are Django: the   *)
(* view is one transaction (ATOMIC_REQUESTS), and middleware calls the     *)
(* same functions when that is over.  The queues are variables of the      *)
(* thread, which serves one request after another.                         *)
(***************************************************************************)

CONSTANTS
    WebThreads, \* threads of the web site
    ApiThreads, \* threads of the API and of the administration site
    Web,        \* requests to the web site
    Manual,     \* those whose view has no_auto_transaction
    Api,        \* the other requests
    Tasks,      \* put off with enqueue_task, for a celery worker
    Functions,  \* put off with enqueue_postcommit_task, run in the thread
    Deferred,   \* the same with celery=True, for a celery worker
    None

Threads  == WebThreads \cup ApiThreads
Requests == Web \cup Api
PutOffs  == Functions \cup Deferred
Jobs     == Tasks \cup PutOffs

ASSUME RequestsAssumption ==
    /\ WebThreads \cap ApiThreads = {}
    /\ Web \cap Api = {}
    /\ Manual \subseteq Web
    /\ None \notin Requests
    /\ Tasks \cap PutOffs = {}
    /\ Functions \cap Deferred = {}

VARIABLES
    serving,    \* the request a thread serves
    phase,      \* what it calls next
    error,      \* did an exception get out?
    status,     \* the status of the response
    queue,      \* _local.queue
    postcommit, \* _local.postcommit_queue and _local.postcommit_celery_queue
    fate,       \* what became of the transaction of a request
    asked,      \* what a request put off
    late,       \* functions of it that go on after the thread gave up waiting
    done,       \* what was run for it, or handed to a worker
    answer      \* the status its client was given

thread  == <<serving, phase, error, status>>
queues  == <<queue, postcommit>>
history == <<asked, late, done, answer>>
vars    == <<thread, queues, fate, history>>

\* Below 400, below 500, and the rest.
Statuses == {"ok", "refused", "failed"}

\* In this order; Django has no "transaction" and no "rollback".
Phases == {"idle", "view", "postcommit", "transaction", "celery", "rollback", "send"}

TypeOK ==
    /\ serving \in [Threads -> Requests \cup {None}]
    /\ phase \in [Threads -> Phases]
    /\ \A t \in Threads : serving[t] = None <=> phase[t] = "idle"
    /\ error \in [Threads -> BOOLEAN]
    /\ status \in [Threads -> Statuses]
    /\ queue \in [Threads -> SUBSET Tasks]
    /\ postcommit \in [Threads -> SUBSET PutOffs]
    /\ fate \in [Requests -> {"none", "open", "committed", "rolledback"}]
    /\ asked \in [Requests -> SUBSET Jobs]
    /\ late \in [Requests -> SUBSET Functions]
    /\ done \in [Requests -> SUBSET Jobs]
    /\ answer \in [Requests -> Statuses \cup {"none"}]

Init ==
    /\ serving = [t \in Threads |-> None]
    /\ phase = [t \in Threads |-> "idle"]
    /\ error = [t \in Threads |-> FALSE]
    /\ status = [t \in Threads |-> "ok"]
    /\ queue = [t \in Threads |-> {}]
    /\ postcommit = [t \in Threads |-> {}]
    /\ fate = [r \in Requests |-> "none"]
    /\ asked = [r \in Requests |-> {}]
    /\ late = [r \in Requests |-> {}]
    /\ done = [r \in Requests |-> {}]
    /\ answer = [r \in Requests |-> "none"]

-----------------------------------------------------------------------------
Goto(t, p) == phase' = [phase EXCEPT ![t] = p]

GoOn(t, p) == Goto(t, p) /\ UNCHANGED <<error, status>>

\* An exception gets out: no handler but those of the teardown is called.
Raise(t) ==
    /\ Goto(t, "rollback")
    /\ error' = [error EXCEPT ![t] = TRUE]
    /\ status' = [status EXCEPT ![t] = "failed"]

Ended(t, f) == fate' = [fate EXCEPT ![serving[t]] = f]

Did(t, S) == done' = [done EXCEPT ![serving[t]] = @ \cup S]

\* base_status_code_error: 500 on the web site, 400 in the middleware.
IsError(t) == status[t] = "failed" \/ (t \in ApiThreads /\ status[t] = "refused")

-----------------------------------------------------------------------------
(***************************************************************************)
(* Before the view.  BEGIN may fail on the web site; in Django it fails    *)
(* like any view.  Without a transaction every statement is committed.     *)
(***************************************************************************)
\* A mutant of celery_before_request: the queue of the thread is not emptied.
celery_before_nothing(t) == UNCHANGED queue

celery_before_request(t) == queue' = [queue EXCEPT ![t] = {}]

postcommit_before_request(t) == postcommit' = [postcommit EXCEPT ![t] = {}]

Accept(t, r) ==
    /\ phase[t] = "idle"
    /\ r \in IF t \in WebThreads THEN Web ELSE Api
    /\ fate[r] = "none"
    /\ serving' = [serving EXCEPT ![t] = r]
    /\ celery_before_request(t)
    /\ UNCHANGED history

transaction_before_request(t, r) ==
    /\ Accept(t, r)
    /\ postcommit_before_request(t)
    /\ fate' = [fate EXCEPT ![r] = IF r \in Manual THEN "committed" ELSE "open"]
    /\ error' = [error EXCEPT ![t] = FALSE]
    /\ status' = [status EXCEPT ![t] = "ok"]
    /\ Goto(t, "view")

BeginFails(t, r) ==
    /\ Accept(t, r)
    /\ r \in Web \ Manual
    /\ fate' = [fate EXCEPT ![r] = "rolledback"]
    /\ Raise(t)
    /\ UNCHANGED postcommit

-----------------------------------------------------------------------------
(***************************************************************************)
(* The view.  Putting the same thing off again changes nothing.            *)
(***************************************************************************)
PutOff(t, x) ==
    /\ phase[t] = "view"
    /\ asked' = [asked EXCEPT ![serving[t]] = @ \cup {x}]
    /\ UNCHANGED <<thread, fate, late, done, answer>>

enqueue_task(t, x) ==
    /\ PutOff(t, x)
    /\ queue' = [queue EXCEPT ![t] = @ \cup {x}]
    /\ UNCHANGED postcommit

\* A mutant of enqueue_postcommit_task: both kinds share the queue of celery.
enqueue_postcommit_task_in_queue(t, x) ==
    /\ PutOff(t, x)
    /\ queue' = [queue EXCEPT ![t] = @ \cup {x}]
    /\ UNCHANGED postcommit

enqueue_postcommit_task(t, x) ==
    /\ PutOff(t, x)
    /\ postcommit' = [postcommit EXCEPT ![t] = @ \cup {x}]
    /\ UNCHANGED queue

\* wrap_with_renderer answers most exceptions; rendering may raise one itself.
WebView(t) ==
    /\ phase[t] = "view"
    /\ t \in WebThreads
    /\ \/ /\ \E s \in Statuses : status' = [status EXCEPT ![t] = s]
          /\ Goto(t, "postcommit")
          /\ UNCHANGED error
       \/ Raise(t)
    /\ UNCHANGED <<serving, queues, fate, history>>

(***************************************************************************)
(* A response is committed whatever its status; an exception is rolled     *)
(* back and answered with an error, and one the framework does not know    *)
(* empties the queue.  A commit that fails is such an exception.           *)
(***************************************************************************)
ApiView(t) ==
    /\ phase[t] = "view"
    /\ t \in ApiThreads
    /\ \E s \in Statuses :
          /\ status' = [status EXCEPT ![t] = s]
          /\ \/ Ended(t, "committed") /\ UNCHANGED queue
             \/ s # "ok" /\ Ended(t, "rolledback") /\ UNCHANGED queue
             \/ s # "ok" /\ Ended(t, "rolledback") /\ queue' = [queue EXCEPT ![t] = {}]
    /\ Goto(t, "postcommit")
    /\ UNCHANGED <<serving, error, postcommit, history>>

-----------------------------------------------------------------------------
(***************************************************************************)
(* postcommit_after_request runs all functions and waits for them, at most *)
(* five seconds, then hands the others over one by one.  An exception of a *)
(* function comes out after the wait; the broker may fail in the middle.   *)
(* On the web site the exception gets out, in Django it makes the response *)
(* a failure - but an AttributeError is taken for a queue that was not     *)
(* initialized, and logged.  A function that took longer is left to        *)
(* itself, and nobody learns how it ends.                                  *)
(***************************************************************************)
AfterPostcommit(t) == IF t \in WebThreads THEN "transaction" ELSE "celery"

\* A mutant of Fail: the exception is logged, whatever it is.
FailQuietly(t) == GoOn(t, AfterPostcommit(t))

Fail(t) ==
    IF t \in WebThreads THEN Raise(t)
    ELSE /\ status' = [status EXCEPT ![t] = "failed"]
         /\ Goto(t, "celery")
         /\ UNCHANGED error

postcommit_after_request(t) ==
    /\ phase[t] = "postcommit"
    /\ \/ /\ IsError(t)
          /\ postcommit' = [postcommit EXCEPT ![t] = {}]
          /\ GoOn(t, AfterPostcommit(t))
          /\ UNCHANGED <<late, done>>
       \/ /\ ~IsError(t)
          /\ \E ran \in SUBSET (postcommit[t] \cap Functions) :
             \E slow \in SUBSET ((postcommit[t] \cap Functions) \ ran) :
             \E sent \in SUBSET (postcommit[t] \cap Deferred) :
                /\ Did(t, ran \cup sent)
                /\ late' = [late EXCEPT ![serving[t]] = slow]
                /\ IF ran \cup slow # postcommit[t] \cap Functions
                   THEN sent = {} /\ (Fail(t) \/ GoOn(t, AfterPostcommit(t)))
                   ELSE IF sent = postcommit[t] \cap Deferred
                        THEN GoOn(t, AfterPostcommit(t))
                        ELSE Fail(t)
          /\ UNCHANGED postcommit
    /\ UNCHANGED <<serving, queue, fate, asked, answer>>

\* A function that was not waited for ends, or fails.
EndLate(r) ==
    /\ \E f \in late[r] :
          /\ late' = [late EXCEPT ![r] = @ \ {f}]
          /\ done' \in {done, [done EXCEPT ![r] = @ \cup {f}]}
    /\ UNCHANGED <<thread, queues, fate, asked, answer>>

\* COMMIT may fail, which rolls back; so does a status of 500.
transaction_after_request(t) ==
    /\ phase[t] = "transaction"
    /\ \/ /\ fate' = IF serving[t] \in Manual THEN fate
                     ELSE [fate EXCEPT ![serving[t]] =
                             IF IsError(t) THEN "rolledback" ELSE "committed"]
          /\ GoOn(t, "celery")
       \/ /\ serving[t] \notin Manual
          /\ Ended(t, "rolledback")
          /\ Raise(t)
    /\ UNCHANGED <<serving, queues, history>>

celery_after_request(t) ==
    /\ phase[t] = "celery"
    /\ queue' = [queue EXCEPT ![t] = IF IsError(t) THEN {} ELSE @]
    /\ GoOn(t, IF t \in WebThreads THEN "rollback" ELSE "send")
    /\ UNCHANGED <<serving, postcommit, fate, history>>

-----------------------------------------------------------------------------
transaction_teardown_request(t) ==
    /\ phase[t] = "rollback"
    /\ fate' = IF error[t] /\ serving[t] \notin Manual
               THEN [fate EXCEPT ![serving[t]] = "rolledback"] ELSE fate
    /\ GoOn(t, "send")
    /\ UNCHANGED <<serving, queues, history>>

Answer(t, s) ==
    /\ answer' = [answer EXCEPT ![serving[t]] = s]
    /\ serving' = [serving EXCEPT ![t] = None]
    /\ GoOn(t, "idle")

\* A mutant of Sends: what was put off before an exception is sent as well.
SendsAlways(t) == TRUE

Sends(t) == ~error[t]

\* The broker may fail when part of the group was sent; the client then gets an error.
celery_teardown_request(t) ==
    /\ phase[t] = "send"
    /\ \/ /\ Sends(t)
          /\ Did(t, queue[t])
          /\ Answer(t, status[t])
          /\ UNCHANGED queue
       \/ /\ Sends(t)
          /\ \E S \in SUBSET queue[t] : S # queue[t] /\ Did(t, S)
          /\ Answer(t, "failed")
          /\ UNCHANGED queue
       \/ /\ ~Sends(t)
          /\ queue' = [queue EXCEPT ![t] = {}]
          /\ Answer(t, status[t])
          /\ UNCHANGED done
    /\ UNCHANGED <<postcommit, fate, asked, late>>

-----------------------------------------------------------------------------
Serve(t) ==
    \/ \E r \in Requests : transaction_before_request(t, r) \/ BeginFails(t, r)
    \/ \E x \in Tasks : enqueue_task(t, x)
    \/ \E x \in PutOffs : enqueue_postcommit_task(t, x)
    \/ WebView(t) \/ ApiView(t)
    \/ postcommit_after_request(t)
    \/ transaction_after_request(t)
    \/ celery_after_request(t)
    \/ transaction_teardown_request(t)
    \/ celery_teardown_request(t)

Next == (\E t \in Threads : Serve(t)) \/ (\E r \in Requests : EndLate(r))

Spec == Init /\ [][Next]_vars

-----------------------------------------------------------------------------
(***************************************************************************)
(* A thread serves many requests and keeps its queues between them: what   *)
(* is run or handed over for a request was put off by it.                  *)
(***************************************************************************)
NothingLeaks == \A r \in Requests : done[r] \subseteq asked[r]

(***************************************************************************)
(* A request that is answered without an error was committed and every     *)
(* task it put off was handed to the workers; so was everything else it    *)
(* put off, if it was no function, which may fail unnoticed.               *)
(***************************************************************************)
AnswerIsKept ==
    \A r \in Requests : answer[r] = "ok" =>
        /\ fate[r] = "committed"
        /\ asked[r] \cap Tasks \subseteq done[r]
        /\ asked[r] \cap Functions = {} => asked[r] \subseteq done[r]

(***************************************************************************)
(* What a worker gets from enqueue_task, and in Django whatever was put    *)
(* off, is handed over when the request has been committed: a worker sees  *)
(* what the request wrote, and nothing is done for one that is undone.     *)
(***************************************************************************)
Waits(r) == IF r \in Api THEN Jobs ELSE Tasks

HandedAfterCommit ==
    [][\A r \in Requests : (done'[r] \ done[r]) \cap Waits(r) # {} => fate[r] = "committed"]_vars
=============================================================================
