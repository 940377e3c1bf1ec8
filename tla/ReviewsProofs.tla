--------------------------- MODULE ReviewsProofs ---------------------------
(***************************************************************************)
(* What the runs of Reviews check for two requests at work, for any number *)
(* of requests, of authors and of withdrawal requests.                     *)
(***************************************************************************)
EXTENDS Reviews, TLAPS

-----------------------------------------------------------------------------
(***************************************************************************)
(* The inductive invariant: what is true of the row is true of every copy  *)
(* of it somebody may still write back.                                    *)
(***************************************************************************)
\* The jobs that hold a copy of the row of the preprint.
Copying(h) == handler[h].op \in {"found", "review", "answer", "publish", "create"}

\* A copy is published as its state says, and what it says is on record.
Sound(p, flow, known) ==
    /\ ~p.dated => (p.published <=> p.state \in Shown(flow))
    /\ flow = "none" /\ ~p.dated => p.state \in {"initial", "accepted"}
    /\ p.published => p.ever
    /\ flow # "post" /\ p.ever => known \cap {"accept", "publish"} # {}
    /\ p.dated => "withdraw" \in known

SoundRows ==
    /\ Sound(row, workflow, log)
    /\ \A h \in Handlers : Copying(h) => Sound(handler[h].row, workflow, log)

\* A provider that was reviewed when a request began is reviewed the same way.
SameFlow ==
    \A h \in Handlers :
        /\ handler[h].op = "review" => handler[h].flow = workflow /\ workflow # "none"
        /\ handler[h].op = "create" => handler[h].flow \in {"none", workflow}

\* Who holds the lock is alone, and what it has read is still so.
LockHolds ==
    \A h \in Handlers : Locks(h) =>
        /\ handler[h].row = row
        /\ Unlocked(h)
        /\ handler[h].op = "create" =>
               \A r \in Requests :
                   requests[r] # NoRequest => requests[r].creator # handler[h].creator

\* A copy of a withdrawal request is one of its author's.
SameCreator ==
    \A h \in Handlers : handler[h].op \in {"request", "answer"} =>
        /\ requests[handler[h].on] # NoRequest
        /\ requests[handler[h].on].creator = handler[h].request.creator

IInv == TypeOK /\ SoundRows /\ SameFlow /\ LockHolds /\ SameCreator /\ OneRequestEach

-----------------------------------------------------------------------------
(***************************************************************************)
(* The transitions of the machine.                                         *)
(***************************************************************************)

\* A trigger leads where the table of the preprints says.
LEMMA ReviewedIs ==
    ASSUME NEW p \in Preprints, NEW flow \in Workflows, NEW trigger, NEW to \in Reviewed(p, flow, trigger)
    PROVE  \/ trigger = "submit" /\ p.state = "initial" /\ to = "pending"
           \/ trigger = "submit" /\ flow = "pre" /\ p.state \in {"pending", "rejected"} /\ to = "pending"
           \/ trigger = "accept" /\ p.state \in {"pending", "rejected"} /\ to = "accepted"
           \/ trigger = "reject" /\ p.state \in {"pending", "accepted"} /\ to = "rejected"
           \/ trigger = "edit_comment" /\ p.state \in {"pending", "rejected", "accepted"} /\ to = p.state
           \/ trigger = "withdraw" /\ p.state \in {"pending", "accepted"} /\ to = "withdrawn"
<1>1. PICK t \in DefaultTransitions \cup Withdrawals \cup Resubmissions(flow) :
          t[1] = trigger /\ t[2] = p.state /\ t[3] = to
  BY DEF Reviewed
<1>2. CASE t \in DefaultTransitions
  BY <1>1, <1>2 DEF DefaultTransitions
<1>3. CASE t \in Withdrawals
  BY <1>1, <1>3 DEF Withdrawals
<1>4. CASE t \in Resubmissions(flow)
  BY <1>1, <1>4 DEF Resubmissions
<1>5. QED
  BY <1>1, <1>2, <1>3, <1>4

\* An answer to a withdrawal request leads to a state of a request.
LEMMA AnsweredIs ==
    ASSUME NEW q \in PreprintRequests, NEW trigger, NEW to \in Answered(q, trigger)
    PROVE  /\ to \in DefaultStates
           /\ to = "accepted" => trigger = "accept" \/ q.state = "accepted"
<1>1. PICK t \in DefaultTransitions : t[1] = trigger /\ t[2] = q.state /\ t[3] = to
  BY DEF Answered
<1>2. QED
  BY <1>1 DEF DefaultTransitions, DefaultStates, PreprintRequests

\* What each workflow shows.
LEMMA PublicIs ==
    /\ PublicStates["none"] = DefaultStates
    /\ PublicStates["pre"] = {"accepted"}
    /\ PublicStates["post"] = {"pending", "accepted"}
  BY DEF PublicStates

\* What is saved is a row.
LEMMA SavedType ==
    ASSUME NEW p \in Preprints, NEW flow \in Workflows, NEW to \in ReviewStates
    PROVE  SaveChanges(p, flow, to) \in Preprints
<1> DEFINE moved == [p EXCEPT !.state = to, !.dated = @ \/ to = "withdrawn"]
           shown == to \in PublicStates[flow]
           new == [moved EXCEPT !.published = shown, !.ever = @ \/ shown]
<1>1. moved \in Preprints
  BY DEF Preprints
<1>2. shown \in BOOLEAN
  OBVIOUS
<1> HIDE DEF moved, shown
<1>3. new \in Preprints
  BY <1>1, <1>2 DEF Preprints
<1>4. SaveChanges(p, flow, to) = IF moved.dated THEN moved ELSE new
  BY DEF SaveChanges, moved, shown
<1>5. QED
  BY <1>1, <1>3, <1>4

\* More on record does no harm.
LEMMA SoundMonotone ==
    ASSUME NEW p, NEW flow, NEW known, NEW more, known \subseteq more, Sound(p, flow, known)
    PROVE  Sound(p, flow, more)
  BY DEF Sound

\* A transition of the machine saves a sound row.
LEMMA ReviewSound ==
    ASSUME NEW p \in Preprints, NEW flow \in {"pre", "post"}, NEW known, NEW trigger,
           NEW to \in Reviewed(p, flow, trigger), Sound(p, flow, known)
    PROVE  /\ to \in ReviewStates
           /\ Sound(SaveChanges(p, flow, to), flow, known \cup ({trigger} \cap Recorded))
<1> DEFINE new == SaveChanges(p, flow, to)
           more == known \cup ({trigger} \cap Recorded)
<1>1. /\ to \in ReviewStates
      /\ to = "withdrawn" <=> trigger = "withdraw"
      /\ to = "accepted" => trigger = "accept" \/ p.state = "accepted"
  BY ReviewedIs DEF Workflows, ReviewStates, DefaultStates
<1>2. CASE p.dated \/ to = "withdrawn"
  <2>1. /\ new.state = to /\ new.dated = TRUE
        /\ new.published = p.published /\ new.ever = p.ever
    BY <1>2 DEF SaveChanges, Preprints
  <2>2. "withdraw" \in more
    BY <1>1, <1>2 DEF Sound, Recorded
  <2>3. QED
    BY <1>1, <2>1, <2>2 DEF Sound
<1>3. CASE ~(p.dated \/ to = "withdrawn")
  <2>1. /\ new.state = to /\ new.dated = FALSE
        /\ new.published = (to \in PublicStates[flow])
        /\ new.ever = (p.ever \/ to \in PublicStates[flow])
    BY <1>3 DEF SaveChanges, Preprints
  <2>2. ASSUME flow = "pre", to = "accepted" PROVE more \cap {"accept", "publish"} # {}
    <3>1. CASE trigger = "accept"
      BY <3>1 DEF Recorded
    <3>2. CASE p.state = "accepted"
      BY <1>3, <2>2, <3>2, PublicIs DEF Sound, Shown
    <3>3. QED
      BY <1>1, <2>2, <3>1, <3>2
  <2>3. flow # "post" /\ new.ever => more \cap {"accept", "publish"} # {}
    BY <2>1, <2>2, PublicIs DEF Sound
  <2>4. QED
    BY <1>1, <2>1, <2>3 DEF Sound, Shown
<1>4. QED
  BY <1>2, <1>3

\* So does a withdrawal, whatever workflow the copy was loaded under.
LEMMA WithdrawSound ==
    ASSUME NEW p \in Preprints, NEW flow, NEW before, NEW known, Sound(p, flow, known)
    PROVE  /\ SaveChanges(p, before, "withdrawn") \in Preprints
           /\ SaveChanges(p, before, "withdrawn").state = "withdrawn"
           /\ SaveChanges(p, before, "withdrawn").dated
           /\ SaveChanges(p, before, "withdrawn").ever = p.ever
           /\ Sound(SaveChanges(p, before, "withdrawn"), flow, known \cup {"withdraw"})
<1>1. SaveChanges(p, before, "withdrawn") = [p EXCEPT !.state = "withdrawn", !.dated = TRUE]
  BY DEF SaveChanges, Preprints
<1>2. QED
  BY <1>1 DEF Sound, Preprints, ReviewStates

\* And so does an author who publishes.
LEMMA PublishSound ==
    ASSUME NEW p \in Preprints, NEW flow \in Workflows, NEW known, Sound(p, flow, known)
    PROVE  LET new == [p EXCEPT !.state = "accepted", !.published = TRUE, !.ever = TRUE]
           IN  new \in Preprints /\ Sound(new, flow, known \cup {"publish"})
  BY PublicIs DEF Sound, Preprints, ReviewStates, DefaultStates, Workflows, Shown

\* A row of an unreviewed provider is one of any workflow the provider takes.
LEMMA SetUpSound ==
    ASSUME NEW p, NEW flow \in {"pre", "post"}, NEW known, Sound(p, "none", known)
    PROVE  Sound(p, flow, known)
  BY PublicIs DEF Sound, Shown

-----------------------------------------------------------------------------
(***************************************************************************)
(* Type correctness.                                                       *)
(***************************************************************************)

\* What the parts of a job are.
LEMMA JobType ==
    ASSUME NEW j \in Jobs
    PROVE  /\ j.op \in {"idle", "found", "review", "request", "answer", "publish", "create"}
           /\ j.op \in {"found", "review"} => j.trigger \in ReviewTriggers
           /\ j.op \in {"review", "answer", "create"} => j.flow \in Workflows
           /\ j.op \in {"found", "review", "answer", "publish", "create"} => j.row \in Preprints
           /\ j.op \in {"request", "answer"} =>
                  j.trigger \in DefaultTriggers /\ j.on \in Requests /\ j.request \in PreprintRequests
           /\ j.op = "create" => j.creator \in Creators
  BY DEF Jobs

\* An idle handler is one.
LEMMA IdleType == [op |-> "idle"] \in Jobs
  BY DEF Jobs

\* A step keeps the types.
LEMMA TypeStep == TypeOK /\ [Next]_vars => TypeOK'
<1> SUFFICES ASSUME TypeOK, [Next]_vars PROVE TypeOK'
  OBVIOUS
<1> USE DEF TypeOK
<1>1. ASSUME NEW h \in Handlers, NEW j \in Jobs, handler' = [handler EXCEPT ![h] = j]
      PROVE  handler' \in [Handlers -> Jobs]
  BY <1>1
<1>2. ASSUME NEW h \in Handlers, Ends(h) PROVE handler' \in [Handlers -> Jobs]
  BY <1>1, <1>2, IdleType DEF Ends
<1>3. CASE SetUp
  BY <1>3 DEF SetUp, Workflows
<1>4. ASSUME NEW h \in Handlers, OpenReview(h) PROVE TypeOK'
  <2>1. PICK t \in ReviewTriggers : Begins(h, [op |-> "found", trigger |-> t, row |-> row])
    BY <1>4 DEF OpenReview
  <2>2. [op |-> "found", trigger |-> t, row |-> row] \in Jobs
    BY DEF Jobs
  <2>3. QED
    BY <1>1, <2>1, <2>2 DEF Begins
<1>4a. ASSUME NEW h \in Handlers, ReadProvider(h) PROVE TypeOK'
  <2> DEFINE j == [op |-> "review", trigger |-> handler[h].trigger, row |-> handler[h].row,
                   flow |-> workflow]
  <2>1. j \in Jobs
    BY <1>4a, JobType DEF ReadProvider, Jobs
  <2>2. QED
    BY <1>1, <1>4a, <2>1 DEF ReadProvider
<1>5. ASSUME NEW h \in Handlers, OpenAnswer(h) PROVE TypeOK'
  <2>1. PICK r \in Requests, t \in DefaultTriggers :
            /\ requests[r] # NoRequest
            /\ Begins(h, [op |-> "request", trigger |-> t, on |-> r, request |-> requests[r]])
    BY <1>5 DEF OpenAnswer
  <2>2. [op |-> "request", trigger |-> t, on |-> r, request |-> requests[r]] \in Jobs
    BY <2>1 DEF Jobs
  <2>3. QED
    BY <1>1, <2>1, <2>2 DEF Begins
<1>6. ASSUME NEW h \in Handlers, ReadTarget(h) PROVE TypeOK'
  <2> DEFINE j == [op |-> "answer", trigger |-> handler[h].trigger, on |-> handler[h].on,
                   request |-> handler[h].request, row |-> row, flow |-> workflow]
  <2>1. j \in Jobs
    BY <1>6, JobType DEF ReadTarget, Jobs
  <2>2. QED
    BY <1>1, <1>6, <2>1 DEF ReadTarget
<1>7. ASSUME NEW h \in Handlers, OpenPublish(h) PROVE TypeOK'
  <2>1. [op |-> "publish", row |-> row] \in Jobs
    BY DEF Jobs
  <2>2. QED
    BY <1>1, <1>7, <2>1 DEF OpenPublish, Begins
<1>8. ASSUME NEW h \in Handlers, OpenCreate(h) PROVE TypeOK'
  <2>1. PICK c \in Creators :
            Begins(h, [op |-> "create", creator |-> c, row |-> row, flow |-> workflow])
    BY <1>8 DEF OpenCreate
  <2>2. [op |-> "create", creator |-> c, row |-> row, flow |-> workflow] \in Jobs
    BY DEF Jobs
  <2>3. QED
    BY <1>1, <2>1, <2>2 DEF Begins
<1>9. ASSUME NEW h \in Handlers, Review(h) PROVE TypeOK'
  <2>1. handler[h].row \in Preprints /\ handler[h].flow \in Workflows
    BY <1>9, JobType DEF Review
  <2>2. PICK to \in Reviewed(handler[h].row, handler[h].flow, handler[h].trigger) :
            row' = SaveChanges(handler[h].row, handler[h].flow, to)
    BY <1>9 DEF Review
  <2>3. to \in ReviewStates
    BY <2>1, ReviewedIs DEF ReviewStates, DefaultStates
  <2>4. row' \in Preprints
    BY <2>1, <2>2, <2>3, SavedType
  <2>5. QED
    BY <1>2, <1>9, <2>4 DEF Review
<1>10. ASSUME NEW p \in Preprints, NEW flow \in Workflows, Withdraw(p, flow)
       PROVE  row' \in Preprints /\ log' \in SUBSET Recorded
  BY <1>10, SavedType DEF Withdraw, ReviewStates, Recorded
<1>11. ASSUME NEW h \in Handlers, Answer(h) PROVE TypeOK'
  <2>1. /\ handler[h].row \in Preprints /\ handler[h].flow \in Workflows
        /\ handler[h].request \in PreprintRequests
    BY <1>11, JobType DEF Answer
  <2>2. PICK to \in Answered(handler[h].request, handler[h].trigger) :
            requests' = [requests EXCEPT ![handler[h].on] = [handler[h].request EXCEPT !.state = to]]
    BY <1>11 DEF Answer
  <2>3. [handler[h].request EXCEPT !.state = to] \in PreprintRequests
    BY <2>1, AnsweredIs DEF PreprintRequests
  <2>4. row' \in Preprints /\ log' \in SUBSET Recorded
    BY <1>10, <1>11, <2>1 DEF Answer
  <2>5. QED
    BY <1>2, <1>11, <2>2, <2>3, <2>4 DEF Answer
<1>12. ASSUME NEW h \in Handlers, Publish(h) PROVE TypeOK'
  <2>1. row' \in Preprints
    BY <1>12, JobType DEF Publish, Preprints, ReviewStates, DefaultStates
  <2>2. QED
    BY <1>2, <1>12, <2>1 DEF Publish, Recorded
<1>13. ASSUME NEW h \in Handlers, Create(h) PROVE TypeOK'
  <2>1. /\ handler[h].row \in Preprints /\ handler[h].flow \in Workflows
        /\ handler[h].creator \in Creators
    BY <1>13, JobType DEF Create
  <2>2. requests' \in [Requests -> PreprintRequests \cup {NoRequest}]
    BY <1>13, <2>1 DEF Create, PreprintRequests, DefaultStates
  <2>3. row' \in Preprints /\ log' \in SUBSET Recorded
    BY <1>10, <1>13, <2>1 DEF Create
  <2>4. QED
    BY <1>2, <1>13, <2>2, <2>3 DEF Create
<1>14. ASSUME NEW h \in Handlers, Refuse(h) PROVE TypeOK'
  BY <1>2, <1>14 DEF Refuse
<1>15. CASE UNCHANGED vars
  BY <1>15 DEF vars
<1>16. QED
  BY <1>3, <1>4, <1>5, <1>6, <1>7, <1>8, <1>9, <1>11, <1>12, <1>13, <1>14, <1>15, <1>4a DEF Next

-----------------------------------------------------------------------------
(***************************************************************************)
(* Each part of the invariant is kept.                                     *)
(***************************************************************************)

\* A step that leaves sound rows sound, and copies nothing but a sound one.
LEMMA CopiesKept ==
    ASSUME TypeOK, SoundRows, NEW h \in Handlers, NEW j,
           handler' = [handler EXCEPT ![h] = j],
           workflow' = workflow, log \subseteq log', Sound(row', workflow, log'),
           j.op \in {"found", "review", "answer", "publish", "create"} =>
               Sound(j.row, workflow, log)
    PROVE  SoundRows'
<1>1. Sound(row, workflow, log')
  BY SoundMonotone DEF SoundRows
<1>2. ASSUME NEW g \in Handlers, handler'[g].op \in {"found", "review", "answer", "publish", "create"}
      PROVE  Sound(handler'[g].row, workflow, log')
  <2>1. CASE g = h
    <3>1. handler'[g] = j
      BY <2>1 DEF TypeOK
    <3>2. QED
      BY <1>2, <3>1, SoundMonotone
  <2>2. CASE g # h
    <3>1. handler'[g] = handler[g]
      BY <2>2 DEF TypeOK
    <3>2. Sound(handler[g].row, workflow, log)
      BY <1>2, <3>1 DEF SoundRows, Copying
    <3>3. QED
      BY <3>1, <3>2, SoundMonotone
  <2>3. QED
    BY <2>1, <2>2
<1>3. Sound(row', workflow', log')
  OBVIOUS
<1>4. QED
  BY <1>2, <1>3 DEF SoundRows, Copying

\* A withdrawal of a sound copy leaves a sound row.
LEMMA WithdrawStep ==
    ASSUME NEW p \in Preprints, NEW flow, Sound(p, workflow, log), Withdraw(p, flow)
    PROVE  Sound(row', workflow, log') /\ log \subseteq log'
  BY WithdrawSound DEF Withdraw

\* The rows that may be written back stay sound.
LEMMA SoundStep == TypeOK /\ SoundRows /\ SameFlow /\ [Next]_vars => SoundRows'
<1> SUFFICES ASSUME TypeOK, SoundRows, SameFlow, [Next]_vars PROVE SoundRows'
  OBVIOUS
<1> DEFINE idle == [op |-> "idle"]
<1>1. CASE SetUp
  <2>1. /\ workflow = "none" /\ workflow' \in {"pre", "post"}
        /\ row' = row /\ log' = log /\ handler' = handler
    BY <1>1 DEF SetUp
  <2>2. Sound(row, workflow', log)
    BY <2>1, SetUpSound DEF SoundRows
  <2>3. \A h \in Handlers : Copying(h) => Sound(handler[h].row, workflow', log)
    BY <2>1, SetUpSound DEF SoundRows
  <2>4. QED
    BY <2>1, <2>2, <2>3 DEF SoundRows, Copying
<1>2. ASSUME NEW h \in Handlers, NEW j, Begins(h, j),
             j.op \in {"found", "review", "answer", "publish", "create"} => j.row = row
      PROVE  SoundRows'
  BY <1>2, CopiesKept DEF Begins, SoundRows
<1>3. ASSUME NEW h \in Handlers, OpenReview(h) PROVE SoundRows'
  BY <1>2, <1>3 DEF OpenReview
<1>3a. ASSUME NEW h \in Handlers, ReadProvider(h) PROVE SoundRows'
  <2>1. Sound(handler[h].row, workflow, log)
    BY <1>3a DEF ReadProvider, SoundRows, Copying
  <2>2. QED
    BY <1>3a, <2>1, CopiesKept DEF ReadProvider, SoundRows
<1>4. ASSUME NEW h \in Handlers, OpenAnswer(h) PROVE SoundRows'
  BY <1>2, <1>4 DEF OpenAnswer
<1>5. ASSUME NEW h \in Handlers, ReadTarget(h) PROVE SoundRows'
  BY <1>5, CopiesKept DEF ReadTarget, SoundRows
<1>6. ASSUME NEW h \in Handlers, OpenPublish(h) PROVE SoundRows'
  BY <1>2, <1>6 DEF OpenPublish
<1>7. ASSUME NEW h \in Handlers, OpenCreate(h) PROVE SoundRows'
  BY <1>2, <1>7 DEF OpenCreate
<1>8. ASSUME NEW h \in Handlers, handler' = [handler EXCEPT ![h] = idle],
             workflow' = workflow, log \subseteq log', Sound(row', workflow, log')
      PROVE  SoundRows'
  BY <1>8, CopiesKept
<1>9. ASSUME NEW h \in Handlers, Copying(h)
      PROVE  handler[h].row \in Preprints /\ Sound(handler[h].row, workflow, log)
  BY <1>9, JobType DEF Copying, TypeOK, SoundRows
<1>10. ASSUME NEW h \in Handlers, Review(h) PROVE SoundRows'
  <2>1. /\ handler[h].row \in Preprints /\ Sound(handler[h].row, workflow, log)
        /\ handler[h].flow = workflow /\ workflow \in {"pre", "post"}
    BY <1>9, <1>10 DEF Review, Copying, SameFlow, TypeOK, Workflows
  <2>2. PICK to \in Reviewed(handler[h].row, workflow, handler[h].trigger) :
            row' = SaveChanges(handler[h].row, workflow, to)
    BY <1>10, <2>1 DEF Review
  <2>3. log' = log \cup ({handler[h].trigger} \cap Recorded)
    BY <1>10 DEF Review
  <2>4. Sound(row', workflow, log')
    BY <2>1, <2>2, <2>3, ReviewSound
  <2>5. QED
    BY <1>8, <1>10, <2>3, <2>4 DEF Review, Ends
<1>11. ASSUME NEW h \in Handlers, Answer(h) PROVE SoundRows'
  <2>1. Sound(row', workflow, log') /\ log \subseteq log'
    <3>1. CASE handler[h].trigger = "accept"
      BY <1>9, <1>11, <3>1, WithdrawStep DEF Answer, Copying
    <3>2. CASE handler[h].trigger # "accept"
      BY <1>11, <3>2 DEF Answer, SoundRows
    <3>3. QED
      BY <3>1, <3>2
  <2>2. QED
    BY <1>8, <1>11, <2>1 DEF Answer, Ends
<1>12. ASSUME NEW h \in Handlers, Publish(h) PROVE SoundRows'
  <2>1. Sound(row', workflow, log') /\ log \subseteq log'
    BY <1>9, <1>12, PublishSound DEF Publish, Copying, TypeOK
  <2>2. QED
    BY <1>8, <1>12, <2>1 DEF Publish, Ends
<1>13. ASSUME NEW h \in Handlers, Create(h) PROVE SoundRows'
  <2>1. Sound(row', workflow, log') /\ log \subseteq log'
    <3>1. CASE AutoApproved(handler[h].row, handler[h].flow)
      BY <1>9, <1>13, <3>1, WithdrawStep DEF Create, Copying
    <3>2. CASE ~AutoApproved(handler[h].row, handler[h].flow)
      BY <1>13, <3>2 DEF Create, SoundRows
    <3>3. QED
      BY <3>1, <3>2
  <2>2. QED
    BY <1>8, <1>13, <2>1 DEF Create, Ends
<1>14. ASSUME NEW h \in Handlers, Refuse(h) PROVE SoundRows'
  BY <1>8, <1>14 DEF Refuse, Ends, SoundRows
<1>15. CASE UNCHANGED vars
  BY <1>15 DEF vars, SoundRows, Copying
<1>16. QED
  BY <1>1, <1>3, <1>4, <1>5, <1>6, <1>7, <1>10, <1>11, <1>12, <1>13, <1>14, <1>15, <1>3a DEF Next

\* A request goes on with the workflow its provider has, or had none.
LEMMA FlowStep == TypeOK /\ SameFlow /\ [Next]_vars => SameFlow'
<1> SUFFICES ASSUME TypeOK, SameFlow, [Next]_vars PROVE SameFlow'
  OBVIOUS
<1>1. CASE SetUp
  BY <1>1 DEF SetUp, SameFlow
<1>2. ASSUME NEW h \in Handlers, NEW j, handler' = [handler EXCEPT ![h] = j], workflow' = workflow,
             j.op = "review" => j.flow = workflow /\ workflow # "none",
             j.op = "create" => j.flow = workflow
      PROVE  SameFlow'
  BY <1>2 DEF SameFlow, TypeOK
<1>3. ASSUME NEW h \in Handlers, OpenReview(h) PROVE SameFlow'
  BY <1>2, <1>3 DEF OpenReview, Begins
<1>3a. ASSUME NEW h \in Handlers, ReadProvider(h) PROVE SameFlow'
  BY <1>2, <1>3a DEF ReadProvider
<1>4. ASSUME NEW h \in Handlers, OpenAnswer(h) PROVE SameFlow'
  BY <1>2, <1>4 DEF OpenAnswer, Begins
<1>5. ASSUME NEW h \in Handlers, ReadTarget(h) PROVE SameFlow'
  BY <1>2, <1>5 DEF ReadTarget
<1>6. ASSUME NEW h \in Handlers, OpenPublish(h) PROVE SameFlow'
  BY <1>2, <1>6 DEF OpenPublish, Begins
<1>7. ASSUME NEW h \in Handlers, OpenCreate(h) PROVE SameFlow'
  BY <1>2, <1>7 DEF OpenCreate, Begins
<1>8. ASSUME NEW h \in Handlers, Ends(h), workflow' = workflow PROVE SameFlow'
  BY <1>2, <1>8 DEF Ends
<1>9. ASSUME NEW h \in Handlers, Review(h) \/ Answer(h) \/ Publish(h) \/ Create(h) \/ Refuse(h)
      PROVE  SameFlow'
  BY <1>8, <1>9 DEF Review, Answer, Publish, Create, Refuse
<1>10. CASE UNCHANGED vars
  BY <1>10 DEF vars, SameFlow
<1>11. QED
  BY <1>1, <1>3, <1>4, <1>5, <1>6, <1>7, <1>9, <1>10, <1>3a DEF Next

\* Who commits is the only one that may hold the lock.
LEMMA Released ==
    ASSUME TypeOK, NEW h \in Handlers, Unlocked(h), Ends(h)
    PROVE  \A g \in Handlers : ~Locks(g)'
  BY DEF Unlocked, Ends, Locks, TypeOK

\* The lock is one request's, and what that has read stays so.
LEMMA LockStep == TypeOK /\ LockHolds /\ [Next]_vars => LockHolds'
<1> SUFFICES ASSUME TypeOK, LockHolds, [Next]_vars PROVE LockHolds'
  OBVIOUS
<1>1. CASE SetUp
  BY <1>1 DEF SetUp, LockHolds, Locks, Unlocked
<1>2. ASSUME NEW h \in Handlers, NEW j, handler' = [handler EXCEPT ![h] = j],
             j.op \notin {"publish", "create"}, row' = row, requests' = requests
      PROVE  LockHolds'
  <2>1. ASSUME NEW g \in Handlers, Locks(g)' PROVE g # h /\ handler'[g] = handler[g] /\ Locks(g)
    BY <1>2, <2>1 DEF Locks, TypeOK
  <2>2. ASSUME NEW g \in Handlers, Locks(g)' PROVE Unlocked(g)'
    BY <2>1, <2>2 DEF LockHolds, Unlocked
  <2>3. QED
    BY <1>2, <2>1, <2>2 DEF LockHolds
<1>3. ASSUME NEW h \in Handlers, OpenReview(h) PROVE LockHolds'
  BY <1>2, <1>3 DEF OpenReview, Begins
<1>3a. ASSUME NEW h \in Handlers, ReadProvider(h) PROVE LockHolds'
  BY <1>2, <1>3a DEF ReadProvider
<1>4. ASSUME NEW h \in Handlers, OpenAnswer(h) PROVE LockHolds'
  BY <1>2, <1>4 DEF OpenAnswer, Begins
<1>5. ASSUME NEW h \in Handlers, ReadTarget(h) PROVE LockHolds'
  BY <1>2, <1>5 DEF ReadTarget
<1>6. ASSUME NEW h \in Handlers, NEW j, Unlocked(h), Begins(h, j), j.row = row,
             j.op = "create" =>
                 \A r \in Requests : requests[r] # NoRequest => requests[r].creator # j.creator
      PROVE  LockHolds'
  <2>1. ASSUME NEW g \in Handlers, Locks(g)' PROVE g = h
    BY <1>6, <2>1 DEF Begins, Unlocked, Locks, TypeOK
  <2>2. handler'[h] = j /\ row' = row /\ requests' = requests
    BY <1>6 DEF Begins, TypeOK
  <2>3. Unlocked(h)'
    BY <2>1 DEF Unlocked
  <2>4. QED
    BY <1>6, <2>1, <2>2, <2>3 DEF LockHolds
<1>7. ASSUME NEW h \in Handlers, OpenPublish(h) PROVE LockHolds'
  BY <1>6, <1>7 DEF OpenPublish
<1>8. ASSUME NEW h \in Handlers, OpenCreate(h) PROVE LockHolds'
  <2>1. PICK c \in Creators :
            /\ \A r \in Requests : requests[r] # NoRequest => requests[r].creator # c
            /\ Begins(h, [op |-> "create", creator |-> c, row |-> row, flow |-> workflow])
    BY <1>8 DEF OpenCreate
  <2>2. QED
    BY <1>6, <1>8, <2>1 DEF OpenCreate
<1>9. ASSUME NEW h \in Handlers, Review(h) \/ Answer(h) \/ Publish(h) \/ Create(h)
      PROVE  LockHolds'
  <2>1. Unlocked(h)
    BY <1>9 DEF Review, Answer, Publish, Create, LockHolds, Locks
  <2>2. Ends(h)
    BY <1>9 DEF Review, Answer, Publish, Create
  <2>3. QED
    BY <2>1, <2>2, Released DEF LockHolds
<1>10. ASSUME NEW h \in Handlers, Refuse(h) PROVE LockHolds'
  BY <1>2, <1>10 DEF Refuse, Ends
<1>11. CASE UNCHANGED vars
  BY <1>11 DEF vars, LockHolds, Locks, Unlocked
<1>12. QED
  BY <1>1, <1>3, <1>4, <1>5, <1>7, <1>8, <1>9, <1>10, <1>11, <1>3a DEF Next

\* No step changes whose a withdrawal request is.
LEMMA CreatorKept ==
    ASSUME TypeOK, SameCreator, [Next]_vars, NEW r \in Requests, requests[r] # NoRequest
    PROVE  requests'[r] # NoRequest /\ requests'[r].creator = requests[r].creator
<1>1. ASSUME NEW h \in Handlers, Answer(h)
      PROVE  requests'[r] # NoRequest /\ requests'[r].creator = requests[r].creator
  <2>1. /\ handler[h].request \in PreprintRequests /\ handler[h].on \in Requests
        /\ requests[handler[h].on].creator = handler[h].request.creator
    BY <1>1, JobType DEF Answer, SameCreator, TypeOK
  <2>2. PICK to \in Answered(handler[h].request, handler[h].trigger) :
            requests' = [requests EXCEPT ![handler[h].on] = [handler[h].request EXCEPT !.state = to]]
    BY <1>1 DEF Answer
  <2>3. [handler[h].request EXCEPT !.state = to] \in PreprintRequests
    BY <2>1, AnsweredIs DEF PreprintRequests
  <2>4. [handler[h].request EXCEPT !.state = to].creator = handler[h].request.creator
    BY <2>1 DEF PreprintRequests
  <2>5. QED
    BY <2>1, <2>2, <2>3, <2>4, NoRequestAssumption DEF TypeOK
<1>2. ASSUME NEW h \in Handlers, Create(h)
      PROVE  requests'[r] # NoRequest /\ requests'[r].creator = requests[r].creator
  BY <1>2 DEF Create, TypeOK
<1>3. CASE requests' = requests
  BY <1>3
<1>4. QED
  BY <1>1, <1>2, <1>3 DEF Next, SetUp, OpenReview, ReadProvider, OpenAnswer, ReadTarget, OpenPublish, OpenCreate,
     Begins, Review, Publish, Refuse, vars

\* So a copy of one stays its author's.
LEMMA CreatorStep == TypeOK /\ SameCreator /\ [Next]_vars => SameCreator'
<1> SUFFICES ASSUME TypeOK, SameCreator, [Next]_vars PROVE SameCreator'
  OBVIOUS
<1>1. ASSUME NEW h \in Handlers, NEW r \in Requests, NEW q \in PreprintRequests,
             requests[r] # NoRequest, requests[r].creator = q.creator,
             handler'[h].on = r, handler'[h].request = q
      PROVE  /\ requests'[handler'[h].on] # NoRequest
             /\ requests'[handler'[h].on].creator = handler'[h].request.creator
  BY <1>1, CreatorKept
<1>2. ASSUME NEW h \in Handlers, handler'[h] = handler[h], handler[h].op \in {"request", "answer"}
      PROVE  /\ requests'[handler'[h].on] # NoRequest
             /\ requests'[handler'[h].on].creator = handler'[h].request.creator
  BY <1>1, <1>2, JobType DEF SameCreator, TypeOK
<1>3. ASSUME NEW g \in Handlers, NEW j, handler' = [handler EXCEPT ![g] = j],
             j.op \in {"request", "answer"} =>
                 /\ j.on \in Requests /\ j.request \in PreprintRequests
                 /\ requests[j.on] # NoRequest
                 /\ requests[j.on].creator = j.request.creator
      PROVE  SameCreator'
  BY <1>1, <1>2, <1>3 DEF SameCreator, TypeOK
<1>4. ASSUME NEW g \in Handlers, Ends(g) PROVE SameCreator'
  BY <1>3, <1>4 DEF Ends
<1>5. ASSUME NEW g \in Handlers, OpenReview(g) \/ OpenPublish(g) \/ OpenCreate(g) PROVE SameCreator'
  BY <1>3, <1>5 DEF OpenReview, OpenPublish, OpenCreate, Begins
<1>6. ASSUME NEW g \in Handlers, OpenAnswer(g) PROVE SameCreator'
  BY <1>3, <1>6 DEF OpenAnswer, Begins, TypeOK
<1>7. ASSUME NEW g \in Handlers, ReadTarget(g) PROVE SameCreator'
  BY <1>3, <1>7, JobType DEF ReadTarget, SameCreator, TypeOK
<1>5a. ASSUME NEW g \in Handlers, ReadProvider(g) PROVE SameCreator'
  BY <1>3, <1>5a DEF ReadProvider
<1>8. CASE handler' = handler
  BY <1>2, <1>8 DEF SameCreator
<1>9. QED
  BY <1>4, <1>5, <1>6, <1>7, <1>8, <1>5a
     DEF Next, SetUp, Review, Answer, Publish, Create, Refuse, vars

\* A request to withdraw is created by somebody who has none.
LEMMA OneStep == IInv /\ [Next]_vars => OneRequestEach'
<1> SUFFICES ASSUME IInv, [Next]_vars PROVE OneRequestEach'
  OBVIOUS
<1> USE DEF IInv
<1>1. ASSUME NEW h \in Handlers, Create(h) PROVE OneRequestEach'
  <2>1. PICK r \in Requests, s \in DefaultStates :
            /\ requests[r] = NoRequest
            /\ requests' = [requests EXCEPT ![r] = [creator |-> handler[h].creator, state |-> s]]
    BY <1>1 DEF Create, DefaultStates
  <2>2. \A q \in Requests : requests[q] # NoRequest => requests[q].creator # handler[h].creator
    BY <1>1 DEF Create, LockHolds, Locks
  <2>3. QED
    BY <2>1, <2>2 DEF OneRequestEach, TypeOK
<1>2. CASE \A r \in Requests : requests[r] = NoRequest => requests'[r] = NoRequest
  BY <1>2, CreatorKept DEF OneRequestEach
<1>3. ASSUME NEW h \in Handlers, Answer(h)
      PROVE  \A r \in Requests : requests[r] = NoRequest => requests'[r] = NoRequest
  BY <1>3 DEF Answer, SameCreator, TypeOK
<1>4. QED
  BY <1>1, <1>2, <1>3 DEF Next, SetUp, OpenReview, ReadProvider, OpenAnswer, ReadTarget, OpenPublish, OpenCreate,
     Begins, Review, Publish, Refuse, vars

-----------------------------------------------------------------------------
(***************************************************************************)
(* The invariants.                                                         *)
(***************************************************************************)

\* A preprint begins sound, and nobody is at work on it.
LEMMA InitHolds == Init => IInv
<1> SUFFICES ASSUME Init PROVE IInv
  OBVIOUS
<1>1. TypeOK
  BY FlowsAssumption, IdleType
     DEF Init, TypeOK, Preprints, ReviewStates, DefaultStates, PreprintRequests
<1>2. SoundRows
  BY FlowsAssumption, PublicIs DEF Init, SoundRows, Sound, Shown, Copying, Workflows
<1>3. SameFlow /\ LockHolds /\ SameCreator /\ OneRequestEach
  BY DEF Init, SameFlow, LockHolds, Locks, SameCreator, OneRequestEach
<1>4. QED
  BY <1>1, <1>2, <1>3 DEF IInv

\* Every step keeps the invariant.
LEMMA StepHolds == IInv /\ [Next]_vars => IInv'
  BY TypeStep, SoundStep, FlowStep, LockStep, CreatorStep, OneStep DEF IInv

\* Every reachable state satisfies it.
LEMMA AlwaysHolds == Spec => []IInv
  BY InitHolds, StepHolds, PTL DEF Spec

\* Every variable has its type, whatever overlaps.
THEOREM TypeCorrect == Spec => []TypeOK
<1>1. IInv => TypeOK
  BY DEF IInv
<1>2. QED
  BY <1>1, AlwaysHolds, PTL

\* A preprint that is not withdrawn is published exactly in the states its
\* provider shows: PublishedIsPublic, for any number of overlapping requests.
THEOREM PublishedAsShown == Spec => []PublishedIsPublic
<1>1. IInv => PublishedIsPublic
  BY DEF IInv, SoundRows, Sound, PublishedIsPublic
<1>2. QED
  BY <1>1, AlwaysHolds, PTL

\* Under pre-moderation what has been public was accepted by a moderator or
\* published before the provider was reviewed: NothingUnmoderated.
THEOREM Moderated == Spec => []NothingUnmoderated
<1>1. IInv => NothingUnmoderated
  BY DEF IInv, SoundRows, Sound, NothingUnmoderated
<1>2. QED
  BY <1>1, AlwaysHolds, PTL

\* No author has two requests to withdraw the preprint: OneRequestEach.
THEOREM OneRequestPerAuthor == Spec => []OneRequestEach
<1>1. IInv => OneRequestEach
  BY DEF IInv
<1>2. QED
  BY <1>1, AlwaysHolds, PTL

-----------------------------------------------------------------------------
(***************************************************************************)
(* What no step does.                                                      *)
(***************************************************************************)

\* The steps that touch the rows.
LEMMA Writers ==
    ASSUME [Next]_vars
    PROVE  \/ row' = row /\ requests' = requests
           \/ \E h \in Handlers : Review(h) \/ Answer(h) \/ Publish(h) \/ Create(h)
  BY DEF Next, SetUp, OpenReview, ReadProvider, OpenAnswer, ReadTarget, OpenPublish, OpenCreate, Begins, Refuse, vars

\* A withdrawal leaves the row withdrawn.
LEMMA WithdrawnRow ==
    ASSUME NEW p \in Preprints, NEW flow, Withdraw(p, flow)
    PROVE  row'.state = "withdrawn" /\ row'.dated
  BY DEF Withdraw, SaveChanges, Preprints

\* A request becomes accepted in the step that withdraws the preprint, unless
\* somebody writes an old copy of it back: AcceptedIsWithdrawn.
THEOREM AcceptanceWithdraws == Spec => AcceptedIsWithdrawn
<1> DEFINE Step ==
        \A r \in Requests :
            Accepted(requests'[r]) /\ ~Accepted(requests[r]) /\ ~Held(r) =>
                row'.state = "withdrawn" /\ row'.dated
<1>1. IInv /\ [Next]_vars => Step
  <2> SUFFICES ASSUME IInv, [Next]_vars, NEW r \in Requests,
                      Accepted(requests'[r]), ~Accepted(requests[r]), ~Held(r)
               PROVE  row'.state = "withdrawn" /\ row'.dated
    OBVIOUS
  <2>1. requests'[r] # requests[r]
    BY DEF Accepted
  <2>2. ASSUME NEW h \in Handlers, Answer(h) PROVE row'.state = "withdrawn" /\ row'.dated
    <3>1. /\ handler[h].row \in Preprints /\ handler[h].request \in PreprintRequests
          /\ handler[h].on \in Requests
      BY <2>2, JobType DEF Answer, IInv, TypeOK
    <3>2. PICK to \in Answered(handler[h].request, handler[h].trigger) :
              requests' = [requests EXCEPT ![handler[h].on] = [handler[h].request EXCEPT !.state = to]]
      BY <2>2 DEF Answer
    <3>3. handler[h].on = r /\ to = "accepted"
      BY <2>1, <3>1, <3>2 DEF IInv, TypeOK, Accepted, PreprintRequests
    <3>4. handler[h].request.state # "accepted"
      BY <2>2, <3>1, <3>3, NoRequestAssumption DEF Held, Answer, Accepted
    <3>5. handler[h].trigger = "accept"
      BY <3>1, <3>2, <3>3, <3>4, AnsweredIs
    <3>6. Withdraw(handler[h].row, handler[h].flow)
      BY <2>2, <3>5 DEF Answer
    <3>7. QED
      BY <3>1, <3>6, WithdrawnRow
  <2>3. ASSUME NEW h \in Handlers, Create(h) PROVE row'.state = "withdrawn" /\ row'.dated
    <3>1. handler[h].row \in Preprints
      BY <2>3, JobType DEF Create, IInv, TypeOK
    <3>2. AutoApproved(handler[h].row, handler[h].flow)
      BY <2>1, <2>3 DEF Create, IInv, TypeOK, Accepted
    <3>3. Withdraw(handler[h].row, handler[h].flow)
      BY <2>3, <3>2 DEF Create
    <3>4. QED
      BY <3>1, <3>3, WithdrawnRow
  <2>4. QED
    BY <2>1, <2>2, <2>3, Writers DEF Review, Publish
<1>2. QED
  BY <1>1, AlwaysHolds, PTL DEF Spec, AcceptedIsWithdrawn

\* What may have been read is not withdrawn by its author alone:
\* OnlyUnseenIsTakenBack.
THEOREM UnseenOnly == Spec => OnlyUnseenIsTakenBack
<1> DEFINE Step ==
        \A r \in Requests :
            requests[r] = NoRequest /\ Accepted(requests'[r]) => workflow = "pre" /\ ~row.ever
<1>1. IInv /\ [Next]_vars => Step
  <2> SUFFICES ASSUME IInv, [Next]_vars, NEW r \in Requests,
                      requests[r] = NoRequest, Accepted(requests'[r])
               PROVE  workflow = "pre" /\ ~row.ever
    OBVIOUS
  <2>1. requests'[r] # requests[r]
    BY DEF Accepted
  <2>2. ASSUME NEW h \in Handlers, Answer(h) PROVE FALSE
    BY <2>1, <2>2 DEF Answer, IInv, SameCreator, TypeOK
  <2>3. ASSUME NEW h \in Handlers, Create(h) PROVE workflow = "pre" /\ ~row.ever
    <3>1. AutoApproved(handler[h].row, handler[h].flow)
      BY <2>1, <2>3 DEF Create, IInv, TypeOK, Accepted
    <3>2. handler[h].row = row /\ handler[h].flow \in {"none", workflow}
      BY <2>3 DEF Create, IInv, LockHolds, SameFlow, Locks
    <3>3. QED
      BY <3>1, <3>2 DEF AutoApproved
  <2>4. QED
    BY <2>1, <2>2, <2>3, Writers DEF Review, Publish
<1>2. QED
  BY <1>1, AlwaysHolds, PTL DEF Spec, OnlyUnseenIsTakenBack

\* A transition takes neither flag back from the copy it saves.
LEMMA SavedKeeps ==
    ASSUME NEW p \in Preprints, NEW flow, NEW to
    PROVE  /\ p.ever => SaveChanges(p, flow, to).ever
           /\ p.dated => SaveChanges(p, flow, to).dated
<1>1. CASE p.dated \/ to = "withdrawn"
  BY <1>1 DEF SaveChanges, Preprints
<1>2. CASE ~(p.dated \/ to = "withdrawn")
  BY <1>2 DEF SaveChanges, Preprints
<1>3. QED
  BY <1>1, <1>2

\* Neither ever_public nor the date of a withdrawal is taken back unless the
\* request that commits writes a copy from before: HistoryIsKept.
THEOREM HistoryKept == Spec => HistoryIsKept
<1> DEFINE Step == ~OlderIsWritten => (row.ever => row'.ever) /\ (row.dated => row'.dated)
<1>1. IInv /\ [Next]_vars => Step
  <2> SUFFICES ASSUME IInv, [Next]_vars, ~OlderIsWritten
               PROVE  (row.ever => row'.ever) /\ (row.dated => row'.dated)
    OBVIOUS
  <2>1. ASSUME NEW h \in Handlers, Review(h) \/ Answer(h) \/ Publish(h) \/ Create(h)
        PROVE  /\ handler[h].row \in Preprints
               /\ row.ever => handler[h].row.ever
               /\ row.dated => handler[h].row.dated
    <3>1. handler[h].op \in {"review", "answer", "publish", "create"} /\ Ends(h)
      BY <2>1 DEF Review, Answer, Publish, Create
    <3>2. handler'[h].op = "idle"
      BY <3>1 DEF Ends, IInv, TypeOK
    <3>3. QED
      BY <3>1, <3>2, JobType DEF IInv, TypeOK, OlderIsWritten, Older
  <2>2. ASSUME NEW h \in Handlers, Review(h)
        PROVE  (row.ever => row'.ever) /\ (row.dated => row'.dated)
    <3>1. PICK to \in Reviewed(handler[h].row, handler[h].flow, handler[h].trigger) :
              row' = SaveChanges(handler[h].row, handler[h].flow, to)
      BY <2>2 DEF Review
    <3>2. QED
      BY <2>1, <2>2, <3>1, SavedKeeps
  <2>3. ASSUME NEW h \in Handlers, Answer(h) \/ Create(h), Withdraw(handler[h].row, handler[h].flow)
        PROVE  (row.ever => row'.ever) /\ (row.dated => row'.dated)
    BY <2>1, <2>3, SavedKeeps DEF Withdraw
  <2>4. ASSUME NEW h \in Handlers, Answer(h)
        PROVE  (row.ever => row'.ever) /\ (row.dated => row'.dated)
    BY <2>3, <2>4 DEF Answer
  <2>5. ASSUME NEW h \in Handlers, Create(h)
        PROVE  (row.ever => row'.ever) /\ (row.dated => row'.dated)
    BY <2>3, <2>5 DEF Create
  <2>6. ASSUME NEW h \in Handlers, Publish(h)
        PROVE  (row.ever => row'.ever) /\ (row.dated => row'.dated)
    <3>1. row' = [handler[h].row EXCEPT !.state = "accepted", !.published = TRUE, !.ever = TRUE]
      BY <2>6 DEF Publish
    <3>2. QED
      BY <2>1, <2>6, <3>1 DEF Preprints
  <2>7. QED
    BY <2>2, <2>4, <2>5, <2>6, Writers
<1>2. QED
  BY <1>1, AlwaysHolds, PTL DEF Spec, HistoryIsKept
=============================================================================
