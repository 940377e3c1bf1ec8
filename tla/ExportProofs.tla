---------------------------- MODULE ExportProofs ----------------------------
(***************************************************************************)
(* Proofs about Export, for any number of requests of each kind.           *)
(***************************************************************************)
EXTENDS Export, TLAPS

USE DEF Tasks, Views

(***************************************************************************)
(* NamedIsStored is not inductive: it says nothing of what the task has    *)
(* still to write, nor of a row that a view has loaded and will save.      *)
(* While nobody has asked to stop or to delete the export, its task is not *)
(* aborted and the row exists; what the task is past has been written; the *)
(* file is named only after that; the same holds of the rows that views    *)
(* have loaded; and a check has loaded a row with a file.                  *)
(***************************************************************************)
Before == [p \in Places |->
             CASE p = "list"   -> {"folder"}
               [] p = "files"  -> {"folder", "list"}
               [] p = "data"   -> {"folder", "list", "files"}
               [] p \in {"finish", "return"} -> Pieces
               [] OTHER        -> {}]

Quiet == \A s \in Stops : view[s] = "new" => at[s] = "none"

Past == Before[at[Main]] \subseteq stored

\* What a row, or a copy of it, says of the data is so.
Whole(r) ==
    /\ r.status \in Available => r.file
    /\ r.file => at[Main] \in {"return", "ended"} /\ stored = Pieces

Kept ==
    /\ row # None
    /\ state[Main] # "ABORTED"
    /\ Whole(row)
    /\ \A v \in Checks \cup Restores : seen[v] # None => Whole(seen[v])
    /\ \A c \in Checks : seen[c] # None => seen[c].file
    /\ Past

IInv == TypeOK /\ Quiet /\ (Unasked => Kept)

LEMMA RowFields ==
    ASSUME NEW r \in Row, NEW st \in Statuses, NEW t \in Tasks, NEW b \in BOOLEAN
    PROVE  /\ [r EXCEPT !.status = st] \in Row
           /\ [r EXCEPT !.task = t] \in Row
           /\ [r EXCEPT !.deleted = b] \in Row
           /\ [r EXCEPT !.task = t, !.status = st] \in Row
           /\ [r EXCEPT !.status = st, !.file = b] \in Row
  BY DEF Row

LEMMA Literals ==
    /\ {"Pending", "Running", "Stopping", "Completed", "Checking", "Stopped", "Error"} = Statuses
    /\ Available \subseteq Statuses
    /\ {"PENDING", "STARTED", "ABORTED", "SUCCESS", "FAILURE"} = Outcomes
    /\ Pieces \cup {"none", "queued", "begin", "finish", "rollback", "erase", "stop",
                    "fail", "return", "ended"} = Places
    /\ \A p \in Pieces : NextPlace[p] \in Places
  BY DEF Statuses, Available, Outcomes, Places, Pieces, NextPlace

LEMMA WhatIsBefore ==
    /\ \A p \in {"queued", "begin", "folder", "rollback", "erase", "fail", "ended"} : Before[p] = {}
    /\ Before["finish"] = Pieces
    /\ Before["return"] = Pieces
    /\ \A p \in Pieces : Before[NextPlace[p]] \subseteq Before[p] \cup {p}
  BY DEF Before, Places, Pieces, NextPlace

LEMMA InitOK == Init => IInv
<1> SUFFICES ASSUME Init PROVE IInv
  OBVIOUS
<1>1. TypeOK
  BY Literals, ExportAssumption DEF Init, TypeOK, Row
<1>2. Quiet
  BY ExportAssumption DEF Init, Quiet
<1>3. Kept
  <2>1. at[Main] = "queued" /\ state[Main] = "PENDING" /\ row.status = "Pending" /\ row.file = FALSE
    BY DEF Init
  <2>2. row \in Row
    BY DEF Init, Row, Statuses
  <2>3. \A v \in Checks \cup Restores : seen[v] = None
    BY DEF Init
  <2>4. Past
    BY <2>1, WhatIsBefore DEF Past
  <2> QED
    BY <2>1, <2>2, <2>3, <2>4, ExportAssumption DEF Kept, Whole, Available
<1> QED  BY <1>1, <1>2, <1>3 DEF IInv

-----------------------------------------------------------------------------
(***************************************************************************)
(* A step of a task.  If it is the task of a stop, somebody has asked for  *)
(* it; if it is Main, and nobody has, Kept says where it is.               *)
(***************************************************************************)
LEMMA OthersAreAsked ==
    ASSUME IInv, NEW t \in Tasks, at[t] # "none", Unasked
    PROVE  t = Main
  BY DEF IInv, Quiet, Unasked

\* Before the task has set the name no row, and no copy of it, names a file.
LEMMA NothingNamed ==
    ASSUME Kept, at[Main] \notin {"return", "ended"}
    PROVE  /\ ~row.file /\ row.status \notin Available
           /\ \A v \in Checks \cup Restores :
                 seen[v] # None => ~seen[v].file /\ seen[v].status \notin Available
  BY DEF Kept, Whole

LEMMA StartKeepsInv ==
    ASSUME IInv, NEW t \in Tasks, Start(t)
    PROVE  IInv'
<1> USE DEF Start, Goto, Report
<1>1. TypeOK'
  BY Literals DEF IInv, TypeOK
<1>2. Quiet'
  BY DEF IInv, TypeOK, Quiet
<1>3. ASSUME Unasked' PROVE Kept'
  <2>1. Unasked /\ Kept
    BY <1>3 DEF Unasked, IInv
  <2>2. t = Main /\ at[Main] = "queued"
    BY <2>1, OthersAreAsked
  <2>3. state'[Main] = "STARTED" /\ at'[Main] = "begin"
    BY <2>2 DEF IInv, TypeOK
  <2>4. Past'
    BY <2>3, WhatIsBefore DEF Past
  <2> QED
    BY <2>1, <2>2, <2>3, <2>4 DEF Kept, Whole
<1> QED  BY <1>1, <1>2, <1>3 DEF IInv

LEMMA RaiseKeepsInv ==
    ASSUME IInv, Raise(Main), at[Main] \notin {"none", "return", "ended"},
           UNCHANGED <<view, seen>>
    PROVE  IInv'
<1> USE DEF Raise, Goto
<1>1. TypeOK'
  BY Literals DEF IInv, TypeOK
<1>2. Quiet'
  BY ExportAssumption DEF IInv, TypeOK, Quiet
<1>3. ASSUME Unasked' PROVE Kept'
  <2>1. Unasked /\ Kept
    BY <1>3 DEF Unasked, IInv
  <2>2. at'[Main] = "rollback"
    BY DEF IInv, TypeOK
  <2>3. Past'
    BY <2>2, WhatIsBefore DEF Past
  <2> QED
    BY <2>1, <2>2, <2>3 DEF Kept, Whole
<1> QED  BY <1>1, <1>2, <1>3 DEF IInv

LEMMA BeginExportKeepsInv ==
    ASSUME IInv, BeginExport
    PROVE  IInv'
<1>1. CASE ~Lives(Main)
  BY <1>1, RaiseKeepsInv DEF BeginExport
<1>2. CASE Lives(Main)
  <2>1. /\ at[Main] = "begin"
        /\ row' = [row EXCEPT !.task = Main, !.status = "Running"]
        /\ at' = [at EXCEPT ![Main] = "folder"]
        /\ UNCHANGED <<stored, state, view, seen>>
    BY <1>2 DEF BeginExport, Goto
  <2>2. row \in Row /\ row' \in Row /\ row' # None
    <3>1. row \in Row
      BY <1>2 DEF Lives, IInv, TypeOK
    <3>2. "Running" \in Statuses
      BY DEF Statuses
    <3>3. row' \in Row
      BY <2>1, <3>1, <3>2 DEF Row
    <3> QED
      BY <3>1, <3>3, ExportAssumption
  <2>3. TypeOK'
    BY <2>1, <2>2, Literals DEF IInv, TypeOK, Pieces
  <2>4. Quiet'
    BY <2>1, ExportAssumption DEF IInv, TypeOK, Quiet
  <2>5. ASSUME Unasked' PROVE Kept'
    <3>1. Unasked /\ Kept
      BY <2>1, <2>5 DEF Unasked, IInv
    <3>2. at'[Main] = "folder"
      BY <2>1 DEF IInv, TypeOK
    <3>3. row'.status = "Running" /\ row'.file = row.file
      BY <2>1, <2>2 DEF Row
    <3>4. row.file = FALSE
      BY <2>1, <2>2, <3>1 DEF Kept, Whole, Row
    <3>5. Past'
      BY <3>2, WhatIsBefore DEF Past
    <3> QED
      BY <2>1, <2>2, <3>1, <3>2, <3>3, <3>4, <3>5 DEF Kept, Whole, Available
  <2> QED  BY <2>3, <2>4, <2>5 DEF IInv
<1> QED  BY <1>1, <1>2

LEMMA WritePieceKeepsInv ==
    ASSUME IInv, NEW p \in Pieces, WritePiece(p)
    PROVE  IInv'
<1>1. CASE Raise(Main)
  <2>1. at[Main] \notin {"none", "return", "ended"} /\ UNCHANGED <<view, seen>>
    BY DEF WritePiece, Pieces
  <2> QED  BY <1>1, <2>1, RaiseKeepsInv
<1>2. CASE ~Raise(Main)
  <2>1. /\ at[Main] = p
        /\ \/ stored' = stored \cup {p}
           \/ state[Main] = "ABORTED" /\ stored' = stored
        /\ at' = [at EXCEPT ![Main] = NextPlace[p]]
        /\ UNCHANGED <<row, state, view, seen>>
    BY <1>2 DEF WritePiece, Goto, RefusalIsIgnored
  <2>2. TypeOK'
    BY <2>1, Literals DEF IInv, TypeOK
  <2>3. Quiet'
    BY <2>1, ExportAssumption DEF IInv, TypeOK, Quiet
  <2>4. ASSUME Unasked' PROVE Kept'
    <3>1. Unasked /\ Kept
      BY <2>1, <2>4 DEF Unasked, IInv
    <3>2. stored' = stored \cup {p} /\ Before[p] \subseteq stored
      BY <2>1, <3>1 DEF Kept, Whole, Past
    <3>3. at'[Main] = NextPlace[p]
      BY <2>1 DEF IInv, TypeOK
    <3>4. at[Main] \notin {"return", "ended"}
      BY <2>1 DEF Pieces
    <3>5. Whole(row)' /\ \A v \in Checks \cup Restores : seen'[v] # None => Whole(seen[v])'
      BY <2>1, <3>1, <3>4, NothingNamed DEF Whole
    <3>6. Past'
      BY <3>2, <3>3, WhatIsBefore DEF Past
    <3> QED
      BY <2>1, <3>1, <3>5, <3>6 DEF Kept
  <2> QED  BY <2>2, <2>3, <2>4 DEF IInv
<1> QED  BY <1>1, <1>2

LEMMA CompleteExportKeepsInv ==
    ASSUME IInv, CompleteExport
    PROVE  IInv'
<1>1. CASE Raise(Main)
  BY <1>1, RaiseKeepsInv DEF CompleteExport
<1>2. CASE ~Raise(Main)
  <2>1. /\ at[Main] = "finish"
        /\ row # None
        /\ row' = [row EXCEPT !.status = "Completed", !.file = TRUE]
        /\ at' = [at EXCEPT ![Main] = "return"]
        /\ UNCHANGED <<stored, state, view, seen>>
    BY <1>2 DEF CompleteExport, Goto
  <2>2. row \in Row /\ row' \in Row /\ row' # None
    <3>1. row \in Row
      BY <2>1 DEF IInv, TypeOK
    <3>2. "Completed" \in Statuses
      BY DEF Statuses
    <3>3. row' \in Row
      BY <2>1, <3>1, <3>2, RowFields
    <3> QED
      BY <3>1, <3>3, ExportAssumption
  <2>3. TypeOK'
    BY <2>1, <2>2, Literals DEF IInv, TypeOK
  <2>4. Quiet'
    BY <2>1, ExportAssumption DEF IInv, TypeOK, Quiet
  <2>5. ASSUME Unasked' PROVE Kept'
    <3>1. Unasked /\ Kept
      BY <2>1, <2>5 DEF Unasked, IInv
    <3>2. stored = Pieces
      BY <2>1, <3>1, WhatIsBefore DEF Kept, Whole, Past, IInv, TypeOK
    <3>3. at'[Main] = "return"
      BY <2>1 DEF IInv, TypeOK
    <3>4. row'.file = TRUE
      BY <2>1, <2>2 DEF Row
    <3>5. Past'
      BY <2>1, <3>2, <3>3, WhatIsBefore DEF Past
    <3> QED
      BY <2>1, <2>2, <3>1, <3>2, <3>3, <3>4, <3>5 DEF Kept, Whole
  <2> QED  BY <2>3, <2>4, <2>5 DEF IInv
<1> QED  BY <1>1, <1>2

LEMMA BeginRollbackKeepsInv ==
    ASSUME IInv, NEW t \in Tasks, BeginRollback(t)
    PROVE  IInv'
<1>1. PICK place \in {"erase", "fail"} :
        /\ at' = [at EXCEPT ![t] = place]
        /\ row' \in {row, [row EXCEPT !.task = t, !.status = "Stopping"]}
        /\ row' # row => row # None
        /\ UNCHANGED <<stored, state, view, seen>>
  BY DEF BeginRollback, MayRollBack, Lives, Goto
<1>2. row # None => row' \in Row /\ row'.status \in {row.status, "Stopping"} /\ row'.file = row.file
  <2>1. SUFFICES ASSUME row \in Row
                 PROVE  row' \in Row /\ row'.status \in {row.status, "Stopping"} /\ row'.file = row.file
    BY DEF IInv, TypeOK
  <2>2. "Stopping" \in Statuses
    BY DEF Statuses
  <2> QED
    BY <1>1, <2>1, <2>2 DEF Row
<1>3. TypeOK'
  BY <1>1, <1>2, Literals DEF IInv, TypeOK
<1>4. at[t] # "none"
  BY DEF BeginRollback
<1>5. Quiet'
  BY <1>1, <1>4 DEF IInv, TypeOK, Quiet
<1>6. ASSUME Unasked' PROVE Kept'
  <2>1. Unasked /\ Kept
    BY <1>1, <1>6 DEF Unasked, IInv
  <2>2. t = Main
    BY <1>4, <2>1, OthersAreAsked
  <2>3. at[Main] = "rollback" /\ at'[Main] = place
    BY <1>1, <2>2 DEF BeginRollback, IInv, TypeOK
  <2>4. row' # None /\ row'.status \in {row.status, "Stopping"} /\ row'.file = row.file
    BY <1>2, <2>1, ExportAssumption DEF Kept, Whole
  <2>5. ~row.file
    BY <2>1, <2>3 DEF Kept, Whole
  <2>6. Past'
    BY <2>3, WhatIsBefore DEF Past
  <2> QED
    BY <1>1, <2>1, <2>3, <2>4, <2>5, <2>6 DEF Kept, Whole, Available
<1> QED  BY <1>3, <1>5, <1>6 DEF IInv

LEMMA EraseKeepsInv ==
    ASSUME IInv, NEW t \in Tasks, Erase(t)
    PROVE  IInv'
<1>1. PICK place \in {"fail", "stop"} :
        /\ at[t] = "erase"
        /\ at' = [at EXCEPT ![t] = place]
        /\ t = Main => place = "fail"
        /\ stored' \in {stored, {}}
        /\ UNCHANGED <<row, state, view, seen>>
  BY DEF Erase, Goto
<1>2. TypeOK'
  BY <1>1, Literals DEF IInv, TypeOK
<1>3. Quiet'
  BY <1>1 DEF IInv, TypeOK, Quiet
<1>4. ASSUME Unasked' PROVE Kept'
  <2>1. Unasked /\ Kept
    BY <1>1, <1>4 DEF Unasked, IInv
  <2>2. t = Main
    BY <1>1, <2>1, OthersAreAsked
  <2>3. at'[Main] = "fail"
    BY <1>1, <2>2 DEF IInv, TypeOK
  <2>4. Whole(row)' /\ \A v \in Checks \cup Restores : seen'[v] # None => Whole(seen[v])'
    BY <1>1, <2>1, <2>2, NothingNamed DEF Whole
  <2>5. Past'
    BY <2>3, WhatIsBefore DEF Past
  <2> QED
    BY <1>1, <2>1, <2>4, <2>5 DEF Kept
<1> QED  BY <1>2, <1>3, <1>4 DEF IInv

LEMMA SetStoppedKeepsInv ==
    ASSUME IInv, NEW t \in Stops, SetStopped(t)
    PROVE  IInv'
<1>1. PICK place \in {"return", "fail"} :
        /\ at' = [at EXCEPT ![t] = place]
        /\ row' \in {row, [row EXCEPT !.status = "Stopped", !.file = FALSE]}
        /\ row' # row => row # None
        /\ UNCHANGED <<stored, state, view, seen>>
  BY ExportAssumption DEF SetStopped, Raise, Goto
<1>2. TypeOK'
  <2>1. row' \in Row \cup {None}
    BY <1>1, RowFields DEF IInv, TypeOK, Statuses
  <2> QED
    BY <1>1, <2>1, Literals DEF IInv, TypeOK
<1>3. view[t] # "new" /\ at[t] # "none"
  BY DEF SetStopped, IInv, Quiet
<1>4. Quiet'
  BY <1>1, <1>3 DEF IInv, TypeOK, Quiet
<1>5. ~Unasked'
  BY <1>1, <1>3 DEF Unasked
<1> QED  BY <1>2, <1>4, <1>5 DEF IInv

LEMMA FailKeepsInv ==
    ASSUME IInv, NEW t \in Tasks, Fail(t)
    PROVE  IInv'
<1>1. /\ at[t] = "fail"
      /\ row' \in {row, [row EXCEPT !.status = "Error"]}
      /\ row' # row => row # None
      /\ state' = [state EXCEPT ![t] = "FAILURE"]
      /\ at' = [at EXCEPT ![t] = "ended"]
      /\ UNCHANGED <<stored, view, seen>>
  BY DEF Fail, Report, Goto
<1>2. row # None => row' \in Row /\ row'.status \in {row.status, "Error"} /\ row'.file = row.file
  <2>1. SUFFICES ASSUME row \in Row
                 PROVE  row' \in Row /\ row'.status \in {row.status, "Error"} /\ row'.file = row.file
    BY DEF IInv, TypeOK
  <2>2. "Error" \in Statuses
    BY DEF Statuses
  <2> QED
    BY <1>1, <2>1, <2>2 DEF Row
<1>3. TypeOK'
  BY <1>1, <1>2, Literals DEF IInv, TypeOK
<1>4. Quiet'
  BY <1>1 DEF IInv, TypeOK, Quiet
<1>5. ASSUME Unasked' PROVE Kept'
  <2>1. Unasked /\ Kept
    BY <1>1, <1>5 DEF Unasked, IInv
  <2>2. t = Main
    BY <1>1, <2>1, OthersAreAsked
  <2>3. at'[Main] = "ended" /\ state'[Main] = "FAILURE"
    BY <1>1, <2>2 DEF IInv, TypeOK
  <2>4. row' # None /\ row'.status \in {row.status, "Error"} /\ row'.file = row.file
    BY <1>2, <2>1, ExportAssumption DEF Kept, Whole
  <2>5. ~row.file
    BY <1>1, <2>1, <2>2 DEF Kept, Whole
  <2>6. Past'
    BY <2>3, WhatIsBefore DEF Past
  <2> QED
    BY <1>1, <2>1, <2>3, <2>4, <2>5, <2>6 DEF Kept, Whole, Available
<1> QED  BY <1>3, <1>4, <1>5 DEF IInv

LEMMA ReturnKeepsInv ==
    ASSUME IInv, NEW t \in Tasks, Return(t)
    PROVE  IInv'
<1>1. /\ at[t] = "return"
      /\ state' = [state EXCEPT ![t] = "SUCCESS"]
      /\ at' = [at EXCEPT ![t] = "ended"]
      /\ UNCHANGED <<row, stored, view, seen>>
  BY DEF Return, Report, Goto
<1>2. TypeOK'
  BY <1>1, Literals DEF IInv, TypeOK
<1>3. Quiet'
  BY <1>1 DEF IInv, TypeOK, Quiet
<1>4. ASSUME Unasked' PROVE Kept'
  <2>1. Unasked /\ Kept
    BY <1>1, <1>4 DEF Unasked, IInv
  <2>2. t = Main
    BY <1>1, <2>1, OthersAreAsked
  <2>3. at'[Main] = "ended" /\ state'[Main] = "SUCCESS"
    BY <1>1, <2>2 DEF IInv, TypeOK
  <2>4. Past'
    BY <2>3, WhatIsBefore DEF Past
  <2> QED
    BY <1>1, <2>1, <2>3, <2>4 DEF Kept, Whole
<1> QED  BY <1>2, <1>3, <1>4 DEF IInv

LEMMA WorkKeepsInv ==
    ASSUME IInv, NEW t \in Tasks, Work(t)
    PROVE  IInv'
<1>1. CASE Start(t)
  BY <1>1, StartKeepsInv
<1>2. CASE t = Main /\ (BeginExport \/ CompleteExport)
  BY <1>2, BeginExportKeepsInv, CompleteExportKeepsInv
<1>3. CASE \E p \in Pieces : WritePiece(p)
  BY <1>3, WritePieceKeepsInv
<1>4. CASE BeginRollback(t) \/ Erase(t)
  BY <1>4, BeginRollbackKeepsInv, EraseKeepsInv
<1>5. CASE t \in Stops /\ SetStopped(t)
  BY <1>5, SetStoppedKeepsInv
<1>6. CASE Fail(t) \/ Return(t)
  BY <1>6, FailKeepsInv, ReturnKeepsInv
<1> QED  BY <1>1, <1>2, <1>3, <1>4, <1>5, <1>6 DEF Work

-----------------------------------------------------------------------------
(***************************************************************************)
(* The requests.                                                           *)
(***************************************************************************)
LEMMA AskStopKeepsInv ==
    ASSUME IInv, NEW s \in Stops, AskStop(s)
    PROVE  IInv'
<1>1. /\ view' = [view EXCEPT ![s] = "open"]
      /\ row \in Row
      /\ state' = [state EXCEPT ![row.task] = "ABORTED"]
      /\ at' = [at EXCEPT ![s] = "queued"]
      /\ UNCHANGED <<row, stored, seen>>
  BY DEF AskStop, Open, Report, Goto, IInv, TypeOK
<1>2. row.task \in Tasks
  BY <1>1 DEF Row
<1>3. TypeOK'
  BY <1>1, <1>2, Literals, ExportAssumption DEF IInv, TypeOK
<1>4. view'[s] = "open"
  BY <1>1 DEF IInv, TypeOK
<1>5. Quiet'
  BY <1>1, <1>4 DEF IInv, TypeOK, Quiet
<1>6. ~Unasked'
  BY <1>4 DEF Unasked
<1> QED  BY <1>3, <1>5, <1>6 DEF IInv

\* Opening or closing a view is no request to stop or to delete.
LEMMA ViewsAreNoStops ==
    ASSUME IInv, NEW v \in Checks \cup Restores, NEW word \in {"open", "over"},
           view' = [view EXCEPT ![v] = word], at' = at
    PROVE  Quiet' /\ (Unasked' => Unasked) /\ view' \in [Views -> {"new", "open", "over"}]
  BY ExportAssumption DEF IInv, TypeOK, Quiet, Unasked

LEMMA LoadKeepsInv ==
    ASSUME IInv, NEW v \in Checks \cup Restores,
           (v \in Checks /\ CheckExportData(v)) \/ (v \in Restores /\ CheckBeforeRestore(v))
    PROVE  IInv'
<1>1. /\ view' = [view EXCEPT ![v] = "open"]
      /\ row \in Row
      /\ UNCHANGED <<stored, state, at>>
  BY DEF CheckExportData, CheckBeforeRestore, Open, Listed, IInv, TypeOK
<1>2. PICK st \in Statuses, r \in {row, row'} :
        /\ row' = [row EXCEPT !.status = st]
        /\ seen' = [seen EXCEPT ![v] = r]
        /\ \/ v \in Checks /\ row.status = "Completed" /\ r = row'
           \/ v \in Restores /\ st = "Running" /\ r = row
  <2>1. {"Checking", "Running"} \subseteq Statuses
    BY DEF Statuses
  <2> QED  BY <2>1 DEF CheckExportData, CheckBeforeRestore
<1>3. row' \in Row /\ row'.file = row.file /\ row'.status = st /\ r \in Row /\ r.file = row.file
  BY <1>1, <1>2 DEF Row
<1>4. row # None /\ row' # None /\ r # None
  BY <1>1, <1>3, ExportAssumption
<1>5. /\ seen' \in [Checks \cup Restores -> Row \cup {None}]
      /\ seen'[v] = r
      /\ \A u \in (Checks \cup Restores) \ {v} : seen'[u] = seen[u]
  BY <1>2, <1>3 DEF IInv, TypeOK
<1>6. Quiet' /\ (Unasked' => Unasked) /\ view' \in [Views -> {"new", "open", "over"}]
  BY <1>1, ViewsAreNoStops
<1>7. TypeOK'
  <2>1. \A u \in Checks \cup Restores : view'[u] = "open" => seen'[u] # None
    BY <1>1, <1>4, <1>5 DEF IInv, TypeOK
  <2> QED
    BY <1>1, <1>3, <1>5, <1>6, <2>1 DEF IInv, TypeOK
<1>8. ASSUME Unasked' PROVE Kept'
  <2>1. Kept
    BY <1>6, <1>8 DEF IInv
  <2>2. Past'
    BY <1>1, <2>1 DEF Kept, Past
  <2>3. /\ Whole(row)
        /\ v \in Checks => row.file
        /\ v \notin Checks => st = "Running" /\ r = row
    <3>1. Whole(row)
      BY <2>1 DEF Kept
    <3>2. CASE v \in Checks /\ row.status = "Completed"
      BY <3>1, <3>2 DEF Whole, Available
    <3>3. CASE v \in Restores /\ st = "Running" /\ r = row
      BY <3>1, <3>3, ExportAssumption
    <3> QED  BY <1>2, <3>1, <3>2, <3>3
  <2>4. Whole(row)' /\ Whole(r)'
    BY <1>1, <1>2, <1>3, <2>3 DEF Whole, Available
  <2>5. \A u \in Checks \cup Restores : seen'[u] # None => Whole(seen[u])'
    <3>1. \A u \in (Checks \cup Restores) \ {v} : seen'[u] # None => Whole(seen[u])'
      BY <1>1, <1>5, <2>1 DEF Kept, Whole
    <3>2. Whole(seen[v])'
      BY <1>1, <1>3, <1>5, <2>3, <2>4 DEF Whole
    <3> QED  BY <3>1, <3>2
  <2>6. \A c \in Checks : seen'[c] # None => seen'[c].file
    BY <1>3, <1>5, <2>1, <2>3 DEF Kept
  <2> QED
    BY <1>1, <1>4, <2>1, <2>2, <2>4, <2>5, <2>6 DEF Kept
<1> QED  BY <1>6, <1>7, <1>8 DEF IInv

LEMMA SaveKeepsInv ==
    ASSUME IInv, NEW v \in Checks \cup Restores, EndCheck(v) \/ EndCheckBeforeRestore(v)
    PROVE  IInv'
<1>1. /\ view[v] = "open"
      /\ view' = [view EXCEPT ![v] = "over"]
      /\ \/ row' = seen[v]
         \/ v \in Checks /\ row' = [seen[v] EXCEPT !.status = "Completed"]
      /\ UNCHANGED <<stored, state, at, seen>>
  BY DEF EndCheck, EndCheckBeforeRestore, Close
<1>2. seen[v] \in Row /\ seen[v] # None
  BY <1>1 DEF IInv, TypeOK
<1>3. row' \in Row /\ row'.file = seen[v].file
  BY <1>1, <1>2 DEF Row, Statuses
<1>4. Quiet' /\ (Unasked' => Unasked) /\ view' \in [Views -> {"new", "open", "over"}]
  BY <1>1, ViewsAreNoStops
<1>5. TypeOK'
  BY <1>1, <1>3, <1>4 DEF IInv, TypeOK
<1>6. ASSUME Unasked' PROVE Kept'
  <2>1. Kept
    BY <1>4, <1>6 DEF IInv
  <2>2. Whole(seen[v]) /\ (v \in Checks => seen[v].file)
    BY <1>2, <2>1 DEF Kept
  <2>3. Whole(row)'
    BY <1>1, <1>3, <2>2 DEF Whole
  <2>4. Past'
    BY <1>1, <2>1 DEF Kept, Whole, Past
  <2>5. row' # None
    BY <1>3, ExportAssumption
  <2> QED
    BY <1>1, <2>1, <2>2, <2>3, <2>4, <2>5 DEF Kept, Whole
<1> QED  BY <1>4, <1>5, <1>6 DEF IInv

LEMMA MarkKeepsInv ==
    ASSUME IInv, Delete \/ Revert
    PROVE  IInv'
<1>1. /\ row \in Row
      /\ \E b \in BOOLEAN : row' = [row EXCEPT !.deleted = b]
      /\ UNCHANGED <<stored, state, at, view, seen>>
  BY DEF Delete, Revert, Listed, IInv, TypeOK
<1>2. row' \in Row /\ row'.file = row.file /\ row'.status = row.status
  BY <1>1 DEF Row
<1>3. row' # None
  BY <1>2, ExportAssumption
<1>4. TypeOK' /\ Quiet'
  BY <1>1, <1>2 DEF IInv, TypeOK, Quiet
<1>5. Unasked' => Kept'
  BY <1>1, <1>2, <1>3 DEF IInv, Kept, Whole, Past, Unasked
<1> QED  BY <1>4, <1>5 DEF IInv

LEMMA PurgeKeepsInv ==
    ASSUME IInv, NEW d \in Purges, DeletePermanently(d) \/ DeleteRow(d)
    PROVE  IInv'
<1>1. /\ \E word \in {"open", "over"} : view' = [view EXCEPT ![d] = word]
      /\ row' \in {row, None}
      /\ stored' \in {stored, {}}
      /\ UNCHANGED <<state, at, seen>>
  BY DEF DeletePermanently, DeleteRow, Open, Close
<1>2. TypeOK'
  BY <1>1, ExportAssumption DEF IInv, TypeOK
<1>3. view'[d] # "new" /\ \A s \in Stops : view'[s] = view[s]
  BY <1>1, ExportAssumption DEF IInv, TypeOK
<1>4. Quiet'
  BY <1>1, <1>3 DEF IInv, Quiet
<1>5. ~Unasked'
  BY <1>3 DEF Unasked
<1> QED  BY <1>2, <1>4, <1>5 DEF IInv

LEMMA AnswerStopKeepsInv ==
    ASSUME IInv, NEW s \in Stops, AnswerStop(s)
    PROVE  IInv'
<1>1. /\ view' = [view EXCEPT ![s] = "over"]
      /\ row' = IF row = None THEN None ELSE [row EXCEPT !.task = s]
      /\ UNCHANGED <<stored, state, at, seen>>
  BY DEF AnswerStop, Close
<1>2. row' \in Row \cup {None}
  BY <1>1 DEF IInv, TypeOK, Row
<1>3. TypeOK'
  BY <1>1, <1>2, ExportAssumption DEF IInv, TypeOK
<1>4. view'[s] = "over" /\ \A u \in Stops \ {s} : view'[u] = view[u]
  BY <1>1 DEF IInv, TypeOK
<1>5. Quiet'
  BY <1>1, <1>4 DEF IInv, Quiet
<1>6. ~Unasked'
  BY <1>4 DEF Unasked
<1> QED  BY <1>3, <1>5, <1>6 DEF IInv

-----------------------------------------------------------------------------
LEMMA NextKeepsInv ==
    ASSUME IInv, [Next]_vars
    PROVE  IInv'
<1>1. ASSUME NEW t \in Tasks, Work(t) PROVE IInv'
  BY <1>1, WorkKeepsInv
<1>2. ASSUME NEW s \in Stops, AskStop(s) PROVE IInv'
  BY <1>2, AskStopKeepsInv
<1>3. ASSUME NEW v \in Checks \cup Restores,
             (v \in Checks /\ CheckExportData(v)) \/ (v \in Restores /\ CheckBeforeRestore(v))
      PROVE  IInv'
  BY <1>3, LoadKeepsInv
<1>4. ASSUME NEW d \in Purges, DeletePermanently(d) PROVE IInv'
  BY <1>4, PurgeKeepsInv
<1>5. ASSUME NEW v \in Views, Answer(v) PROVE IInv'
  BY <1>5, AnswerStopKeepsInv, SaveKeepsInv, PurgeKeepsInv
     DEF Answer, AnswerStop, EndCheck, EndCheckBeforeRestore, DeleteRow
<1>6. CASE Delete \/ Revert
  BY <1>6, MarkKeepsInv
<1>7. CASE UNCHANGED vars
  BY <1>7 DEF vars, IInv, TypeOK, Quiet, Unasked, Kept, Whole, Past
<1> QED  BY <1>1, <1>2, <1>3, <1>4, <1>5, <1>6, <1>7 DEF Next

LEMMA Inductive == Spec => []IInv
  BY InitOK, NextKeepsInv, PTL DEF Spec

(***************************************************************************)
(* The row of the export is whole whenever it exists, also after a view    *)
(* has written back what it loaded, and the tasks are where their code     *)
(* goes.                                                                   *)
(***************************************************************************)
THEOREM TypeCorrect == Spec => []TypeOK
<1>1. IInv => TypeOK
  BY DEF IInv
<1> QED  BY <1>1, Inductive, PTL

(***************************************************************************)
(* An export that can be restored has everything at its location, for any  *)
(* number of checks and of restores that overlap.                          *)
(***************************************************************************)
THEOREM NamedIsStoredEver == Spec => []NamedIsStored
<1>1. IInv => NamedIsStored
  BY DEF IInv, NamedIsStored, Named, Kept, Whole
<1> QED  BY <1>1, Inductive, PTL
=============================================================================
