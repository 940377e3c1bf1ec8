------------------------------ MODULE QuotaProofs ------------------------------
(***************************************************************************)
(* Theorems about Quota, for any files, any number of callbacks and        *)
(* recalculations and any bounds: type correctness, no update of the       *)
(* counter is lost, callbacks answered in order leave FileInfo right, and  *)
(* only a recalculation unbalances the counter.                            *)
(***************************************************************************)
EXTENDS Quota, FiniteSetTheorems, TLAPS

Outstanding == calls \cup Served

About(f) == {c \in Outstanding : c.file = f}

\* As much of TypeOK as does not speak of sums.
Typed ==
    /\ file \in [Files -> {"absent", "live", "trashed"}]
    /\ size \in [Files -> Nat]
    /\ info \in [Files -> Nat \cup {None}]
    /\ row \in BOOLEAN
    /\ owner \in Handlers \cup {None}
    /\ calls \subseteq Call
    /\ pc \in [Workers -> {"idle", "lock", "count", "store", "collided"}]
    /\ \A w \in Recalcs : pc[w] \notin {"lock", "count"}
    /\ my \in [Handlers -> Call \cup {None}]
    /\ \A w \in Handlers : pc[w] = "idle" <=> my[w] = None
    /\ DOMAIN number = Workers
    /\ issued \in Nat
    /\ overtakes \in Nat

\* The transaction that counts has the row.
Exclusive == \A w \in Handlers : pc[w] = "count" => owner = w /\ number[w] = used

(***************************************************************************)
(* The calls are numbered; a file that is not there has no call; what was  *)
(* counted for a file was counted in a row.                                *)
(***************************************************************************)
Numbered ==
    /\ \A c \in Outstanding : c.id <= issued
    /\ \A c, d \in Outstanding : c.id = d.id => c = d

Absent == \A f \in Files : file[f] = "absent" => About(f) = {} /\ info[f] = None

RowFirst == ~row => \A f \in Files : info[f] = None

(***************************************************************************)
(* While no call has overtaken another: a call being served is the oldest  *)
(* about its file, the newest one tells what is stored, an addition is the *)
(* oldest and nothing else was counted, and without calls the count is     *)
(* right.                                                                  *)
(***************************************************************************)
Oldest(c) == \A d \in About(c.file) : c.id <= d.id

Tells(c) ==
    IF c.kind = "file_removed" THEN file[c.file] = "trashed"
    ELSE file[c.file] = "live" /\ size[c.file] = c.size

InTurn == \A w \in Handlers : my[w] # None => Oldest(my[w])

NewestTells ==
    \A f \in Files : About(f) # {} =>
        \E c \in About(f) : Tells(c) /\ \A d \in About(f) : d.id <= c.id

AddedFirst ==
    \A c \in Outstanding : c.kind = "file_added" =>
        Oldest(c) /\ info[c.file] \in {None, c.size}

Right(f) == info[f] \in {None, IF file[f] = "live" THEN size[f] ELSE 0}

Counted == \A f \in Files : About(f) = {} => Right(f)

InOrder == InTurn /\ NewestTells /\ AddedFirst /\ Counted

IInv ==
    /\ Typed /\ Exclusive /\ Numbered /\ Absent /\ RowFirst
    /\ overtakes = 0 => InOrder

-----------------------------------------------------------------------------
LEMMA OutstandingIsCall == ASSUME Typed PROVE Outstanding \subseteq Call
BY DEF Typed, Outstanding, Served

LEMMA CallIds ==
    ASSUME NEW c \in Call
    PROVE  /\ c.id \in Nat /\ c.file \in Files /\ c.kind \in Kinds /\ c.size \in Nat
BY QuotaAssumption DEF Call

LEMMA InitInv == Init => IInv
<1> SUFFICES ASSUME Init PROVE IInv
  OBVIOUS
<1> USE QuotaAssumption
<1>1. Outstanding = {}
  BY DEF Init, Outstanding, Served
<1>2. Typed
  BY DEF Init, Typed, Workers
<1>3. Exclusive /\ Numbered /\ Absent /\ RowFirst
  BY <1>1 DEF Init, Exclusive, Numbered, Absent, About, RowFirst, Workers
<1>4. InOrder
  BY <1>1 DEF Init, InOrder, InTurn, NewestTells, AddedFirst, Counted, Right, About
<1> QED  BY <1>2, <1>3, <1>4 DEF IInv

(***************************************************************************)
(* A step that neither stores, counts nor forgets anything keeps the order *)
(* when a call that begins to be served is the oldest about its file.      *)
(***************************************************************************)
LEMMA NothingCounted ==
    ASSUME IInv, Typed', Exclusive', Outstanding' = Outstanding, UNCHANGED <<storage, info, issued>>,
           row => row', overtakes' = 0 => overtakes = 0,
           overtakes' = 0 => \A w \in Handlers : my'[w] # None => my'[w] = my[w] \/ Oldest(my'[w])
    PROVE  IInv'
<1>1. \A f : About(f)' = About(f)
  BY DEF About
<1>2. Numbered' /\ Absent' /\ RowFirst'
  BY <1>1 DEF IInv, Numbered, Absent, RowFirst, storage
<1>3. ASSUME overtakes' = 0 PROVE InOrder'
  <2>1. InOrder
    BY <1>3 DEF IInv
  <2>2. InTurn'
    BY <1>1, <1>3, <2>1 DEF InOrder, InTurn, Oldest
  <2>3. NewestTells' /\ AddedFirst' /\ Counted'
    BY <1>1, <2>1 DEF InOrder, NewestTells, AddedFirst, Counted, Right, Tells, Oldest, storage
  <2> QED  BY <2>2, <2>3 DEF InOrder
<1> QED  BY <1>2, <1>3 DEF IInv

(***************************************************************************)
(* WaterButler stores or deletes a file.                                   *)
(***************************************************************************)
LEMMA IssueKeepsInv ==
    ASSUME IInv, NEW f \in Files, NEW kind \in Kinds, NEW s \in Nat, Issue(f, kind, s),
           file' \in [Files -> {"absent", "live", "trashed"}], size' \in [Files -> Nat],
           \A g \in Files \ {f} : file'[g] = file[g] /\ size'[g] = size[g],
           kind = "file_added" => file[f] = "absent",
           IF kind = "file_removed" THEN file'[f] = "trashed"
           ELSE file'[f] = "live" /\ size'[f] = s
    PROVE  IInv'
<1> USE QuotaAssumption DEF Issue, request, quota
<1>0. PICK new : new = [id |-> issued + 1, file |-> f, kind |-> kind, size |-> s]
  OBVIOUS
<1>1. Typed /\ issued + 1 \in 1..MaxCalls /\ new \in Call
  BY <1>0 DEF IInv, Typed, Call
<1>2. Outstanding' = Outstanding \cup {new} /\ \A c \in Outstanding : c.id < new.id
  <2>1. Outstanding' = Outstanding \cup {new}
    BY <1>0 DEF Outstanding, Served
  <2>2. \A c \in Outstanding : c.id \in Nat /\ c.id <= issued
    BY <1>1, OutstandingIsCall, CallIds DEF IInv, Numbered
  <2>3. \A c \in Outstanding : c.id < new.id
    BY <1>0, <1>1, <2>2 DEF Typed
  <2> QED  BY <2>1, <2>3
<1>3. Typed'
  BY <1>0, <1>1 DEF Typed
<1>4. Exclusive' /\ RowFirst'
  BY DEF IInv, Exclusive, RowFirst
<1>5. Numbered'
  <2>1. \A c \in Outstanding : c.id \in Nat
    BY <1>1, OutstandingIsCall, CallIds
  <2>2. issued' \in Nat /\ issued' = issued + 1 /\ new.id = issued + 1 /\ issued \in Nat
    BY <1>0, <1>1 DEF Typed
  <2>3. \A c \in Outstanding' : c.id <= issued'
    BY <1>2, <2>1, <2>2
  <2>4. \A c, d \in Outstanding' : c.id = d.id => c = d
    BY <1>2, <2>1, <2>2 DEF IInv, Numbered
  <2> QED  BY <2>3, <2>4 DEF Numbered
<1>6. /\ About(f)' = About(f) \cup {new}
      /\ \A g \in Files \ {f} : About(g)' = About(g)
  BY <1>0, <1>2 DEF About
<1>7. Absent'
  BY <1>6 DEF IInv, Absent
<1>8. ASSUME overtakes' = 0 PROVE InOrder'
  <2>1. InOrder
    BY <1>8 DEF IInv
  <2>2. \A c \in Outstanding : c.file \in Files /\ c.id \in Nat
    BY <1>1, OutstandingIsCall, CallIds
  <2>3. ASSUME NEW c \in Outstanding, Oldest(c) PROVE Oldest(c)'
    <3>1. c.id <= new.id
      BY <1>1, <1>2, <2>2, CallIds
    <3>2. About(c.file)' \subseteq About(c.file) \cup {new}
      BY <1>6, <2>2
    <3> QED  BY <2>3, <3>1, <3>2 DEF Oldest
  <2>4. InTurn'
    BY <2>1, <2>3 DEF InOrder, InTurn, Outstanding, Served
  <2>5. NewestTells'
    <3>1. Tells(new)' /\ new \in About(f)' /\ \A d \in About(f)' : d.id <= new.id
      BY <1>0, <1>1, <1>2, <1>6, <2>2 DEF Tells, About
    <3>2. ASSUME NEW g \in Files \ {f}, About(g)' # {}
          PROVE  \E c \in About(g)' : Tells(c)' /\ \A d \in About(g)' : d.id <= c.id
      <4>1. PICK c \in About(g) : Tells(c) /\ \A d \in About(g) : d.id <= c.id
        BY <1>6, <2>1, <3>2 DEF InOrder, NewestTells
      <4>2. Tells(c)'
        BY <4>1 DEF Tells, About
      <4> QED  BY <1>6, <4>1, <4>2
    <3>3. \E c \in About(f)' : Tells(c)' /\ \A d \in About(f)' : d.id <= c.id
      BY <3>1
    <3> QED  BY <3>2, <3>3 DEF NewestTells
  <2>6. AddedFirst'
    <3>1. ASSUME kind = "file_added" PROVE Oldest(new)' /\ info'[f] = None
      <4>1. About(f)' = {new} /\ info'[f] = None
        BY <1>6, <3>1 DEF IInv, Absent
      <4>2. new.file = f /\ new.id <= new.id
        BY <1>0, <1>1, CallIds
      <4> QED  BY <4>1, <4>2 DEF Oldest
    <3>2. ASSUME NEW c \in Outstanding, c.kind = "file_added"
          PROVE  Oldest(c)' /\ info'[c.file] \in {None, c.size}
      BY <2>1, <2>3, <3>2 DEF InOrder, AddedFirst
    <3>3. new.kind = "file_added" => Oldest(new)' /\ info'[new.file] \in {None, new.size}
      BY <1>0, <3>1
    <3> QED  BY <1>2, <3>2, <3>3 DEF AddedFirst
  <2>7. Counted'
    BY <1>6, <2>1 DEF InOrder, Counted, Right
  <2> QED  BY <2>4, <2>5, <2>6, <2>7 DEF InOrder
<1> QED  BY <1>3, <1>4, <1>5, <1>7, <1>8 DEF IInv

(***************************************************************************)
(* The call of w is over; what was counted for its file is now n.          *)
(***************************************************************************)
LEMMA EndKeepsInv ==
    ASSUME IInv, NEW w \in Handlers, my[w] # None, End(w), Typed', Exclusive',
           UNCHANGED <<storage, calls, issued, overtakes>>,
           row => row',
           \A g \in Files \ {my[w].file} : info'[g] = info[g],
           row' \/ info'[my[w].file] = None,
           my[w].kind = "file_added" => info'[my[w].file] \in {info[my[w].file], my[w].size},
           Absent',
           overtakes = 0 /\ InOrder /\ Tells(my[w]) =>
               \A g \in Files : g = my[w].file => Right(g)'
    PROVE  IInv'
<1> USE QuotaAssumption DEF storage
<1>0. PICK c : c = my[w]
  OBVIOUS
<1>1. Typed /\ c \in Outstanding /\ c \in Call /\ c.file \in Files /\ c.id \in Nat
  BY <1>0, OutstandingIsCall, CallIds DEF IInv, Typed, Outstanding, Served
<1>2. Outstanding' \subseteq Outstanding /\ Outstanding \subseteq Outstanding' \cup {c}
  BY <1>0, <1>1 DEF End, Outstanding, Served, Typed
<1>3. Numbered'
  BY <1>2 DEF IInv, Numbered
<1>4. RowFirst'
  BY <1>0, <1>1 DEF IInv, RowFirst
<1>5. /\ \A g \in Files : About(g)' \subseteq About(g)
      /\ \A g \in Files \ {c.file} : About(g)' = About(g)
      /\ About(c.file) \subseteq About(c.file)' \cup {c}
  <2>1. \A g \in Files : About(g)' = {d \in Outstanding' : d.file = g}
    BY DEF About
  <2>2. ASSUME NEW g \in Files, NEW d \in About(g), d # c PROVE d \in About(g)'
    BY <1>2, <2>1, <2>2 DEF About
  <2>3. \A g \in Files : About(g)' \subseteq About(g)
    BY <1>2, <2>1 DEF About
  <2>4. \A g \in Files \ {c.file} : c \notin About(g)
    BY DEF About
  <2>5. \A g \in Files \ {c.file} : About(g)' = About(g)
    BY <2>2, <2>3, <2>4
  <2>6. About(c.file) \subseteq About(c.file)' \cup {c}
    BY <1>1, <2>2
  <2> QED  BY <2>3, <2>5, <2>6
<1>6. ASSUME overtakes' = 0 PROVE InOrder'
  <2>1. InOrder /\ overtakes = 0
    BY <1>6 DEF IInv
  <2>2. \A d \in Outstanding : Oldest(d) => Oldest(d)'
    BY <1>1, <1>5, OutstandingIsCall, CallIds DEF Oldest
  <2>3. Oldest(c)
    BY <1>0, <2>1 DEF InOrder, InTurn
  <2>4. InTurn'
    BY <1>1, <2>1, <2>2 DEF InOrder, InTurn, End, Typed, Outstanding, Served
  <2>5. \A d \in Outstanding : d.id \in Nat /\ d.file \in Files
    BY <1>1, OutstandingIsCall, CallIds
  <2>6. NewestTells'
    <3> SUFFICES ASSUME NEW g \in Files, About(g)' # {}
                 PROVE  \E d \in About(g)' : Tells(d)' /\ \A e \in About(g)' : e.id <= d.id
      BY DEF NewestTells
    <3>1. PICK d \in About(g) : Tells(d) /\ \A e \in About(g) : e.id <= d.id
      BY <1>5, <2>1 DEF InOrder, NewestTells
    <3>2. Tells(d)'
      BY <3>1 DEF Tells
    <3>3. d \in About(g)'
      <4>1. CASE d # c
        BY <1>2, <3>1, <4>1 DEF About
      <4>2. CASE d = c
        <5>1. PICK e \in About(g)' : TRUE
          OBVIOUS
        <5>2. e \in About(g) /\ e \in Outstanding /\ e \in Outstanding' /\ g = c.file
          BY <1>5, <3>1, <4>2, <5>1 DEF About
        <5>3. e.id = c.id
          BY <1>1, <2>3, <2>5, <3>1, <4>2, <5>2 DEF Oldest
        <5>4. e = c
          BY <1>1, <5>2, <5>3 DEF IInv, Numbered
        <5> QED  BY <4>2, <5>1, <5>4
      <4> QED  BY <4>1, <4>2
    <3> QED  BY <1>5, <3>1, <3>2, <3>3
  <2>7. AddedFirst'
    <3> SUFFICES ASSUME NEW d \in Outstanding', d.kind = "file_added"
                 PROVE  Oldest(d)' /\ info'[d.file] \in {None, d.size}
      BY DEF AddedFirst
    <3>1. d \in Outstanding /\ Oldest(d) /\ Oldest(d)' /\ info[d.file] \in {None, d.size}
      BY <1>2, <2>1, <2>2 DEF InOrder, AddedFirst
    <3>2. CASE d.file # c.file
      BY <1>0, <2>5, <3>1, <3>2
    <3>3. CASE d.file = c.file
      <4>1. d.id = c.id
        BY <1>1, <2>3, <2>5, <3>1, <3>3 DEF Oldest, About
      <4>2. d = c
        BY <1>1, <3>1, <4>1 DEF IInv, Numbered
      <4> QED  BY <1>0, <3>1, <4>2
    <3> QED  BY <3>2, <3>3
  <2>8. Counted'
    <3> SUFFICES ASSUME NEW g \in Files, About(g)' = {} PROVE Right(g)'
      BY DEF Counted
    <3>1. CASE g # c.file
      BY <1>0, <1>5, <2>1, <3>1 DEF InOrder, Counted, Right
    <3>2. CASE g = c.file
      <4>1. About(g) = {c}
        BY <1>1, <1>5, <3>2 DEF About
      <4>2. Tells(c)
        BY <2>1, <4>1 DEF InOrder, NewestTells
      <4> QED  BY <1>0, <2>1, <3>2, <4>2
    <3> QED  BY <3>1, <3>2
  <2> QED  BY <2>4, <2>6, <2>7, <2>8 DEF InOrder
<1> QED  BY <1>3, <1>4, <1>6 DEF IInv

-----------------------------------------------------------------------------
LEMMA UploadKeepsInv ==
    ASSUME IInv, NEW f \in Files, NEW s \in Sizes, Upload(f, s)
    PROVE  IInv'
<1>1. PICK kind \in {"file_added", "file_updated"} :
         Issue(f, kind, s) /\ (kind = "file_added" => file[f] = "absent")
  BY DEF Upload
<1>2. Typed /\ s \in Nat /\ kind \in Kinds
  BY QuotaAssumption DEF IInv, Kinds
<1>3. /\ file' \in [Files -> {"absent", "live", "trashed"}] /\ size' \in [Files -> Nat]
      /\ \A g \in Files \ {f} : file'[g] = file[g] /\ size'[g] = size[g]
      /\ file'[f] = "live" /\ size'[f] = s
  BY <1>2 DEF Upload, Typed
<1>4. kind # "file_removed"
  OBVIOUS
<1> QED  BY <1>1, <1>2, <1>3, <1>4, IssueKeepsInv

LEMMA DeleteKeepsInv ==
    ASSUME IInv, NEW f \in Files, Delete(f)
    PROVE  IInv'
<1>1. Issue(f, "file_removed", 0) /\ Typed /\ "file_removed" \in Kinds
  BY DEF Delete, IInv, Kinds
<1>2. /\ file' \in [Files -> {"absent", "live", "trashed"}] /\ size' \in [Files -> Nat]
      /\ \A g \in Files \ {f} : file'[g] = file[g] /\ size'[g] = size[g]
      /\ file'[f] = "trashed"
  BY <1>1 DEF Delete, Typed
<1> QED  BY <1>1, <1>2, IssueKeepsInv

LEMMA ReceiveKeepsInv ==
    ASSUME IInv, NEW w \in Handlers, NEW c \in calls, Receive(w, c)
    PROVE  IInv'
<1> USE QuotaAssumption DEF Receive, quota
<1>1. Typed /\ my[w] = None /\ c \in Call /\ c # None /\ w \in Workers /\ w \notin Recalcs
  <2>1. Typed /\ my[w] = None /\ w \in Workers /\ w \notin Recalcs
    BY DEF IInv, Typed, Workers
  <2>2. c \in Call
    BY <2>1 DEF Typed
  <2>3. c # None
    BY <2>2
  <2> QED  BY <2>1, <2>2, <2>3
<1>2. Typed'
  <2>1. overtakes' \in Nat
    BY <1>1 DEF Typed
  <2>2. pc' \in [Workers -> {"idle", "lock", "count", "store", "collided"}]
    BY <1>1 DEF Typed
  <2>3. my' \in [Handlers -> Call \cup {None}] /\ calls' \subseteq Call
    BY <1>1 DEF Typed
  <2>4. \A v \in Handlers : pc'[v] = "idle" <=> my'[v] = None
    BY <1>1 DEF Typed, Workers
  <2>5. \A v \in Recalcs : pc'[v] \notin {"lock", "count"}
    BY <1>1 DEF Typed, Workers
  <2> QED  BY <1>1, <2>1, <2>2, <2>3, <2>4, <2>5 DEF Typed, storage
<1>3. Exclusive'
  BY <1>1 DEF IInv, Exclusive, Typed
<1>4. Outstanding' = Outstanding
  BY <1>1 DEF Outstanding, Served, Typed
<1>5. overtakes' = 0 => overtakes = 0
  BY <1>1 DEF Typed
<1>6. ASSUME overtakes' = 0 PROVE Oldest(c)
  <2>1. ~Overtakes(c)
    BY <1>1, <1>6 DEF Typed
  <2>2. \A d \in Outstanding : d.id \in Nat
    BY <1>1, OutstandingIsCall, CallIds
  <2>3. c.id \in Nat
    BY <1>1, CallIds
  <2> QED  BY <2>1, <2>2, <2>3 DEF Overtakes, Oldest, About, Outstanding
<1>7. ASSUME overtakes' = 0, NEW v \in Handlers, my'[v] # None
      PROVE  my'[v] = my[v] \/ Oldest(my'[v])
  <2>1. my'[v] = my[v] \/ my'[v] = c
    BY <1>1 DEF Typed
  <2> QED  BY <1>6, <1>7, <2>1
<1>8. UNCHANGED <<storage, info, issued>> /\ row' = row
  OBVIOUS
<1> QED  BY <1>2, <1>3, <1>4, <1>5, <1>7, <1>8, NothingCounted

LEMMA IgnoreKeepsInv ==
    ASSUME IInv, NEW w \in Handlers, Ignore(w)
    PROVE  IInv'
<1> USE QuotaAssumption DEF Ignore, End, quota, bounds
<1>1. Typed /\ w \in Workers /\ w \notin Recalcs /\ my[w] # None /\ my[w].file \in Files
  <2>1. Typed /\ w \in Workers /\ w \notin Recalcs /\ my[w] # None
    BY DEF IInv, Typed, Workers
  <2> QED  BY <2>1, CallIds DEF Typed
<1>2. Typed'
  BY <1>1 DEF Typed, Workers, storage
<1>3. Exclusive'
  BY <1>1 DEF IInv, Exclusive, Typed
<1>4. \A f \in Files : info'[f] = None
  BY DEF IInv, RowFirst
<1>5. Absent'
  <2>1. \A f \in Files : About(f)' \subseteq About(f)
    BY <1>1 DEF About, Outstanding, Served, Typed
  <2> QED  BY <2>1 DEF IInv, Absent, storage
<1>6. \A g \in Files : Right(g)'
  BY <1>4 DEF Right
<1> QED  BY <1>1, <1>2, <1>3, <1>4, <1>5, <1>6, EndKeepsInv

LEMMA LockKeepsInv ==
    ASSUME IInv, NEW w \in Handlers, Lock(w)
    PROVE  IInv'
<1> USE QuotaAssumption DEF Lock, Free, bounds
<1>1. Typed /\ w \in Workers /\ w \notin Recalcs
  BY DEF IInv, Workers
<1>2. Typed'
  BY <1>1 DEF Typed, Workers, storage
<1>3. Exclusive'
  BY <1>1 DEF IInv, Exclusive, Typed
<1>4. Outstanding' = Outstanding
  BY DEF Outstanding, Served
<1>5. UNCHANGED <<storage, info, issued, row, overtakes, my>>
  OBVIOUS
<1> QED  BY <1>2, <1>3, <1>4, <1>5, NothingCounted

LEMMA CountKeepsInv ==
    ASSUME IInv, NEW w \in Handlers, Count(w)
    PROVE  IInv'
<1> USE QuotaAssumption DEF End
<1>0. PICK f \in Files : f = my[w].file
  <2>1. my[w] \in Call
    BY DEF Count, IInv, Typed
  <2> QED  BY <2>1, CallIds
<1>1. /\ Typed /\ w \in Workers /\ w \notin Recalcs /\ my[w] # None /\ my[w] \in Call
      /\ my[w].kind \in Kinds /\ my[w].size \in Nat
  <2>1. Typed /\ w \in Workers /\ w \notin Recalcs /\ my[w] # None /\ my[w] \in Call
    BY DEF Count, IInv, Typed, Workers
  <2> QED  BY <2>1, CallIds
<1>2. PICK n, s :
        /\ Commit(w, n, f, s)
        /\ CASE my[w].kind = "file_added" -> s = IF info[f] = None THEN my[w].size ELSE info[f]
             [] my[w].kind = "file_removed" ->
                  s = IF file[f] = "trashed" /\ info[f] # None THEN 0 ELSE info[f]
             [] OTHER -> s = my[w].size
  BY <1>0, <1>1 DEF Count, file_added, node_removed, file_modified, Kinds
<1> USE DEF Commit, bounds, storage
<1>3. info[f] \in Nat \cup {None} /\ s \in Nat \cup {None}
  BY <1>1, <1>2 DEF Typed, Kinds
<1>4. info' \in [Files -> Nat \cup {None}] /\ info'[f] = s /\ row' = TRUE
      /\ \A g \in Files \ {f} : info'[g] = info[g]
  BY <1>1, <1>2, <1>3 DEF Typed
<1>5. Typed'
  BY <1>1, <1>2, <1>4 DEF Typed, Workers
<1>6. Exclusive'
  BY <1>1, <1>2 DEF Count, IInv, Exclusive, Typed
<1>7. Absent'
  <2>1. \A g \in Files : About(g)' \subseteq About(g)
    BY <1>1, <1>2 DEF About, Outstanding, Served, Typed
  <2>2. file[f] # "absent"
    BY <1>0, <1>1 DEF IInv, Absent, About, Outstanding, Served
  <2> QED  BY <1>2, <1>4, <2>1, <2>2 DEF IInv, Absent
<1>8. my[w].kind = "file_added" => info'[f] \in {info[f], my[w].size}
  BY <1>2, <1>4
<1>9. ASSUME overtakes = 0, InOrder, Tells(my[w]) PROVE Right(f)'
  <2>1. CASE my[w].kind = "file_added"
    <3>1. my[w] \in Outstanding
      BY <1>1 DEF Outstanding, Served
    <3>2. info[f] \in {None, my[w].size} /\ file[f] = "live" /\ size[f] = my[w].size
      BY <1>0, <1>9, <2>1, <3>1 DEF InOrder, AddedFirst, Tells
    <3> QED  BY <1>2, <1>4, <2>1, <3>2 DEF Right
  <2>2. CASE my[w].kind = "file_removed"
    BY <1>0, <1>2, <1>4, <1>9, <2>2 DEF Right, Tells
  <2>3. CASE my[w].kind = "file_updated"
    BY <1>0, <1>2, <1>4, <1>9, <2>3 DEF Right, Tells
  <2> QED  BY <1>1, <2>1, <2>2, <2>3 DEF Kinds
<1>10. End(w) /\ UNCHANGED <<storage, calls, issued, overtakes>>
  BY <1>2
<1> QED  BY <1>0, <1>1, <1>4, <1>5, <1>6, <1>7, <1>8, <1>9, <1>10, EndKeepsInv

LEMMA CallAgainKeepsInv ==
    ASSUME IInv, NEW w \in Handlers, CallAgain(w)
    PROVE  IInv'
<1> USE QuotaAssumption DEF CallAgain, End, request
<1>1. Typed /\ w \in Workers /\ w \notin Recalcs /\ my[w] # None /\ my[w] \in Call
  BY DEF IInv, Typed, Workers
<1>2. calls' \subseteq Call
  BY <1>1 DEF Typed
<1>3. Typed'
  <2>1. CASE UNCHANGED <<owner, request>>
    BY <1>1, <1>2, <2>1 DEF Typed, storage
  <2>2. CASE End(w) /\ owner' = IF owner = w THEN None ELSE owner
    BY <1>1, <1>2, <2>2 DEF Typed, Workers, storage
  <2> QED  BY <2>1, <2>2
<1>4. Exclusive'
  <2>1. CASE UNCHANGED <<owner, request>>
    BY <2>1 DEF IInv, Exclusive
  <2>2. CASE End(w) /\ owner' = IF owner = w THEN None ELSE owner
    BY <1>1, <2>2 DEF IInv, Exclusive, Typed
  <2> QED  BY <2>1, <2>2
<1>5. Outstanding' = Outstanding
  BY <1>1 DEF Outstanding, Served, Typed
<1>6. UNCHANGED <<storage, info, issued, row, overtakes>>
  OBVIOUS
<1>7. \A v \in Handlers : my'[v] # None => my'[v] = my[v]
  BY <1>1 DEF Typed
<1> QED  BY <1>3, <1>4, <1>5, <1>6, <1>7, NothingCounted

(***************************************************************************)
(* Recalculations, and the administrator, touch the row and no FileInfo.   *)
(***************************************************************************)
LEMMA RecalculationKeepsInv ==
    ASSUME IInv, NEW w \in Recalcs, Recalculate(w) \/ Store(w) \/ Insert(w)
    PROVE  IInv'
<1> USE QuotaAssumption DEF Recalculate, Store, Insert, Free, bounds, quota
<1>1. Typed /\ w \in Workers /\ w \notin Handlers
  BY DEF IInv, Workers
<1>2. /\ UNCHANGED <<storage, info, issued, overtakes, calls, my, owner>>
      /\ row' \in BOOLEAN /\ (row => row')
      /\ \A v \in Workers \ {w} : pc'[v] = pc[v] /\ number'[v] = number[v]
      /\ DOMAIN number' = Workers
      /\ pc' \in [Workers -> {"idle", "lock", "count", "store", "collided"}]
      /\ pc'[w] \in {"idle", "store", "collided"}
      /\ used' = used \/ owner = None
  <2>1. CASE Recalculate(w)
    BY <1>1, <2>1 DEF Typed
  <2>2. CASE Store(w)
    BY <1>1, <2>2 DEF Typed
  <2>3. CASE Insert(w)
    BY <1>1, <2>3 DEF Typed
  <2> QED  BY <2>1, <2>2, <2>3
<1>3. Typed'
  BY <1>1, <1>2 DEF Typed, Workers, storage
<1>4. Exclusive'
  BY <1>1, <1>2 DEF IInv, Exclusive, Workers
<1>5. Outstanding' = Outstanding
  BY <1>2 DEF Outstanding, Served
<1> QED  BY <1>2, <1>3, <1>4, <1>5, NothingCounted

LEMMA SetMaxQuotaKeepsInv ==
    ASSUME IInv, SetMaxQuota
    PROVE  IInv'
<1> USE DEF SetMaxQuota, request, bounds
<1>1. Typed'
  BY DEF IInv, Typed, storage
<1>2. Exclusive'
  BY DEF IInv, Exclusive
<1>3. Outstanding' = Outstanding
  BY DEF Outstanding, Served
<1>4. UNCHANGED <<storage, info, issued, overtakes, my>> /\ row'
  OBVIOUS
<1> QED  BY <1>1, <1>2, <1>3, <1>4, NothingCounted

LEMMA NextInv == IInv /\ [Next]_vars => IInv'
<1> SUFFICES ASSUME IInv, [Next]_vars PROVE IInv'
  OBVIOUS
<1>1. CASE UNCHANGED vars
  <2> USE <1>1 DEF vars, storage, quota, request, bounds
  <2>1. Typed' /\ Exclusive'
    BY DEF IInv, Typed, Exclusive
  <2>2. Outstanding' = Outstanding
    BY DEF Outstanding, Served
  <2>3. UNCHANGED <<storage, info, issued, row, overtakes, my>>
    OBVIOUS
  <2> QED  BY <2>1, <2>2, <2>3, NothingCounted
<1>2. CASE \E f \in Files, s \in Sizes : Upload(f, s)
  BY <1>2, UploadKeepsInv
<1>3. CASE \E f \in Files : Delete(f)
  BY <1>3, DeleteKeepsInv
<1>4. CASE \E w \in Handlers : \E c \in calls : Receive(w, c)
  BY <1>4, ReceiveKeepsInv
<1>5. CASE \E w \in Handlers : Ignore(w)
  BY <1>5, IgnoreKeepsInv
<1>6. CASE \E w \in Handlers : Lock(w)
  BY <1>6, LockKeepsInv
<1>7. CASE \E w \in Handlers : Count(w)
  BY <1>7, CountKeepsInv
<1>8. CASE \E w \in Handlers : CallAgain(w)
  BY <1>8, CallAgainKeepsInv
<1>9. CASE \E w \in Recalcs : Recalculate(w) \/ Store(w) \/ Insert(w)
  BY <1>9, RecalculationKeepsInv
<1>10. CASE SetMaxQuota
  BY <1>10, SetMaxQuotaKeepsInv
<1> QED  BY <1>1, <1>2, <1>3, <1>4, <1>5, <1>6, <1>7, <1>8, <1>9, <1>10 DEF Next

(***************************************************************************)
(* No lost update: what a callback adds to is what the row says.           *)
(***************************************************************************)
THEOREM NoUpdateIsLost == Spec => []NoLostUpdate
<1>1. IInv => NoLostUpdate
  BY DEF IInv, Exclusive, NoLostUpdate
<1> QED  BY InitInv, NextInv, <1>1, PTL DEF Spec

(***************************************************************************)
(* A stored file without a FileInfo is older than FileInfo, or the call    *)
(* that adds it is still to be answered, in whatever order that happens.   *)
(***************************************************************************)
NewIsKnown ==
    \A f \in Files \ Legacy :
        info[f] = None => file[f] = "absent" \/ \E c \in About(f) : c.kind = "file_added"

LEMMA InitKnown == Init => NewIsKnown
BY QuotaAssumption DEF Init, NewIsKnown

LEMMA KnownStays ==
    ASSUME NewIsKnown,
           \A f \in Files : info'[f] = None => info[f] = None,
           \A f \in Files : info'[f] = None /\ file'[f] # "absent" /\ file[f] = "absent" =>
               \E c \in Outstanding' : c.file = f /\ c.kind = "file_added",
           \A c \in Outstanding : c.kind = "file_added" /\ info'[c.file] = None =>
               c \in Outstanding'
    PROVE  NewIsKnown'
BY DEF NewIsKnown, About

LEMMA NextKnown == IInv /\ NewIsKnown /\ [Next]_vars => NewIsKnown'
<1> SUFFICES ASSUME IInv, NewIsKnown, [Next]_vars PROVE NewIsKnown'
  OBVIOUS
<1> USE QuotaAssumption DEF storage, quota, request, bounds
<1>0. Typed
  BY DEF IInv
<1>1. ASSUME NEW f \in Files, NEW s \in Sizes, Upload(f, s) PROVE NewIsKnown'
  <2>1. Outstanding \subseteq Outstanding' /\ info' = info
    BY <1>1 DEF Upload, Issue, Outstanding, Served
  <2>2. file[f] = "absent" => \E c \in Outstanding' : c.file = f /\ c.kind = "file_added"
    <3> DEFINE c == [id |-> issued + 1, file |-> f, kind |-> "file_added", size |-> s]
    <3>1. c.file = f /\ c.kind = "file_added"
      OBVIOUS
    <3>2. file[f] = "absent" => c \in calls'
      BY <1>1 DEF Upload, Issue
    <3> QED  BY <3>1, <3>2 DEF Outstanding
  <2>3. \A g \in Files \ {f} : file'[g] = file[g]
    BY <1>0, <1>1 DEF Upload, Typed
  <2> QED  BY <2>1, <2>2, <2>3, KnownStays
<1>2. ASSUME NEW f \in Files, Delete(f) PROVE NewIsKnown'
  <2>1. Outstanding \subseteq Outstanding' /\ info' = info
    BY <1>2 DEF Delete, Issue, Outstanding, Served
  <2>2. \A g \in Files : file[g] = "absent" => file'[g] = "absent"
    BY <1>0, <1>2 DEF Delete, Typed
  <2> QED  BY <2>1, <2>2, KnownStays
<1>3. ASSUME NEW w \in Handlers, Ignore(w) PROVE NewIsKnown'
  <2>1. \A c \in Outstanding : c.kind = "file_added" => c \in Outstanding'
    BY <1>0, <1>3 DEF Ignore, End, Outstanding, Served, Typed
  <2>2. UNCHANGED <<info, file>>
    BY <1>3 DEF Ignore
  <2> QED  BY <2>1, <2>2, KnownStays
<1>4. ASSUME NEW w \in Handlers, Count(w) PROVE NewIsKnown'
  <2>1. my[w] \in Call /\ my[w].file \in Files /\ my[w].size \in Nat /\ my[w].kind \in Kinds
    <3>1. my[w] \in Call
      BY <1>0, <1>4 DEF Count, Typed
    <3> QED  BY <3>1, CallIds
  <2>2. PICK n, s :
          /\ Commit(w, n, my[w].file, s)
          /\ s = None => info[my[w].file] = None /\ my[w].kind # "file_added"
    BY <1>0, <1>4, <2>1 DEF Count, file_added, node_removed, file_modified, Kinds, Typed
  <2>3. \A c \in Outstanding : c \in Outstanding' \/ c = my[w]
    BY <1>0, <2>2 DEF Commit, End, Outstanding, Served, Typed
  <2>4. /\ info'[my[w].file] = s
        /\ \A f \in Files : info'[f] = None => info[f] = None
    BY <1>0, <2>1, <2>2 DEF Commit, Typed
  <2>5. file' = file
    BY <2>2 DEF Commit
  <2> QED  BY <2>2, <2>3, <2>4, <2>5, KnownStays
<1>5. ASSUME UNCHANGED <<info, file>>, Outstanding' = Outstanding PROVE NewIsKnown'
  BY <1>5, KnownStays
<1>6. ASSUME NEW w \in Handlers, NEW c \in calls, Receive(w, c) PROVE NewIsKnown'
  <2>1. my[w] = None
    BY <1>0, <1>6 DEF Receive, Typed
  <2>2. Outstanding' = Outstanding
    BY <1>0, <1>6, <2>1 DEF Receive, Outstanding, Served, Typed
  <2> QED  BY <1>5, <1>6, <2>2 DEF Receive
<1>7. ASSUME NEW w \in Handlers, CallAgain(w) PROVE NewIsKnown'
  <2>1. Outstanding' = Outstanding
    BY <1>0, <1>7 DEF CallAgain, End, Outstanding, Served, Typed
  <2> QED  BY <1>5, <1>7, <2>1 DEF CallAgain
<1>8. ASSUME \/ \E w \in Handlers : Lock(w)
             \/ \E w \in Recalcs : Recalculate(w) \/ Store(w) \/ Insert(w)
             \/ SetMaxQuota
             \/ UNCHANGED vars
      PROVE  NewIsKnown'
  <2>1. UNCHANGED <<info, file, calls, my>>
    BY <1>8 DEF Lock, Recalculate, Store, Insert, SetMaxQuota, vars
  <2>2. Outstanding' = Outstanding
    BY <2>1 DEF Outstanding, Served
  <2> QED  BY <1>5, <2>1, <2>2
<1> QED  BY <1>1, <1>2, <1>3, <1>4, <1>6, <1>7, <1>8 DEF Next

(***************************************************************************)
(* Callbacks answered in the order they were issued in, however often they *)
(* are made again and whatever is recalculated meanwhile, leave what is    *)
(* really stored in FileInfo; only what was never stored, or is older than *)
(* FileInfo, is without.                                                   *)
(***************************************************************************)
THEOREM FilesAreCountedRight == Spec => []FilesAreCounted
<1>1. IInv /\ NewIsKnown => FilesAreCounted
  BY DEF IInv, InOrder, Counted, Right, NewIsKnown, About, Outstanding, FilesAreCounted
<1> QED  BY InitInv, NextInv, InitKnown, NextKnown, <1>1, PTL DEF Spec

-----------------------------------------------------------------------------
(***************************************************************************)
(* Sums.  A sum is a natural number; the sum of all files is what one file *)
(* contributes and what the others do.                                     *)
(***************************************************************************)
FileInfo == [Files -> Nat \cup {None}]

Share(i, f) == {f} \X (1..Known(i[f]))

Shares(i, F) == UNION {Share(i, f) : f \in F}

LEMMA TotalIsOfShares == \A F : Total(F) = Cardinality(Shares(info, F))
BY DEF Total, Bytes, Shares, Share

LEMMA ShareIsFinite ==
    ASSUME NEW i \in FileInfo, NEW f \in Files
    PROVE  IsFiniteSet(Share(i, f)) /\ Cardinality(Share(i, f)) = Known(i[f]) /\ Known(i[f]) \in Nat
<1> DEFINE k == Known(i[f])
<1>1. k \in Nat
  BY QuotaAssumption DEF FileInfo, Known
<1> HIDE DEF k
<1>2. IsFiniteSet(1..k) /\ Cardinality(1..k) = k
  BY <1>1, FS_Interval
<1>3. IsFiniteSet({f}) /\ Cardinality({f}) = 1
  BY FS_Singleton
<1>4. IsFiniteSet({f} \X (1..k)) /\ Cardinality({f} \X (1..k)) = 1 * k
  <2>1. /\ IsFiniteSet({f} \X (1..k))
        /\ Cardinality({f} \X (1..k)) = Cardinality({f}) * Cardinality(1..k)
    BY ONLY <1>2, <1>3, FS_Product
  <2> QED  BY ONLY <2>1, <1>2, <1>3
<1>5. 1 * k = k
  BY ONLY <1>1
<1>6. Share(i, f) = {f} \X (1..k) /\ k = Known(i[f])
  BY DEF Share, k
<1> QED  BY ONLY <1>1, <1>4, <1>5, <1>6

LEMMA SharesAreFinite ==
    ASSUME NEW i \in FileInfo, NEW F \in SUBSET Files
    PROVE  IsFiniteSet(Shares(i, F)) /\ Cardinality(Shares(i, F)) \in Nat
<1> DEFINE T == {Share(i, f) : f \in F}
           share == [f \in F |-> Share(i, f)]
<1>1. IsFiniteSet(F)
  BY QuotaAssumption, FS_Subset
<1>2. share \in Surjection(F, T)
  BY DEF Surjection
<1>3. IsFiniteSet(T)
  BY <1>1, <1>2, FS_Surjection
<1>4. \A S \in T : IsFiniteSet(S)
  BY ShareIsFinite
<1>5. IsFiniteSet(UNION T)
  BY <1>3, <1>4, FS_UNION
<1> QED  BY <1>5, FS_CardinalityType DEF Shares

LEMMA SumOfOneAndOthers ==
    ASSUME NEW i \in FileInfo, NEW f \in Files
    PROVE  Cardinality(Shares(i, Files)) = Cardinality(Shares(i, Files \ {f})) + Known(i[f])
<1> DEFINE others == Shares(i, Files \ {f})
<1>1. IsFiniteSet(others) /\ IsFiniteSet(Share(i, f)) /\ Cardinality(others) \in Nat
      /\ Cardinality(Share(i, f)) = Known(i[f]) /\ Known(i[f]) \in Nat
  BY SharesAreFinite, ShareIsFinite
<1>2. Shares(i, Files) = others \cup Share(i, f)
  BY DEF Shares
<1>3. others \cap Share(i, f) = {}
  BY DEF Shares, Share
<1> HIDE DEF others
<1>4. Cardinality(others \cap Share(i, f)) = 0
  BY <1>3, FS_EmptySet
<1>5. Cardinality(others \cup Share(i, f)) =
         Cardinality(others) + Cardinality(Share(i, f)) - Cardinality(others \cap Share(i, f))
  BY <1>1, FS_Union
<1> QED  BY <1>1, <1>2, <1>4, <1>5 DEF others

(***************************************************************************)
(* What the sum becomes when something else is counted for one file.       *)
(***************************************************************************)
LEMMA SumOfChange ==
    ASSUME NEW i \in FileInfo, NEW j \in FileInfo, NEW f \in Files,
           \A g \in Files \ {f} : j[g] = i[g]
    PROVE  LET before == Cardinality(Shares(i, Files))
               after  == Cardinality(Shares(j, Files))
           IN  /\ before \in Nat /\ after \in Nat
               /\ Known(i[f]) \in Nat /\ Known(j[f]) \in Nat
               /\ Known(i[f]) <= before
               /\ after + Known(i[f]) = before + Known(j[f])
<1> DEFINE n == Cardinality(Shares(i, Files \ {f}))
<1>1. Shares(j, Files \ {f}) = Shares(i, Files \ {f})
  BY DEF Shares, Share
<1>2. n \in Nat /\ Known(i[f]) \in Nat /\ Known(j[f]) \in Nat
  BY SharesAreFinite, ShareIsFinite
<1>3. Cardinality(Shares(i, Files)) = n + Known(i[f])
      /\ Cardinality(Shares(j, Files)) = n + Known(j[f])
  BY <1>1, SumOfOneAndOthers
<1> QED  BY <1>2, <1>3

-----------------------------------------------------------------------------
(***************************************************************************)
(* The numbers are natural numbers.                                        *)
(***************************************************************************)
NumbersOK ==
    /\ used \in Nat
    /\ number \in [Workers -> Nat]
    /\ issued \in 0..MaxCalls
    /\ retries \in Nat
    /\ overtakes \in Nat
    /\ recalcs \in Nat

LEMMA TotalIsNat == ASSUME IInv, NEW F \in SUBSET Files PROVE Total(F) \in Nat
BY TotalIsOfShares, SharesAreFinite DEF IInv, Typed, FileInfo

LEMMA UsedQuotaIsNat == ASSUME IInv PROVE used_quota \in Nat
BY TotalIsNat DEF used_quota

LEMMA LessIsNat == ASSUME NEW m \in Nat, NEW n \in Nat PROVE Less(m, n) \in Nat
BY DEF Less

LEMMA EndNumbers ==
    ASSUME number \in [Workers -> Nat], NEW w \in Workers, End(w)
    PROVE  number' \in [Workers -> Nat]
BY DEF End

LEMMA CountNumbers ==
    ASSUME IInv, NumbersOK, NEW w \in Handlers, Count(w)
    PROVE  NumbersOK'
<1> DEFINE f == my[w].file
<1>1. f \in Files /\ my[w].size \in Nat /\ w \in Workers /\ number[w] \in Nat
      /\ number[w] + my[w].size \in Nat
  <2>1. my[w] \in Call /\ w \in Workers
    BY DEF Count, IInv, Typed, Workers
  <2>2. f \in Files /\ my[w].size \in Nat
    BY <2>1, CallIds
  <2> HIDE DEF f
  <2> QED  BY <2>1, <2>2 DEF NumbersOK
<1>2. Known(info[f]) \in Nat /\ info[f] \in Nat \cup {None}
  BY <1>1, ShareIsFinite DEF IInv, Typed, FileInfo
<1>3. \E n \in Nat : \E s : Commit(w, n, f, s)
  <2>1. used \in Nat
    BY DEF NumbersOK
  <2>2. Less(number[w] + my[w].size, Known(info[f])) \in Nat
    BY <1>1, <1>2, LessIsNat
  <2>3. info[f] # None => Less(number[w], info[f]) \in Nat
    BY <1>1, <1>2, LessIsNat
  <2> HIDE DEF f
  <2>4. CASE my[w].kind = "file_added"
    BY <1>1, <2>1, <2>4 DEF Count, file_added, f
  <2>5. CASE my[w].kind = "file_removed"
    BY <1>1, <2>1, <2>3, <2>5 DEF Count, node_removed, f
  <2>6. CASE my[w].kind \notin {"file_added", "file_removed"}
    BY <1>1, <2>2, <2>6 DEF Count, file_modified, f
  <2> QED  BY <2>4, <2>5, <2>6
<1> QED  BY <1>1, <1>3, EndNumbers DEF Commit, NumbersOK, bounds

LEMMA NextNumbers == ASSUME IInv, NumbersOK, [Next]_vars PROVE NumbersOK'
<1> USE DEF NumbersOK, quota, request, bounds
<1>1. CASE UNCHANGED vars
  BY <1>1 DEF vars
<1>2. ASSUME NEW f, NEW kind, NEW s, Issue(f, kind, s) PROVE NumbersOK'
  BY <1>2, QuotaAssumption DEF Issue
<1>3. ASSUME NEW w \in Handlers, NEW c \in calls, Receive(w, c) PROVE NumbersOK'
  BY <1>3 DEF Receive
<1>4. ASSUME NEW w \in Handlers, Ignore(w) \/ CallAgain(w) PROVE NumbersOK'
  <2>1. w \in Workers
    BY DEF Workers
  <2>2. CASE Ignore(w)
    BY <2>1, <2>2, EndNumbers DEF Ignore
  <2>3. CASE CallAgain(w)
    BY <2>1, <2>3, EndNumbers DEF CallAgain
  <2> QED  BY <1>4, <2>2, <2>3
<1>5. ASSUME NEW w \in Handlers, Lock(w) PROVE NumbersOK'
  BY <1>5 DEF Lock
<1>6. ASSUME NEW w \in Handlers, Count(w) PROVE NumbersOK'
  BY <1>6, CountNumbers
<1>7. ASSUME NEW w \in Recalcs, Recalculate(w) PROVE NumbersOK'
  BY <1>7, UsedQuotaIsNat DEF Recalculate, Workers
<1>8. ASSUME NEW w \in Recalcs, Store(w) PROVE NumbersOK'
  BY <1>8 DEF Store, Workers
<1>9. ASSUME NEW w \in Recalcs, Insert(w) PROVE NumbersOK'
  BY <1>9, UsedQuotaIsNat DEF Insert, Workers
<1>10. CASE SetMaxQuota
  BY <1>10 DEF SetMaxQuota
<1> QED  BY <1>1, <1>2, <1>3, <1>4, <1>5, <1>6, <1>7, <1>8, <1>9, <1>10 DEF Next, Upload, Delete

(***************************************************************************)
(* The types of the rows, the calls and the requests.                      *)
(***************************************************************************)
THEOREM TypeCorrect == Spec => []TypeOK
<1>1. Init => NumbersOK
  BY QuotaAssumption DEF Init, NumbersOK
<1>2. IInv /\ NumbersOK /\ [Next]_vars => NumbersOK'
  BY NextNumbers
<1>3. IInv /\ NumbersOK => TypeOK
  BY DEF IInv, Typed, NumbersOK, TypeOK
<1> QED  BY InitInv, NextInv, <1>1, <1>2, <1>3, PTL DEF Spec

-----------------------------------------------------------------------------
(***************************************************************************)
(* A transaction that counts moves the counter by what it moves the sum.   *)
(***************************************************************************)
LEMMA CountKeepsBalance ==
    ASSUME IInv, NumbersOK, Balanced, NEW w \in Handlers, Count(w)
    PROVE  Balanced'
<1> DEFINE f == my[w].file
           k == Known(info[f])
<1>1. my[w] \in Call /\ f \in Files /\ my[w].size \in Nat /\ number[w] = used
      /\ my[w].kind \in Kinds
  <2>1. my[w] \in Call /\ number[w] = used
    BY DEF Count, IInv, Typed, Exclusive
  <2> QED  BY <2>1, CallIds
<1>2. info \in FileInfo /\ info' \in FileInfo
  BY CountKeepsInv DEF IInv, Typed, FileInfo
<1>3. \A n, s : Commit(w, n, f, s) =>
         used' = n /\ info'[f] = s /\ \A g \in Files \ {f} : info'[g] = info[g]
  BY <1>1, <1>2 DEF Commit, FileInfo
<1> HIDE DEF f
<1>4. \A g \in Files \ {f} : info'[g] = info[g]
  BY <1>1, <1>3 DEF Count, file_added, node_removed, file_modified, f
<1>5. /\ Total(Files) \in Nat /\ Total(Files)' \in Nat
      /\ k \in Nat /\ Known(info'[f]) \in Nat
      /\ k <= Total(Files)
      /\ Total(Files)' + k = Total(Files) + Known(info'[f])
  <2>1. Total(Files) = Cardinality(Shares(info, Files))
    BY TotalIsOfShares
  <2>2. Total(Files)' = Cardinality(Shares(info', Files))
    BY DEF Total, Bytes, Shares, Share, Known
  <2> QED  BY <1>1, <1>2, <1>4, <2>1, <2>2, SumOfChange
<1>6. used = Total(Files)
  BY DEF Balanced
<1>7. used' + k = used + Known(info'[f])
  <2>1. CASE my[w].kind = "file_added"
    <3>1. CASE info[f] = None
      BY <1>1, <1>3, <1>5, <1>6, <2>1, <3>1, QuotaAssumption DEF Count, file_added, Known, f
    <3>2. CASE info[f] # None
      BY <1>1, <1>3, <1>5, <1>6, <2>1, <3>2 DEF Count, file_added, f
    <3> QED  BY <3>1, <3>2
  <2>2. CASE my[w].kind = "file_removed"
    <3>1. CASE file[f] = "trashed" /\ info[f] # None
      <4>1. used' = Less(used, info[f]) /\ info'[f] = 0
        BY <1>1, <1>3, <2>2, <3>1 DEF Count, node_removed, f
      <4>2. k = info[f] /\ Known(info'[f]) = 0
        BY <3>1, <4>1, QuotaAssumption DEF Known
      <4> QED  BY <1>5, <1>6, <4>1, <4>2 DEF Less
    <3>2. CASE ~(file[f] = "trashed" /\ info[f] # None)
      BY <1>1, <1>3, <1>5, <1>6, <2>2, <3>2 DEF Count, node_removed, f
    <3> QED  BY <3>1, <3>2
  <2>3. CASE my[w].kind = "file_updated"
    <3>1. used' = Less(used + my[w].size, k) /\ info'[f] = my[w].size
      BY <1>1, <1>3, <2>3 DEF Count, file_modified, f
    <3>2. Known(info'[f]) = my[w].size
      BY <1>1, <3>1, QuotaAssumption DEF Known
    <3> HIDE DEF k
    <3> QED  BY <1>1, <1>5, <1>6, <3>1, <3>2 DEF Less
  <2> QED  BY <1>1, <2>1, <2>2, <2>3 DEF Kinds
<1>8. used' \in Nat
  BY NumbersOK, CountNumbers DEF NumbersOK
<1> HIDE DEF k
<1> QED  BY <1>5, <1>6, <1>7, <1>8 DEF Balanced

LEMMA NextBalance ==
    ASSUME IInv, NumbersOK, Next, Balanced
    PROVE  Balanced' \/ \E w \in Recalcs : pc[w] = "store" /\ pc'[w] = "idle"
<1>1. ASSUME UNCHANGED <<used, info>> PROVE Balanced'
  BY <1>1 DEF Balanced, Total, Bytes, Known
<1>2. ASSUME NEW w \in Handlers, Count(w) PROVE Balanced'
  BY <1>2, CountKeepsBalance
<1>3. ASSUME NEW w \in Recalcs, Store(w)
      PROVE  UNCHANGED <<used, info>> \/ (pc[w] = "store" /\ pc'[w] = "idle")
  BY <1>3 DEF Store, IInv, Typed, Workers
<1> QED  BY <1>1, <1>2, <1>3
   DEF Next, Upload, Delete, Issue, Receive, Ignore, Lock, CallAgain, Recalculate, Insert,
       SetMaxQuota, quota

(***************************************************************************)
(* The counter stays the sum of what FileInfo says was counted, however    *)
(* callbacks are repeated, overlap or overtake each other: only a          *)
(* recalculation that stores its sum can unbalance it.                     *)
(***************************************************************************)
THEOREM BalanceKept == Spec => BalanceIsKept
<1> DEFINE Kept == Balanced => Balanced' \/ \E w \in Recalcs : pc[w] = "store" /\ pc'[w] = "idle"
<1>1. Init => NumbersOK
  BY QuotaAssumption DEF Init, NumbersOK
<1>2. IInv /\ NumbersOK /\ [Next]_vars => NumbersOK'
  BY NextNumbers
<1>3. IInv /\ NumbersOK /\ [Next]_vars => [Kept]_vars
  BY NextBalance
<1> QED  BY InitInv, NextInv, <1>1, <1>2, <1>3, PTL DEF Spec, BalanceIsKept
=============================================================================
