----------------------- MODULE DeferredUpdatesProofs -----------------------
(***************************************************************************)
(* No deferred update is lost or misplaced, for any number of folders,     *)
(* messages and workers and any limits.                                    *)
(*                                                                         *)
(* A purge deletes the rows it has listed and merges the rows of its       *)
(* folder.  The two agree as long as the messages listed are still in that *)
(* folder (Listed), which holds of all messages that nobody has moved      *)
(* while a purge had them in its list, and of those that were deferred for *)
(* the folder they are in.  Nothing is assumed of the cache.               *)
(***************************************************************************)
EXTENDS DeferredUpdates, TLAPS

\* The definitions of AtHome and Merged, of a table D of deferred updates, a
\* copy F, a hierarchy P and a set R of messages left out.
HomeIn(D, P, R) == \A m \in Messages \ R : D[m] # None => D[m] = P[m]
MergedIn(D, F, P, R) == \A m \in Messages \ R :
    P[m] \in Folders /\ D[m] = None => m \in F[P[m]]

\* The messages in ids are in folder f or deleted.
InPlace(ids, f, P, R) == \A m \in ids \ R : P[m] \in {f, Gone}

\* What every purge of folder f with the ids listed does, and what a write
\* does that purges nothing.
Purges(f, ids, F, D) ==
    /\ fresh' \in [Folders -> SUBSET Messages]
    /\ deferred' \in [Messages -> Folders \cup {None}]
    /\ \A g \in Folders : F[g] \subseteq fresh'[g]
    /\ \A m \in Messages : \/ deferred'[m] = D[m]
                           \/ m \in ids /\ deferred'[m] = None
    /\ \A m \in Messages : deferred'[m] # D[m] /\ D[m] = f => m \in fresh'[f]

-----------------------------------------------------------------------------
(* The inductive invariant.                                                *)

\* Who works on a folder has one.
Shape ==
    /\ \A p \in Purgers : list[p] # {} => folder[p] \in Folders
    /\ \A w \in Workers : pc[w] \in {"begun", "locked"} => folder[w] \in Folders
    /\ \A w \in Workers : pc[w] = "locked" /\ op[w] = "save" =>
          msg[w] \in Messages /\ home[w] \in Folders
    /\ \A w \in Workers : pc[w] \in {"begun", "locked"} /\ op[w] \in {"save", "move"} =>
          msg[w] \in Messages
    /\ pc[Thread] = "listed" => folder[Thread] \in Folders
    /\ pc[Admin] \in {"begin", "listed", "merged"} => folder[Admin] \in Folders
    /\ pc[Reader] = "listed" => folder[Reader] \in Folders
TypeInv == TypeOK /\ Shape

\* The messages a purge has listed are in its folder or deleted.
Listed == \A p \in Purgers : InPlace(list[p], folder[p], parent, raced)
\* What the administrator's purge is about to delete, it has merged.
MergedRows == pc[Admin] = "merged" =>
    \A m \in list[Admin] \ (raced \cup missed) :
        parent[m] = folder[Admin] => m \in fresh[folder[Admin]]
IInv == TypeInv /\ AtHome /\ Merged /\ ReadsCurrent /\ Listed /\ MergedRows

-----------------------------------------------------------------------------
(* Lemmas about purges.                                                    *)

\* A purge and what NormalizeDeferredUpdates does both are what Purges says.
LEMMA PurgePurges ==
    ASSUME NEW f, NEW ids, NEW F \in [Folders -> SUBSET Messages],
           NEW D \in [Messages -> Folders \cup {None}], Purge(f, ids, F, D)
    PROVE  Purges(f, ids, F, D)
  BY DEF Purge, Purges

LEMMA KeepPurges ==
    ASSUME NEW f, NEW ids, NEW F \in [Folders -> SUBSET Messages],
           NEW D \in [Messages -> Folders \cup {None}], fresh' = F, deferred' = D
    PROVE  Purges(f, ids, F, D)
  BY Zenon DEF Purges

LEMMA NormalizePurges ==
    ASSUME NEW w \in Workers, NEW own, NEW F \in [Folders -> SUBSET Messages],
           NEW D \in [Messages -> Folders \cup {None}], Normalize(w, own, F, D)
    PROVE  Purges(folder[w], list[w] \cup own, F, D)
<1>1. CASE Purge(folder[w], list[w] \cup own, F, D)
  BY <1>1, PurgePurges
<1>2. CASE fresh' = F /\ deferred' = D
  BY <1>2, KeepPurges
<1>. QED  BY <1>1, <1>2 DEF Normalize

\* A purge keeps every update until it is merged, if the messages it has
\* listed are still in its folder.
LEMMA PurgeSafe ==
    ASSUME NEW f \in Folders, NEW ids \in SUBSET Messages,
           NEW F \in [Folders -> SUBSET Messages],
           NEW D \in [Messages -> Folders \cup {None}],
           NEW P \in [Messages -> Folders \cup {None, Gone}],
           NEW R \in SUBSET Messages, NEW Q \in SUBSET Messages,
           Purges(f, ids, F, D), HomeIn(D, P, R), MergedIn(D, F, P, R \cup Q),
           InPlace(ids, f, P, R)
    PROVE  HomeIn(deferred', P, R) /\ MergedIn(deferred', fresh', P, R \cup Q)
<1>1. HomeIn(deferred', P, R)
  BY DEF Purges, HomeIn
<1>2. ASSUME NEW m \in Messages \ (R \cup Q), P[m] \in Folders, deferred'[m] = None
      PROVE  m \in fresh'[P[m]]
  <2>1. CASE D[m] = None
    BY <1>2, <2>1 DEF Purges, MergedIn
  <2>2. CASE D[m] # None
    <3>1. m \in ids /\ deferred'[m] # D[m]
      BY <1>2, <2>2 DEF Purges
    <3>2. P[m] = f
      BY <1>2, <3>1, NoneAssumption DEF InPlace
    <3>3. D[m] = f
      BY <2>2, <3>2 DEF HomeIn
    <3>. QED  BY <3>1, <3>2, <3>3 DEF Purges
  <2>. QED  BY <2>1, <2>2
<1>. QED  BY <1>1, <1>2 DEF MergedIn

\* The messages a purge lists are in its folder.
LEMMA DeferredInPlace ==
    ASSUME AtHome, NEW f \in Folders
    PROVE  InPlace(Deferred(f), f, parent, raced)
  BY NoneAssumption DEF AtHome, InPlace, Deferred

LEMMA Names == /\ AtHome <=> HomeIn(deferred, parent, raced)
               /\ Merged <=> MergedIn(deferred, fresh, parent, raced \cup missed)
  BY DEF AtHome, Merged, HomeIn, MergedIn

-----------------------------------------------------------------------------
(* Type correctness.                                                       *)

LEMMA InitType == Init => TypeInv
<1>. SUFFICES ASSUME Init  PROVE TypeInv
  OBVIOUS
<1>1. TypeOK
  BY LimitAssumption, NoneAssumption DEF Init, TypeOK, Actors, Purgers, Ops
<1>2. Shape
  BY DEF Init, Shape, Actors, Purgers
<1>. QED  BY <1>1, <1>2 DEF TypeInv

\* At moves one actor and leaves the others where they are.
LEMMA AtMoves ==
    ASSUME TypeOK, NEW a \in Actors, NEW l, NEW f, NEW ids, At(a, l, f, ids)
    PROVE  /\ pc'[a] = l /\ folder'[a] = f /\ list'[a] = ids
           /\ \A b \in Actors \ {a} :
                 pc'[b] = pc[b] /\ folder'[b] = folder[b] /\ list'[b] = list[b]
  BY DEF TypeOK, At

LEMMA AtType ==
    ASSUME TypeOK, NEW a \in Actors, NEW l \in {"idle", "begin", "begun", "listed", "locked", "merged"},
           NEW f \in Folders \cup {None}, NEW ids \in SUBSET Messages, At(a, l, f, ids)
    PROVE  /\ pc' \in [Actors -> {"idle", "begin", "begun", "listed", "locked", "merged"}]
           /\ folder' \in [Actors -> Folders \cup {None}]
           /\ list' \in [Actors -> SUBSET Messages]
  BY DEF TypeOK, At

\* Either branch of MarkAll that purges, or leaves out to.
LEMMA MarkAllPurges ==
    ASSUME TypeOK, NEW w,
           IF list[w] = {} THEN UNCHANGED <<fresh, deferred>>
           ELSE \/ Purge(folder[w], list[w], fresh, deferred)
                \/ UNCHANGED <<fresh, deferred>>
    PROVE  Purges(folder[w], list[w], fresh, deferred)
  BY PurgePurges, KeepPurges DEF TypeOK

LEMMA MarkType ==
    ASSUME TypeOK, NEW S \in SUBSET Messages, NEW f, Mark(S, f)
    PROVE  /\ fresh' \in [Folders -> SUBSET Messages]
           /\ missed' \in SUBSET Messages /\ touched' \in SUBSET Messages
  BY DEF Mark, Touch, TypeOK

LEMMA TypeStep == TypeInv /\ [Next]_vars => TypeInv'
<1>. SUFFICES ASSUME TypeInv, [Next]_vars  PROVE TypeInv'
  OBVIOUS
<1>. USE DEF TypeInv
<1>a. /\ Thread \in Actors /\ Admin \in Actors /\ Reader \in Actors
      /\ \A w \in Workers : w \in Actors /\ w # Thread /\ w # Admin /\ w # Reader
      /\ Thread # Admin /\ Thread # Reader /\ Admin # Reader
  BY ActorAssumption DEF Actors, Purgers
<1>b. \A f : Deferred(f) \in SUBSET Messages
  BY DEF Deferred
<1>1. CASE PurgeThread
  <2>1. CASE Look
    BY <2>1, <1>a DEF Look, At, TypeOK, Shape, tableVars, workerVars, ghostVars, Purgers
  <2>2. CASE List
    BY <2>2, <1>a, <1>b DEF List, Idle, At, Largest, TypeOK, Shape, tableVars, workerVars, ghostVars, Purgers
  <2>3. CASE Merge
    <3>1. Purges(folder[Thread], list[Thread], fresh, deferred)
      BY <2>3, PurgePurges DEF Merge, TypeOK
    <3>. QED  BY <2>3, <3>1, <1>a DEF Merge, Purges, Idle, At, TypeOK, Shape, workerVars, ghostVars, Purgers
  <2>4. CASE Fail
    BY <2>4, <1>a DEF Fail, Idle, At, TypeOK, Shape, tableVars, workerVars, ghostVars, Purgers
  <2>. QED  BY <1>1, <2>1, <2>2, <2>3, <2>4 DEF PurgeThread
<1>2. CASE AdminCall
  <2>1. ASSUME NEW f \in Folders, AdminFolder(f)  PROVE TypeInv'
    BY <2>1, <1>a DEF AdminFolder, At, TypeOK, Shape, tableVars, workerVars, ghostVars, Purgers
  <2>2. CASE AdminList
    BY <2>2, <1>a, <1>b DEF AdminList, Idle, At, TypeOK, Shape, tableVars, workerVars, ghostVars, Purgers
  <2>3. CASE AdminMerge
    BY <2>3, <1>a, <1>b DEF AdminMerge, At, TypeOK, Shape, workerVars, ghostVars, Purgers
  <2>4. CASE AdminDelete
    BY <2>4, <1>a DEF AdminDelete, Idle, At, TypeOK, Shape, workerVars, ghostVars, Purgers
  <2>5. CASE AdminFail
    BY <2>5, <1>a DEF AdminFail, Idle, At, TypeOK, Shape, tableVars, workerVars, ghostVars, Purgers
  <2>. QED  BY <1>2, <2>1, <2>2, <2>3, <2>4, <2>5 DEF AdminCall
<1>3. CASE Read
  <2>1. ASSUME NEW f \in Folders, ReadList(f)  PROVE TypeInv'
    BY <2>1, <1>a, <1>b DEF ReadList, At, TypeOK, Shape, tableVars, workerVars, Purgers
  <2>2. CASE ReadRows
    BY <2>2, <1>a DEF ReadRows, Idle, At, TypeOK, Shape, tableVars, workerVars, Purgers
  <2>. QED  BY <1>3, <2>1, <2>2 DEF Read
<1>4. ASSUME NEW w \in Workers, Call(w)  PROVE TypeInv'
  <2>a. w \in Actors /\ w \in Purgers /\ \A v \in Workers : v \in Purgers /\ v \in Actors
    BY DEF Actors, Purgers
  <2>1. ASSUME NEW o \in Ops, NEW m \in Messages \cup {None}, NEW f \in Folders, Begin(w, o, m, f)
        PROVE  TypeInv'
    <3>1. /\ At(w, "begun", f, Deferred(f)) /\ writes < MaxWrites /\ writes' = writes + 1
          /\ op' = [op EXCEPT ![w] = o] /\ msg' = [msg EXCEPT ![w] = m]
          /\ src' \in [Workers -> Folders \cup {None}]
          /\ UNCHANGED <<tableVars, cached, owner, home, touched, raced, missed>>
          /\ o \in {"save", "move"} => m # None
      <4>1. m # None => cached[m] \in SUBSET Folders
        BY DEF TypeOK
      <4>2. o \in {"save", "move"} => m # None
        BY <2>1 DEF Begin, Ops
      <4>3. PICK g \in IF o = "move" THEN cached[m] ELSE {f} : src' = [src EXCEPT ![w] = g]
        BY <2>1 DEF Begin
      <4>4. g \in Folders
        BY <4>1, <4>2, <4>3
      <4>. QED  BY <2>1, <4>2, <4>3, <4>4 DEF Begin, TypeOK
    <3>2. TypeOK'
      BY <3>1, <1>a, <1>b, <2>a, AtType, LimitAssumption DEF TypeOK, tableVars
    <3>3. Shape'
      BY <3>1, <1>a, <1>b, <2>a, AtMoves DEF TypeOK, Shape, Purgers, tableVars
    <3>. QED  BY <3>2, <3>3
  <2>2. CASE Lock(w)
    <3>1. PICK ids \in {list[w], Deferred(folder[w])} : At(w, "locked", folder[w], ids)
      BY <2>2 DEF Lock
    <3>2. ids \in SUBSET Messages /\ folder[w] \in Folders
      BY <3>1, <1>b, <2>a, <2>2 DEF Lock, TypeOK, Shape
    <3>5. PICK g \in Told(w) : home' = [home EXCEPT ![w] = g]
      BY <2>2 DEF Lock
    <3>6. g \in Folders \cup {None} /\ (op[w] = "save" => g \in Folders)
      <4>1. op[w] \in {"save", "move"} => msg[w] \in Messages
        BY <2>2 DEF Lock, Shape
      <4>2. Told(w) \subseteq Folders \cup {None} /\ (op[w] = "save" => Told(w) \subseteq Folders)
        BY <4>1 DEF Told, TypeOK
      <4>. QED  BY <3>5, <4>2
    <3>7. cached' \in [Messages -> SUBSET Folders]
      BY <2>2, <3>2 DEF Lock, TypeOK
    <3>3. TypeOK'
      BY <2>2, <3>1, <3>2, <3>5, <3>6, <3>7, <2>a, AtType DEF Lock, TypeOK, tableVars, ghostVars
    <3>4. Shape'
      <4>1. /\ pc'[w] = "locked" /\ folder'[w] = folder[w] /\ list'[w] = ids
            /\ \A b \in Actors \ {w} :
                  pc'[b] = pc[b] /\ folder'[b] = folder[b] /\ list'[b] = list[b]
            /\ op' = op /\ msg' = msg /\ \A v \in Workers \ {w} : home'[v] = home[v]
        BY <2>2, <3>1, <3>5, <2>a, AtMoves DEF Lock, TypeOK
      <4>2. op[w] \in {"save", "move"} => msg[w] \in Messages
        BY <2>2 DEF Lock, Shape
      <4>3. op[w] = "save" => home'[w] \in Folders
        BY <3>5, <3>6 DEF TypeOK
      <4>. QED  BY <4>1, <4>2, <4>3, <3>2, <1>a, <2>a DEF Shape, Purgers
    <3>. QED  BY <3>3, <3>4
  <2>. DEFINE Ended == /\ owner' \in [Folders -> Workers \cup {None}]
                       /\ pc' \in [Actors -> {"idle", "begin", "begun", "listed", "locked", "merged"}]
                       /\ folder' \in [Actors -> Folders \cup {None}]
                       /\ list' \in [Actors -> SUBSET Messages]
                       /\ op' \in [Workers -> Ops \cup {"none"}]
                       /\ msg' \in [Workers -> Messages \cup {None}]
                       /\ src' \in [Workers -> Folders \cup {None}]
                       /\ home' \in [Workers -> Folders \cup {None}]
                       /\ writes' = writes /\ Shape'
  <2>3. Done(w) => Ended
    <3>. SUFFICES ASSUME Done(w)  PROVE Ended
      OBVIOUS
    <3>1. Idle(w) /\ writes' = writes
      BY DEF Done
    <3>2. /\ pc' \in [Actors -> {"idle", "begin", "begun", "listed", "locked", "merged"}]
          /\ folder' \in [Actors -> Folders \cup {None}]
          /\ list' \in [Actors -> SUBSET Messages]
      BY <3>1, <2>a, AtType DEF Idle
    <3>3. /\ owner' \in [Folders -> Workers \cup {None}]
          /\ op' \in [Workers -> Ops \cup {"none"}]
          /\ msg' \in [Workers -> Messages \cup {None}]
          /\ src' \in [Workers -> Folders \cup {None}]
          /\ home' \in [Workers -> Folders \cup {None}]
      BY DEF Done, TypeOK
    <3>4. Shape'
      BY <3>1, <1>a, <2>a, AtMoves DEF Done, Idle, TypeOK, Shape, Purgers
    <3>. QED  BY <3>1, <3>2, <3>3, <3>4
  <2>4. CASE Abort(w)
    BY <2>3, <2>4 DEF Abort, TypeOK, tableVars
  <2>. DEFINE Wrote(m) == /\ parent' \in [Messages -> Folders \cup {None, Gone}]
                          /\ fresh' \in [Folders -> SUBSET Messages]
                          /\ deferred' \in [Messages -> Folders \cup {None}]
                          /\ cached' \in [Messages -> SUBSET Folders]
                          /\ raced' \in SUBSET Messages /\ missed' \in SUBSET Messages
                          /\ m \in Messages /\ Touch({m}) /\ Done(w)
  <2>5. ASSUME NEW m, Wrote(m)  PROVE TypeInv'
    <3>1. touched' \in SUBSET Messages
      BY <2>5 DEF Touch, TypeOK
    <3>. QED  BY <2>3, <2>5, <3>1 DEF TypeOK
  <2>7. ASSUME NEW m \in Messages  PROVE Outdated(m) \in [Folders -> SUBSET Messages]
    BY DEF Outdated, TypeOK
  <2>8. CASE Save(w)
    <3>. DEFINE m == msg[w]
                D == IF deferred[m] = None THEN [deferred EXCEPT ![m] = home[w]] ELSE deferred
                own == {n \in {m} : deferred[m] = None /\ home[w] = folder[w]}
    <3>1. m \in Messages /\ home[w] \in Folders
      BY <2>8 DEF Save, Shape
    <3>2. D \in [Messages -> Folders \cup {None}]
      BY <3>1 DEF TypeOK
    <3>3. Normalize(w, own, Outdated(m), D) \/ (fresh' = Outdated(m) /\ deferred' = D)
      BY <2>8, Zenon DEF Save
    <3>4. Purges(folder[w], list[w] \cup own, Outdated(m), D)
      BY <3>1, <3>2, <3>3, <2>7, NormalizePurges, KeepPurges
    <3>5. /\ parent' = parent /\ cached' = cached /\ Touch({m}) /\ Done(w)
          /\ raced' = raced \/ raced' = raced \cup {m}
          /\ missed' = missed \ {m}
      BY <2>8 DEF Save
    <3>6. Wrote(m)
      BY <3>1, <3>4, <3>5 DEF Purges, TypeOK
    <3>. QED  BY <3>6, <2>5
  <2>9. CASE Move(w)
    <3>. DEFINE m == msg[w]
                D == [deferred EXCEPT ![m] = folder[w]]
    <3>1. m \in Messages /\ folder[w] \in Folders
      BY <2>9 DEF Move, Shape
    <3>2. D \in [Messages -> Folders \cup {None}]
      BY <3>1 DEF TypeOK
    <3>3. Normalize(w, {m}, Outdated(m), D) /\ Touch({m}) /\ Done(w)
      BY <2>9, Zenon DEF Move
    <3>4. Purges(folder[w], list[w] \cup {m}, Outdated(m), D)
      BY <3>1, <3>2, <3>3, <2>7, NormalizePurges
    <3>5. /\ parent' \in [Messages -> Folders \cup {None, Gone}]
          /\ cached' = cached /\ raced' \in SUBSET Messages /\ missed' \in SUBSET Messages
      BY <2>9, <3>1 DEF Move, TypeOK
    <3>6. Wrote(m)
      BY <3>1, <3>3, <3>4, <3>5 DEF Purges, TypeOK
    <3>. QED  BY <3>6, <2>5
  <2>10. ASSUME NEW m \in Messages, Create(w, m)  PROVE TypeInv'
    <3>. DEFINE D == [deferred EXCEPT ![m] = folder[w]]
    <3>1. folder[w] \in Folders
      BY <2>10 DEF Create, Shape
    <3>2. D \in [Messages -> Folders \cup {None}]
      BY <3>1 DEF TypeOK
    <3>3. Normalize(w, {m}, Outdated(m), D) /\ Touch({m}) /\ Done(w)
      BY <2>10, Zenon DEF Create
    <3>4. Purges(folder[w], list[w] \cup {m}, Outdated(m), D)
      BY <3>2, <3>3, <2>7, NormalizePurges
    <3>5. /\ parent' \in [Messages -> Folders \cup {None, Gone}]
          /\ cached' \in [Messages -> SUBSET Folders]
          /\ raced' \in SUBSET Messages /\ missed' \in SUBSET Messages
      BY <2>10, <3>1 DEF Create, TypeOK
    <3>6. Wrote(m)
      BY <3>3, <3>4, <3>5 DEF Purges
    <3>. QED  BY <3>6, <2>5
  <2>6. CASE MarkAll(w)
    <3>1. CASE UNCHANGED <<touched, missed>>
      <4>1. /\ fresh' \in [Folders -> SUBSET Messages]
            /\ deferred' \in [Messages -> Folders \cup {None}]
        BY <2>6, <3>1, MarkAllPurges DEF MarkAll, Purges, Mark, TypeOK
      <4>. QED  BY <2>3, <2>6, <3>1, <4>1 DEF MarkAll, TypeOK
    <3>2. ASSUME NEW S \in SUBSET Messages, Mark(S, None), deferred' = deferred
          PROVE  TypeInv'
      BY <2>3, <2>6, <3>2, MarkType DEF MarkAll, TypeOK
    <3>. QED  BY <2>6, <3>1, <3>2 DEF MarkAll
  <2>. QED  BY <1>4, <2>1, <2>2, <2>4, <2>6, <2>8, <2>9, <2>10 DEF Call
<1>7. ASSUME NEW S \in SUBSET Messages, NEW f, MarkSome(S, f)  PROVE TypeInv'
  <2>1. Mark(S, f) /\ writes' \in 0 .. MaxWrites
    BY <1>7, LimitAssumption DEF MarkSome, TypeOK
  <2>2. UNCHANGED <<parent, deferred, cached, owner, pc, folder, list, op, msg, src, home, raced>>
    BY <1>7 DEF MarkSome, actorVars, workerVars
  <2>3. TypeOK'
    BY <2>1, <2>2, MarkType DEF TypeOK
  <2>4. Shape'
    BY <2>2 DEF Shape
  <2>. QED  BY <2>3, <2>4
<1>5. ASSUME NEW m \in Messages, Remove(m)  PROVE TypeInv'
  <2>1. TypeOK'
    BY <1>5, LimitAssumption DEF Remove, Outdated, TypeOK, actorVars, workerVars
  <2>2. Shape'
    BY <1>5 DEF Remove, Shape, actorVars, workerVars
  <2>. QED  BY <2>1, <2>2
<1>6. CASE UNCHANGED vars
  BY <1>6 DEF vars, tableVars, actorVars, workerVars, ghostVars, TypeOK, Shape
<1>. QED  BY <1>1, <1>2, <1>3, <1>4, <1>5, <1>6, <1>7 DEF Next, Write

\* Every variable keeps to its type.
THEOREM TypeCorrect == Spec => []TypeOK
<1>1. Spec => []TypeInv
  BY InitType, TypeStep, PTL DEF Spec
<1>2. TypeInv => TypeOK
  BY DEF TypeInv
<1>. QED  BY <1>1, <1>2, PTL
-----------------------------------------------------------------------------
(* The steps that write no table.                                          *)

Rest == ReadsCurrent /\ Listed /\ MergedRows
LEMMA IInvParts == IInv <=> TypeInv /\ AtHome /\ Merged /\ Rest
  BY DEF IInv, Rest

LEMMA InitIInv == Init => IInv
<1>. SUFFICES ASSUME Init  PROVE IInv
  OBVIOUS
<1>1. TypeInv
  BY InitType
<1>2. AtHome
  BY DEF Init, AtHome
<1>3. Merged
  BY DEF Init, Merged
<1>4. ReadsCurrent /\ Listed /\ MergedRows
  BY ActorAssumption DEF Init, ReadsCurrent, Listed, InPlace, MergedRows, Actors, Purgers
<1>. QED  BY <1>1, <1>2, <1>3, <1>4 DEF IInv

\* Nothing but the place of an actor changes, and the messages it has listed
\* are those that are deferred, or were listed before.
LEMMA PlaceStep ==
    ASSUME IInv, UNCHANGED <<tableVars, raced, missed>>, NEW a \in Actors, NEW l, NEW f, NEW ids,
           At(a, l, f, ids),
           ids # {} => \/ f \in Folders /\ ids = Deferred(f)
                       \/ f = folder[a] /\ ids = list[a],
           a = Reader => f \in Folders /\ ids = Deferred(f),
           touched' = touched \/ a = Reader, a = Admin => l # "merged"
    PROVE  AtHome' /\ Merged' /\ Rest'
<1>. USE DEF IInv, TypeInv
<1>a. /\ Admin \in Actors /\ Reader \in Actors /\ Admin # Reader
      /\ Reader \notin Purgers /\ Admin \in Purgers /\ Admin \notin Workers
      /\ \A w \in Workers : w \in Actors
      /\ \A p \in Purgers : p \in Actors
  BY ActorAssumption DEF Actors, Purgers
<1>b. parent' = parent /\ deferred' = deferred /\ fresh' = fresh /\ raced' = raced
      /\ missed' = missed
  BY DEF tableVars
<1>c. /\ pc'[a] = l /\ folder'[a] = f /\ list'[a] = ids
      /\ \A b \in Actors \ {a} :
            pc'[b] = pc[b] /\ folder'[b] = folder[b] /\ list'[b] = list[b]
  BY AtMoves
<1>1. AtHome' /\ Merged'
  BY <1>b DEF AtHome, Merged
<1>2. ReadsCurrent'
  <2>1. CASE a = Reader
    BY <1>b, <1>c, <2>1 DEF ReadsCurrent, Merged, AtHome, Deferred
  <2>2. CASE a # Reader
    BY <1>a, <1>b, <1>c, <2>2 DEF ReadsCurrent
  <2>. QED  BY <2>1, <2>2
<1>3. Listed'
  <2>1. ASSUME NEW p \in Purgers, p # a
        PROVE  InPlace(list[p], folder[p], parent, raced)'
    BY <1>a, <1>b, <1>c, <2>1 DEF Listed, InPlace
  <2>2. ASSUME a \in Purgers
        PROVE  InPlace(ids, f, parent, raced)
    BY <2>2, DeferredInPlace DEF Listed, InPlace
  <2>3. ASSUME a \in Purgers
        PROVE  InPlace(list[a], folder[a], parent, raced)'
    BY <1>b, <1>c, <2>2, <2>3 DEF InPlace
  <2>. QED  BY <2>1, <2>3 DEF Listed
<1>5. MergedRows'
  BY <1>a, <1>b, <1>c DEF MergedRows
<1>. QED  BY <1>1, <1>2, <1>3, <1>5 DEF Rest

LEMMA ThreadStep == IInv /\ PurgeThread => AtHome' /\ Merged' /\ Rest'
<1>. SUFFICES ASSUME IInv, PurgeThread  PROVE AtHome' /\ Merged' /\ Rest'
  OBVIOUS
<1>. USE DEF IInv, TypeInv
<1>a. /\ Thread \in Actors /\ Thread \in Purgers /\ Thread \notin Workers
      /\ Thread # Admin /\ Thread # Reader
  BY ActorAssumption DEF Actors, Purgers
<1>1. CASE Look \/ List \/ Fail
  <2>1. PICK l, f, ids : /\ At(Thread, l, f, ids)
                         /\ ids = {} \/ (f \in Folders /\ ids = Deferred(f))
    BY <1>1 DEF Look, List, Fail, Idle
  <2>2. /\ UNCHANGED <<tableVars, raced, missed, touched>>
    BY <1>1 DEF Look, List, Fail, workerVars, ghostVars
  <2>. QED  BY <1>a, <2>1, <2>2, PlaceStep
<1>2. CASE Merge
  <2>. DEFINE f == folder[Thread]
              ids == list[Thread]
  <2>1. f \in Folders /\ ids \in SUBSET Messages /\ InPlace(ids, f, parent, raced)
    BY <1>2, <1>a DEF Merge, TypeOK, Shape, Listed
  <2>2. Purges(f, ids, fresh, deferred)
    BY <1>2, PurgePurges DEF Merge, TypeOK
  <2>3. At(Thread, "idle", None, {}) /\ UNCHANGED <<parent, raced, missed, touched>>
    BY <1>2 DEF Merge, Idle, workerVars, ghostVars
  <2>4. HomeIn(deferred', parent, raced) /\ MergedIn(deferred', fresh', parent, raced \cup missed)
    BY <2>1, <2>2, PurgeSafe, Names DEF TypeOK
  <2>5. AtHome' /\ Merged'
    BY <2>3, <2>4 DEF HomeIn, MergedIn, AtHome, Merged
  <2>6. /\ list'[Thread] = {}
        /\ \A b \in Actors \ {Thread} :
              pc'[b] = pc[b] /\ folder'[b] = folder[b] /\ list'[b] = list[b]
    BY <2>3, <1>a, AtMoves
  <2>7. \A g \in Folders : fresh[g] \subseteq fresh'[g]
    BY <2>2 DEF Purges
  <2>8. /\ Admin \in Actors /\ Reader \in Actors /\ \A p \in Purgers : p \in Actors
        /\ \A v \in Workers : v \in Actors /\ v # Thread
    BY <1>a DEF Actors, Purgers
  <2>9. ReadsCurrent'
    BY <2>3, <2>6, <2>7, <2>8, <1>a DEF ReadsCurrent, Shape
  <2>10. Listed'
    BY <2>3, <2>6, <2>8, <1>a DEF Listed, InPlace
  <2>11. MergedRows'
    BY <2>3, <2>6, <2>7, <2>8, <1>a DEF MergedRows, Shape
  <2>. QED  BY <2>5, <2>9, <2>10, <2>11 DEF Rest
<1>. QED  BY <1>1, <1>2 DEF PurgeThread

LEMMA AdminStep == IInv /\ AdminCall => AtHome' /\ Merged' /\ Rest'
<1>. SUFFICES ASSUME IInv, AdminCall  PROVE AtHome' /\ Merged' /\ Rest'
  OBVIOUS
<1>. USE DEF IInv, TypeInv
<1>a. /\ Admin \in Actors /\ Admin \in Purgers /\ Admin \notin Workers
      /\ Thread # Admin /\ Admin # Reader /\ Reader \in Actors
      /\ \A p \in Purgers : p \in Actors
      /\ \A v \in Workers : v \in Actors /\ v # Admin
  BY ActorAssumption DEF Actors, Purgers
<1>1. CASE (\E f \in Folders : AdminFolder(f)) \/ AdminList \/ AdminFail
  <2>a. \A f : Deferred(f) \in SUBSET Messages
    BY DEF Deferred
  <2>1. PICK l \in {"idle", "begin", "listed"}, f \in Folders \cup {None},
             ids \in SUBSET Messages :
           /\ At(Admin, l, f, ids)
           /\ ids = {} \/ (f \in Folders /\ ids = Deferred(f))
    BY <1>1, <2>a DEF AdminFolder, AdminList, AdminFail, Idle, Shape
  <2>2. /\ UNCHANGED <<tableVars, raced, missed, touched>>
    BY <1>1 DEF AdminFolder, AdminList, AdminFail, workerVars, ghostVars
  <2>. QED  BY <1>a, <2>1, <2>2, PlaceStep
<1>. DEFINE f == folder[Admin]
            ids == list[Admin]
<1>2. CASE AdminMerge
  <2>1. f \in Folders /\ ids \in SUBSET Messages /\ InPlace(ids, f, parent, raced)
    BY <1>2, <1>a DEF AdminMerge, TypeOK, Shape, Listed
  <2>2. /\ At(Admin, "merged", f, ids) /\ UNCHANGED <<parent, deferred, raced, missed, touched>>
        /\ fresh' = [fresh EXCEPT ![f] = @ \cup Deferred(f)]
    BY <1>2 DEF AdminMerge, workerVars, ghostVars
  <2>3. /\ \A g \in Folders : fresh[g] \subseteq fresh'[g]
        /\ Deferred(f) \subseteq fresh'[f]
    BY <2>1, <2>2 DEF TypeOK
  <2>4. AtHome' /\ Merged'
    BY <2>2, <2>3 DEF AtHome, Merged
  <2>5. /\ folder'[Admin] = f /\ list'[Admin] = ids
        /\ \A b \in Actors \ {Admin} :
              pc'[b] = pc[b] /\ folder'[b] = folder[b] /\ list'[b] = list[b]
    BY <2>2, <1>a, AtMoves
  <2>6. ReadsCurrent'
    BY <2>2, <2>3, <2>5, <1>a DEF ReadsCurrent, Shape
  <2>7. Listed'
    BY <2>2, <2>5, <1>a DEF Listed, InPlace
  <2>8. MergedRows'
    <3>. SUFFICES ASSUME NEW m \in ids \ (raced \cup missed), parent[m] = f  PROVE m \in fresh'[f]
      BY <2>2, <2>5 DEF MergedRows
    <3>1. m \in Messages
      BY <2>1
    <3>. QED  BY <2>1, <2>3, <3>1 DEF Merged, AtHome, Deferred
  <2>. QED  BY <2>4, <2>6, <2>7, <2>8 DEF Rest
<1>3. CASE AdminDelete
  <2>1. /\ f \in Folders /\ ids \in SUBSET Messages /\ InPlace(ids, f, parent, raced)
        /\ pc[Admin] = "merged"
    BY <1>3, <1>a DEF AdminDelete, TypeOK, Shape, Listed
  <2>2. /\ At(Admin, "idle", None, {}) /\ UNCHANGED <<parent, fresh, raced, missed, touched>>
        /\ deferred' = [m \in Messages |-> IF m \in ids THEN None ELSE deferred[m]]
    BY <1>3 DEF AdminDelete, Idle, workerVars, ghostVars
  <2>3. AtHome'
    BY <2>2 DEF AtHome
  <2>4. Merged'
    <3>. SUFFICES ASSUME NEW m \in Messages \ (raced \cup missed), parent[m] \in Folders, deferred'[m] = None
                  PROVE  m \in fresh[parent[m]]
      BY <2>2 DEF Merged
    <3>1. CASE m \in ids
      <4>1. parent[m] = f
        BY <2>1, <3>1, NoneAssumption DEF InPlace
      <4>. QED  BY <2>1, <3>1, <4>1 DEF MergedRows
    <3>2. CASE m \notin ids
      BY <2>2, <3>2 DEF Merged
    <3>. QED  BY <3>1, <3>2
  <2>5. /\ pc'[Admin] = "idle" /\ list'[Admin] = {}
        /\ \A b \in Actors \ {Admin} :
              pc'[b] = pc[b] /\ folder'[b] = folder[b] /\ list'[b] = list[b]
    BY <2>2, <1>a, AtMoves
  <2>6. ReadsCurrent'
    BY <2>2, <2>5, <1>a DEF ReadsCurrent
  <2>7. Listed' /\ MergedRows'
    BY <2>2, <2>5, <1>a DEF Listed, InPlace, MergedRows
  <2>. QED  BY <2>3, <2>4, <2>6, <2>7 DEF Rest
<1>. QED  BY <1>1, <1>2, <1>3 DEF AdminCall

LEMMA ReadStep == IInv /\ Read => AtHome' /\ Merged' /\ Rest'
<1>. SUFFICES ASSUME IInv, Read  PROVE AtHome' /\ Merged' /\ Rest'
  OBVIOUS
<1>a. /\ Reader \in Actors /\ Reader \notin Workers /\ Reader # Admin
  BY ActorAssumption DEF Actors, Purgers
<1>1. UNCHANGED <<tableVars, raced, missed>>
  BY DEF Read, ReadList, ReadRows, workerVars
<1>2. ASSUME NEW f \in Folders, ReadList(f)  PROVE AtHome' /\ Merged' /\ Rest'
  <2>1. PICK l, ids : ids = Deferred(f) /\ At(Reader, l, f, ids)
    BY <1>2 DEF ReadList
  <2>. QED  BY <1>a, <1>1, <2>1, PlaceStep
<1>3. CASE ReadRows
  <2>1. At(Reader, "idle", None, {})
    BY <1>3 DEF ReadRows, Idle
  <2>2. /\ pc'[Reader] = "idle"
        /\ \A b \in Actors \ {Reader} :
              pc'[b] = pc[b] /\ folder'[b] = folder[b] /\ list'[b] = list[b]
    BY <1>a, <2>1, AtMoves DEF IInv, TypeInv
  <2>3. \A p \in Purgers : p \in Actors \ {Reader}
    BY ActorAssumption DEF Actors, Purgers
  <2>4. \A w \in Workers : w \in Actors \ {Reader}
    BY <2>3 DEF Purgers
  <2>5. UNCHANGED <<parent, deferred, fresh, raced, missed>>
    BY <1>1 DEF tableVars
  <2>6. AtHome' /\ Merged' /\ ReadsCurrent'
    BY <2>2, <2>5 DEF IInv, AtHome, Merged, ReadsCurrent
  <2>7. Listed' /\ MergedRows'
    BY <1>1, <2>2, <2>3, <2>4, <2>5 DEF IInv, Listed, InPlace, MergedRows, Purgers
  <2>. QED  BY <2>6, <2>7 DEF Rest
<1>. QED  BY <1>2, <1>3 DEF Read

-----------------------------------------------------------------------------
(* The steps of the calls that write.                                      *)

LEMMA Bystanders ==
    /\ Thread \in Actors /\ Admin \in Actors /\ Reader \in Actors
    /\ Admin \in Purgers /\ Reader \notin Purgers
    /\ \A p \in Purgers : p \in Actors
    /\ \A w \in Workers : w \in Purgers /\ w \in Actors /\ w # Admin /\ w # Reader
  BY ActorAssumption DEF Actors, Purgers

\* A call that ends leaves the others where they are.
LEMMA DoneMoves ==
    ASSUME TypeOK, NEW w \in Workers, Done(w)
    PROVE  /\ pc'[w] = "idle" /\ list'[w] = {}
           /\ \A b \in Actors \ {w} :
                 pc'[b] = pc[b] /\ folder'[b] = folder[b] /\ list'[b] = list[b]
  BY Bystanders, AtMoves DEF Done, Idle

\* A call looks where its message is, locks, or is rolled back.
LEMMA CallPlace ==
    ASSUME IInv, NEW w \in Workers,
           \/ \E o \in Ops, m \in Messages \cup {None}, f \in Folders : Begin(w, o, m, f)
           \/ Lock(w) \/ Abort(w)
    PROVE  AtHome' /\ Merged' /\ Rest'
<1>. USE DEF IInv, TypeInv
<1>1. ASSUME NEW o \in Ops, NEW m \in Messages \cup {None}, NEW f \in Folders, Begin(w, o, m, f)
      PROVE  AtHome' /\ Merged' /\ Rest'
  <2>1. PICK l, ids : l = "begun" /\ ids = Deferred(f) /\ At(w, l, f, ids)
    BY <1>1 DEF Begin
  <2>2. UNCHANGED <<tableVars, raced, missed>> /\ touched' = touched
    BY <1>1 DEF Begin
  <2>. QED  BY <2>1, <2>2, Bystanders, PlaceStep
<1>2. CASE Lock(w)
  <2>1. PICK l, f, ids : /\ l = "locked" /\ f = folder[w] /\ At(w, l, f, ids)
                         /\ ids \in {list[w], Deferred(f)}
    BY <1>2 DEF Lock
  <2>2. f \in Folders
    BY <1>2, <2>1 DEF Lock, Shape
  <2>3. UNCHANGED <<tableVars, raced, missed>> /\ touched' = touched
    BY <1>2 DEF Lock, ghostVars
  <2>. QED  BY <2>1, <2>2, <2>3, Bystanders, PlaceStep
<1>3. CASE Abort(w)
  <2>1. UNCHANGED <<parent, deferred, fresh, raced, missed, touched>> /\ Done(w)
    BY <1>3 DEF Abort, tableVars
  <2>2. AtHome' /\ Merged'
    BY <2>1 DEF AtHome, Merged
  <2>3. ReadsCurrent'
    BY <2>1, DoneMoves, Bystanders DEF ReadsCurrent
  <2>4. Listed' /\ MergedRows'
    BY <2>1, DoneMoves, Bystanders DEF Listed, InPlace, MergedRows
  <2>. QED  BY <2>2, <2>3, <2>4 DEF Rest
<1>. QED  BY <1>1, <1>2, <1>3

\* Flags of S are changed, and everybody that lists something is where it was.
LEMMA FlagStep ==
    ASSUME IInv, NEW S \in SUBSET Messages, NEW f, Mark(S, f),
           UNCHANGED <<parent, deferred, raced>>,
           \A a \in {Admin, Reader} :
               pc'[a] = pc[a] /\ folder'[a] = folder[a] /\ list'[a] = list[a],
           \A p \in Purgers :
               list'[p] = {} \/ (list'[p] = list[p] /\ folder'[p] = folder[p])
    PROVE  AtHome' /\ Merged' /\ Rest'
<1>. USE DEF IInv, TypeInv
<1>1. \A g \in Folders : fresh[g] \ S \subseteq fresh'[g] /\ (g = f => fresh'[g] = fresh[g])
  BY DEF Mark, TypeOK
<1>2. missed \subseteq missed'
      /\ \A m \in S \ missed' : parent[m] = f \/ (deferred[m] # None /\ ~Condemned(m))
  BY DEF Mark, TypeOK
<1>3. AtHome'
  BY DEF AtHome
<1>4. Merged'
  BY <1>1, <1>2 DEF Merged
<1>5. pc[Reader] = "listed" => touched' = touched \cup S
  BY DEF Mark, Touch
<1>6. ReadsCurrent'
  BY <1>1, <1>2, <1>5 DEF ReadsCurrent, Shape
<1>7. Listed'
  BY DEF Listed, InPlace
<1>8. MergedRows'
  <2>. SUFFICES ASSUME pc[Admin] = "merged", NEW m \in list[Admin] \ (raced \cup missed'),
                       parent[m] = folder[Admin]
                PROVE  m \in fresh'[folder[Admin]]
    BY DEF MergedRows
  <2>1. m \in fresh[folder[Admin]] /\ folder[Admin] \in Folders
    BY <1>2 DEF MergedRows, Shape
  <2>2. m \in S => parent[m] = f
    BY <1>2 DEF Condemned
  <2>. QED  BY <1>1, <2>1, <2>2
<1>. QED  BY <1>3, <1>4, <1>6, <1>7, <1>8 DEF Rest

LEMMA MarkStep ==
    ASSUME IInv, NEW w \in Workers, MarkAll(w)
    PROVE  AtHome' /\ Merged' /\ Rest'
<1>. USE DEF IInv, TypeInv
<1>1. folder[w] \in Folders /\ list[w] \in SUBSET Messages
      /\ InPlace(list[w], folder[w], parent, raced)
  BY Bystanders DEF MarkAll, TypeOK, Shape, Listed
<1>2. UNCHANGED <<parent, raced>> /\ Done(w)
  BY DEF MarkAll
<1>3. ASSUME NEW S \in SUBSET Messages, Mark(S, None), deferred' = deferred
      PROVE  AtHome' /\ Merged' /\ Rest'
  BY <1>2, <1>3, DoneMoves, Bystanders, FlagStep
<1>4. ASSUME UNCHANGED <<touched, missed>>, Purges(folder[w], list[w], fresh, deferred)
      PROVE  AtHome' /\ Merged' /\ Rest'
  <2>1. /\ HomeIn(deferred', parent, raced)
        /\ MergedIn(deferred', fresh', parent, raced \cup missed)
    BY <1>1, <1>4, PurgeSafe, Names DEF TypeOK
  <2>2. AtHome' /\ Merged'
    BY <1>2, <1>4, <2>1 DEF HomeIn, MergedIn, AtHome, Merged
  <2>3. \A g \in Folders : fresh[g] \subseteq fresh'[g]
    BY <1>4 DEF Purges
  <2>4. ReadsCurrent' /\ MergedRows'
    BY <1>2, <1>4, <2>3, DoneMoves, Bystanders DEF ReadsCurrent, MergedRows, Shape
  <2>5. Listed'
    BY <1>2, DoneMoves, Bystanders DEF Listed, InPlace
  <2>. QED  BY <2>2, <2>4, <2>5 DEF Rest
<1>. QED  BY <1>3, <1>4, MarkAllPurges DEF MarkAll

LEMMA SomeStep ==
    ASSUME IInv, NEW S \in SUBSET Messages, NEW f, MarkSome(S, f)
    PROVE  AtHome' /\ Merged' /\ Rest'
  BY FlagStep DEF MarkSome, actorVars

\* A message is written, and its row in deferredupdate is D's.  Unless it is
\* left out from then on, it is where its row and the purges that have listed
\* it take it to be.
LEMMA WriteStep ==
    ASSUME IInv, TypeInv', NEW w \in Workers, NEW m \in Messages, NEW own \in SUBSET {m},
           NEW D \in [Messages -> Folders \cup {None}], folder[w] \in Folders,
           Purges(folder[w], list[w] \cup own, Outdated(m), D), Touch({m}), Done(w),
           raced \subseteq raced' \cup {m}, missed \subseteq missed' \cup {m},
           \A n \in Messages \ {m} : parent'[n] = parent[n] /\ D[n] = deferred[n],
           D[m] # None, m \notin raced' => D[m] = parent'[m],
           m \in own \ raced' => parent'[m] = folder[w],
           m \notin raced' => \A p \in Purgers :
               m \in list[p] => parent'[m] \in {folder[p], Gone},
           m \notin raced' => ~(pc[Admin] = "merged" /\ m \in list[Admin])
    PROVE  AtHome' /\ Merged' /\ Rest'
<1>. USE DEF IInv, TypeInv
<1>. DEFINE F == Outdated(m)
            ids == list[w] \cup own
<1>1. F \in [Folders -> SUBSET Messages] /\ \A g \in Folders : F[g] = fresh[g] \ {m}
  BY DEF Outdated, TypeOK
<1>2. Purges(folder[w], ids, F, D)
  OBVIOUS
<1>3. \A g \in Folders : fresh[g] \ {m} \subseteq fresh'[g]
  BY <1>1, <1>2 DEF Purges
<1>4. HomeIn(D, parent', raced')
  BY DEF HomeIn, AtHome
<1>5. MergedIn(D, F, parent', raced' \cup missed')
  BY <1>1 DEF MergedIn, Merged
<1>6. ids \in SUBSET Messages
  BY Bystanders DEF TypeOK
<1>7. InPlace(ids, folder[w], parent', raced')
  <2>. SUFFICES ASSUME NEW n \in ids \ raced'  PROVE parent'[n] \in {folder[w], Gone}
    BY DEF InPlace
  <2>1. CASE n = m
    BY <2>1, Bystanders
  <2>2. CASE n # m
    BY <2>2, <1>6, Bystanders DEF Listed, InPlace
  <2>. QED  BY <2>1, <2>2
<1>8. AtHome' /\ Merged'
  <2>1. HomeIn(deferred', parent', raced') /\ MergedIn(deferred', fresh', parent', raced' \cup missed')
    <3>. HIDE DEF F, ids
    <3>. QED  BY <1>1, <1>2, <1>4, <1>5, <1>6, <1>7, PurgeSafe DEF TypeOK
  <2>. QED  BY <2>1 DEF HomeIn, MergedIn, AtHome, Merged
<1>9. ReadsCurrent'
  <2>1. /\ pc'[Reader] = pc[Reader] /\ folder'[Reader] = folder[Reader]
        /\ list'[Reader] = list[Reader]
    BY DoneMoves, Bystanders
  <2>2. pc[Reader] = "listed" => touched' = touched \cup {m}
    BY DEF Touch
  <2>. QED  BY <1>3, <2>1, <2>2 DEF ReadsCurrent, Shape
<1>10. Listed'
  <2>. SUFFICES ASSUME NEW p \in Purgers, NEW n \in list'[p] \ raced'
                PROVE  parent'[n] \in {folder'[p], Gone}
    BY DEF Listed, InPlace
  <2>1. p # w /\ list'[p] = list[p] /\ folder'[p] = folder[p] /\ n \in Messages
    BY DoneMoves, Bystanders DEF TypeOK
  <2>2. CASE n = m
    BY <2>1, <2>2
  <2>3. CASE n # m
    BY <2>1, <2>3 DEF Listed, InPlace
  <2>. QED  BY <2>2, <2>3
<1>12. MergedRows'
  <2>1. pc'[Admin] = pc[Admin] /\ folder'[Admin] = folder[Admin] /\ list'[Admin] = list[Admin]
    BY DoneMoves, Bystanders
  <2>. SUFFICES ASSUME pc[Admin] = "merged", NEW n \in list[Admin] \ (raced' \cup missed'),
                       parent'[n] = folder[Admin]
                PROVE  n \in fresh'[folder[Admin]]
    BY <2>1 DEF MergedRows
  <2>2. n # m /\ n \in Messages /\ folder[Admin] \in Folders
    BY Bystanders DEF TypeOK, Shape
  <2>. QED  BY <2>2, <1>3 DEF MergedRows
<1>. QED  BY <1>8, <1>9, <1>10, <1>12 DEF Rest

LEMMA OutdatedType ==
    ASSUME TypeOK, NEW m  PROVE Outdated(m) \in [Folders -> SUBSET Messages]
  BY DEF Outdated, TypeOK

LEMMA CreateStep ==
    ASSUME IInv, TypeInv', NEW w \in Workers, NEW m \in Messages, Create(w, m)
    PROVE  AtHome' /\ Merged' /\ Rest'
<1>. USE DEF IInv, TypeInv
<1>. DEFINE D == [deferred EXCEPT ![m] = folder[w]]
<1>1. /\ folder[w] \in Folders /\ parent[m] = None /\ raced' = raced
      /\ missed' = missed /\ parent' = [parent EXCEPT ![m] = folder[w]]
  BY DEF Create, Shape
<1>2. Normalize(w, {m}, Outdated(m), D) /\ Touch({m}) /\ Done(w)
  BY Zenon DEF Create
<1>3. /\ D \in [Messages -> Folders \cup {None}] /\ D[m] = folder[w] /\ parent'[m] = folder[w]
      /\ \A n \in Messages \ {m} : parent'[n] = parent[n] /\ D[n] = deferred[n]
  BY <1>1 DEF TypeOK
<1>4. m \notin raced => \A p \in Purgers : m \notin list[p]
  BY <1>1, NoneAssumption DEF Listed, InPlace, Shape
<1>5. Purges(folder[w], list[w] \cup {m}, Outdated(m), D)
  BY <1>2, <1>3, OutdatedType, NormalizePurges
<1>6. D[m] # None /\ {m} \in SUBSET {m}
  BY <1>1, <1>3, NoneAssumption
<1>. HIDE DEF D
<1>. QED  BY <1>1, <1>2, <1>3, <1>4, <1>5, <1>6, Bystanders, WriteStep

LEMMA SaveStep ==
    ASSUME IInv, TypeInv', NEW w \in Workers, Save(w)
    PROVE  AtHome' /\ Merged' /\ Rest'
<1>. USE DEF IInv, TypeInv
<1>. DEFINE m == msg[w]
            D == IF deferred[m] = None THEN [deferred EXCEPT ![m] = home[w]] ELSE deferred
            own == {n \in {m} : deferred[m] = None /\ home[w] = folder[w]}
<1>1. /\ m \in Messages /\ home[w] \in Folders /\ folder[w] \in Folders
      /\ parent' = parent /\ raced \subseteq raced' /\ missed' = missed \ {m}
      /\ pc[Admin] = "merged" /\ m \in list[Admin] => m \in raced'
  BY DEF Save, Shape, TypeOK, Condemned
<1>2. /\ Normalize(w, own, Outdated(m), D) \/ (fresh' = Outdated(m) /\ deferred' = D)
      /\ Touch({m}) /\ Done(w)
  BY Zenon DEF Save
<1>3. m \notin raced' => deferred[m] # None \/ home[w] = parent[m]
  BY DEF Save
<1>4. /\ D \in [Messages -> Folders \cup {None}] /\ D[m] # None
      /\ \A n \in Messages \ {m} : parent'[n] = parent[n] /\ D[n] = deferred[n]
  BY <1>1, NoneAssumption DEF TypeOK
<1>5. m \notin raced' => D[m] = parent'[m]
  BY <1>1, <1>3 DEF AtHome, TypeOK
<1>6. own \in SUBSET {m} /\ (m \in own \ raced' => parent'[m] = folder[w])
  BY <1>1, <1>3
<1>7. m \notin raced' => \A p \in Purgers : m \in list[p] => parent'[m] \in {folder[p], Gone}
  BY <1>1 DEF Listed, InPlace
<1>8. Purges(folder[w], list[w] \cup own, Outdated(m), D)
  BY <1>2, <1>4, OutdatedType, NormalizePurges, KeepPurges
<1>. HIDE DEF m, D, own
<1>. QED  BY <1>1, <1>2, <1>4, <1>5, <1>6, <1>7, <1>8, WriteStep

LEMMA MoveStep ==
    ASSUME IInv, TypeInv', NEW w \in Workers, Move(w)
    PROVE  AtHome' /\ Merged' /\ Rest'
<1>. USE DEF IInv, TypeInv
<1>. DEFINE m == msg[w]
            D == [deferred EXCEPT ![m] = folder[w]]
<1>1. /\ m \in Messages /\ folder[w] \in Folders
      /\ parent' = [parent EXCEPT ![m] = IF @ = Gone THEN Gone ELSE folder[w]]
      /\ raced' = IF parent[m] = Gone \/ \E p \in Purgers \ {w} : m \in list[p]
                  THEN raced \cup {m} ELSE raced \ {m}
      /\ missed' = missed \ {m}
  BY DEF Move, Shape
<1>2. Normalize(w, {m}, Outdated(m), D) /\ Touch({m}) /\ Done(w)
  BY Zenon DEF Move
<1>3. /\ D \in [Messages -> Folders \cup {None}] /\ D[m] = folder[w] /\ D[m] # None
      /\ \A n \in Messages \ {m} : parent'[n] = parent[n] /\ D[n] = deferred[n]
  BY <1>1, NoneAssumption DEF TypeOK
<1>4. m \notin raced' => parent'[m] = folder[w]
                         /\ \A p \in Purgers \ {w} : m \notin list[p]
  BY <1>1 DEF TypeOK
<1>5. raced \subseteq raced' \cup {m} /\ missed \subseteq missed' \cup {m}
  BY <1>1
<1>6. m \notin raced' => /\ \A p \in Purgers : m \in list[p] => parent'[m] \in {folder[p], Gone}
                         /\ m \notin list[Admin]
  BY <1>4, Bystanders
<1>7. {m} \in SUBSET {m}
  OBVIOUS
<1>8. Purges(folder[w], list[w] \cup {m}, Outdated(m), D)
  BY <1>2, <1>3, OutdatedType, NormalizePurges
<1>. HIDE DEF m, D
<1>. QED  BY <1>1, <1>2, <1>3, <1>4, <1>5, <1>6, <1>7, <1>8, WriteStep

LEMMA RemoveStep ==
    ASSUME IInv, NEW m \in Messages, Remove(m)
    PROVE  AtHome' /\ Merged' /\ Rest'
<1>. USE DEF IInv, TypeInv
<1>1. /\ parent' = [parent EXCEPT ![m] = Gone] /\ fresh' = Outdated(m)
      /\ deferred' = [deferred EXCEPT ![m] = None]
      /\ UNCHANGED <<pc, folder, list, touched, raced, missed>>
  BY DEF Remove, actorVars, workerVars
<1>2. \A g \in Folders : fresh'[g] = fresh[g] \ {m}
  BY <1>1 DEF Outdated
<1>3. AtHome' /\ Merged'
  BY <1>1, <1>2, NoneAssumption DEF AtHome, Merged, TypeOK
<1>4. ReadsCurrent'
  BY <1>1, <1>2, NoneAssumption DEF ReadsCurrent, TypeOK, Shape
<1>5. Listed'
  BY <1>1, Bystanders DEF Listed, InPlace, TypeOK
<1>7. MergedRows'
  BY <1>1, <1>2, Bystanders, NoneAssumption DEF MergedRows, TypeOK, Shape
<1>. QED  BY <1>3, <1>4, <1>5, <1>7 DEF Rest

-----------------------------------------------------------------------------
(* The theorems.                                                           *)

LEMMA Step == IInv /\ [Next]_vars => IInv'
<1>. SUFFICES ASSUME IInv, [Next]_vars  PROVE AtHome' /\ Merged' /\ Rest'
  BY TypeStep, IInvParts DEF IInv, Rest
<1>1. TypeInv'
  BY TypeStep DEF IInv
<1>2. ASSUME NEW w \in Workers, Call(w)  PROVE AtHome' /\ Merged' /\ Rest'
  BY <1>1, <1>2, CallPlace, MarkStep, CreateStep, SaveStep, MoveStep DEF Call
<1>3. CASE UNCHANGED vars
  <2>. USE DEF vars, tableVars, actorVars, workerVars, ghostVars
  <2>1. AtHome' /\ Merged' /\ ReadsCurrent'
    BY <1>3 DEF IInv, AtHome, Merged, ReadsCurrent
  <2>2. Listed' /\ MergedRows'
    BY <1>3 DEF IInv, Listed, InPlace, MergedRows
  <2>. QED  BY <2>1, <2>2 DEF Rest
<1>. QED  BY <1>2, <1>3, ThreadStep, AdminStep, ReadStep, SomeStep, RemoveStep DEF Next, Write

LEMMA Invariant == Spec => []IInv
  BY InitIInv, Step, PTL DEF Spec

\* A deferred update is for the folder of its message, whatever moves, purges
\* and rollbacks there were.
THEOREM DeferredAtHome == Spec => []AtHome
<1>1. IInv => AtHome
  BY DEF IInv
<1>. QED  BY <1>1, Invariant, PTL

\* No purge loses an update: a message without a deferred one is in tproperties
\* as it is in properties.
THEOREM NothingLost == Spec => []Merged
<1>1. IInv => Merged
  BY DEF IInv
<1>. QED  BY <1>1, Invariant, PTL

\* A table that reads the list of deferred messages first shows nothing stale,
\* whatever purges come before it reads the rows.
THEOREM TablesReadCurrent == Spec => []ReadsCurrent
<1>1. IInv => ReadsCurrent
  BY DEF IInv
<1>. QED  BY <1>1, Invariant, PTL
=============================================================================
