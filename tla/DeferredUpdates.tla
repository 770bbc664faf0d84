--------------------------- MODULE DeferredUpdates ---------------------------
(***************************************************************************)
(* The columns of a contents table are read from tproperties, a copy of    *)
(* properties ordered by folder.  A write leaves the copy as it is and     *)
(* puts the message in the table deferredupdate; ECTPropsPurge merges the  *)
(* rows later: in a thread of its own, at the request of an administrator, *)
(* when all messages of a folder are marked as read, and in the            *)
(* transaction of the write that makes too many of one folder.  Calls that *)
(* change no more than flags change properties and one copy at once, and   *)
(* leave no row in deferredupdate.                                         *)
(*                                                                         *)
(* The database gives a transaction the snapshot of its first plain        *)
(* SELECT; locking reads, REPLACE ... SELECT and DELETE see what is        *)
(* committed.  An action is one statement outside of a transaction, or the *)
(* part of a transaction up to a lock it may wait for; what comes after    *)
(* its last lock is one step.                                              *)
(*                                                                         *)
(* Where a message is, a call asks the object cache, whose entries are put *)
(* in and taken out without any of these locks.                            *)
(***************************************************************************)
EXTENDS FiniteSets, Naturals

CONSTANTS Folders, Messages,
          Workers,            \* worker threads with a SOAP call that writes
          Thread,             \* ECTPropsPurge::PurgeThread
          Admin,              \* the call purgeDeferredUpdates
          Reader,             \* QueryRowData of a contents table
          None, Gone,
          MaxDeferred,        \* max_deferred_records
          MaxDeferredFolder,  \* max_deferred_records_folder
          MaxWrites           \* the number of writes

Purgers == Workers \cup {Thread, Admin}
Actors  == Purgers \cup {Reader}

ASSUME ActorAssumption == /\ Thread \notin Workers /\ Admin \notin Workers
                          /\ Reader \notin Workers
                          /\ Thread # Admin /\ Thread # Reader /\ Admin # Reader
ASSUME NoneAssumption == /\ None \notin Folders \cup Messages \cup Workers
                         /\ Gone \notin Folders /\ Gone # None
ASSUME LimitAssumption == /\ MaxDeferred \in Nat \ {0}
                          /\ MaxDeferredFolder \in Nat \ {0}
                          /\ MaxWrites \in Nat

VARIABLES
  parent,   \* hierarchy.parent; None before a message is made
  deferred, \* deferredupdate.folderid by hierarchyid; None without a row
  fresh,    \* the messages whose rows in tproperties, under a folder, are
            \* what properties has
  cached,   \* the folders the object cache may give for a message
  owner,    \* who holds the row locks of a folder's counters
  pc, folder, list,  \* of an actor: where it is, the folder it works on and
            \* the ids it has selected from deferredupdate
  op, msg,  \* of a worker: the call, and the message it is for
  src,      \* ... the folder it believes the message to be in
  home,     \* ... the folder it was told when it had its locks
  touched,  \* messages written since Reader has selected its list
  writes,   \* the number of writes so far
  raced,    \* messages that were moved while a purge had selected them, deferred
            \* for a folder that was not theirs (any more), or saved between
            \* AdminMerge and AdminDelete
  missed    \* messages of which a call changed properties and no copy, and
            \* that are not written since

tableVars  == <<parent, deferred, fresh>>
actorVars  == <<pc, folder, list>>
workerVars == <<op, msg, src, home>>
ghostVars  == <<touched, writes, raced, missed>>
vars == <<tableVars, cached, owner, actorVars, workerVars, ghostVars>>

Ops == {"create", "save", "move", "flags"}

\* The tables are as the server before this one has left them; the cache is
\* empty, so that it gives what is in them.
Init == /\ parent \in [Messages -> Folders \cup {None}]
        /\ deferred \in {d \in [Messages -> Folders \cup {None}] :
                             \A m \in Messages : d[m] \in {None, parent[m]}}
        /\ fresh = [f \in Folders |->
                        {m \in Messages : parent[m] = f /\ deferred[m] = None}]
        /\ cached = [m \in Messages |-> {parent[m]} \cap Folders]
        /\ owner = [f \in Folders |-> None]
        /\ pc = [a \in Actors |-> "idle"]
        /\ folder = [a \in Actors |-> None]
        /\ list = [a \in Actors |-> {}]
        /\ op = [w \in Workers |-> "none"]
        /\ msg = [w \in Workers |-> None]
        /\ src = [w \in Workers |-> None]
        /\ home = [w \in Workers |-> None]
        /\ touched = {} /\ writes = 0 /\ raced = {} /\ missed = {}

-----------------------------------------------------------------------------
\* SELECT hierarchyid FROM deferredupdate WHERE folderid = f
Deferred(f) == {m \in Messages : deferred[m] = f}
Count == Cardinality({m \in Messages : deferred[m] # None})
\* GetLargestFolderId
Largest(f) == /\ Deferred(f) # {}
              /\ \A g \in Folders : Cardinality(Deferred(g)) <= Cardinality(Deferred(f))

At(a, l, f, ids) == /\ pc' = [pc EXCEPT ![a] = l]
                    /\ folder' = [folder EXCEPT ![a] = f]
                    /\ list' = [list EXCEPT ![a] = ids]
Idle(a) == At(a, "idle", None, {})

\* Mutant: the rows that were listed are merged, all rows of the folder deleted.
BadPurge(f, ids, F, D) ==
    /\ fresh' = [F EXCEPT ![f] = @ \cup {m \in ids : D[m] = f}]
    /\ deferred' = [m \in Messages |-> IF D[m] = f THEN None ELSE D[m]]
\* PurgeDeferredTableUpdates from its locks on, when fresh is F and
\* deferredupdate is D: the rows of f are merged, those with the ids selected
\* before are deleted.
Purge(f, ids, F, D) ==
    /\ fresh' = [F EXCEPT ![f] = @ \cup {m \in Messages : D[m] = f}]
    /\ deferred' = [m \in Messages |-> IF m \in ids THEN None ELSE D[m]]

-----------------------------------------------------------------------------
(* PurgeThread and PurgeOverflowDeferred.                                  *)

\* Mutant: the limit itself is taken for kept.
BadLook ==
    /\ pc[Thread] = "idle" /\ Count > MaxDeferred /\ At(Thread, "begin", None, {})
    /\ UNCHANGED <<tableVars, cached, owner, workerVars, ghostVars>>
\* Every 10 seconds, and after each purge.
Look ==
    /\ pc[Thread] = "idle" /\ Count >= MaxDeferred /\ At(Thread, "begin", None, {})
    /\ UNCHANGED <<tableVars, cached, owner, workerVars, ghostVars>>

\* The folder and its rows are read from one snapshot.
List ==
    /\ pc[Thread] = "begin"
    /\ \/ \E f \in Folders : Largest(f) /\ At(Thread, "listed", f, Deferred(f))
       \/ Count = 0 /\ Idle(Thread)
    /\ UNCHANGED <<tableVars, cached, owner, workerVars, ghostVars>>

Merge ==
    /\ pc[Thread] = "listed" /\ Purge(folder[Thread], list[Thread], fresh, deferred)
    /\ Idle(Thread) /\ UNCHANGED <<parent, cached, owner, workerVars, ghostVars>>

\* A statement fails, as in a deadlock: Rollback, and again in 10 seconds.
Fail == /\ pc[Thread] \in {"begin", "listed"} /\ Idle(Thread)
        /\ UNCHANGED <<tableVars, cached, owner, workerVars, ghostVars>>

-----------------------------------------------------------------------------
(* SOAP purgeDeferredUpdates: the same function outside of a transaction.  *)

AdminFolder(f) ==
    /\ pc[Admin] = "idle" /\ Largest(f) /\ At(Admin, "begin", f, {})
    /\ UNCHANGED <<tableVars, cached, owner, workerVars, ghostVars>>
AdminList ==
    /\ pc[Admin] = "begin"
    /\ LET f == folder[Admin]
       IN  IF Deferred(f) = {} THEN Idle(Admin) ELSE At(Admin, "listed", f, Deferred(f))
    /\ UNCHANGED <<tableVars, cached, owner, workerVars, ghostVars>>
AdminMerge ==
    /\ pc[Admin] = "listed" /\ At(Admin, "merged", folder[Admin], list[Admin])
    /\ fresh' = [fresh EXCEPT ![folder[Admin]] = @ \cup Deferred(folder[Admin])]
    /\ UNCHANGED <<parent, deferred, cached, owner, workerVars, ghostVars>>
AdminDelete ==
    /\ pc[Admin] = "merged" /\ Idle(Admin)
    /\ deferred' = [m \in Messages |-> IF m \in list[Admin] THEN None ELSE deferred[m]]
    /\ UNCHANGED <<parent, fresh, cached, owner, workerVars, ghostVars>>
\* A statement fails; those before it stay done.
AdminFail ==
    /\ pc[Admin] \in {"listed", "merged"} /\ Idle(Admin)
    /\ UNCHANGED <<tableVars, cached, owner, workerVars, ghostVars>>

-----------------------------------------------------------------------------
(* QueryRowData: the rows listed as deferred are read from properties, the *)
(* others from tproperties.                                                *)

\* Mutant: a folder with few deferred rows is read without the list.
BadReadList(f) ==
    /\ pc[Reader] = "idle"
    /\ At(Reader, "listed", f, IF Cardinality(Deferred(f)) >= MaxDeferredFolder
                               THEN Deferred(f) ELSE {})
    /\ touched' = {}
    /\ UNCHANGED <<tableVars, cached, owner, workerVars, writes, raced, missed>>
ReadList(f) ==
    /\ pc[Reader] = "idle" /\ At(Reader, "listed", f, Deferred(f))
    /\ touched' = {}
    /\ UNCHANGED <<tableVars, cached, owner, workerVars, writes, raced, missed>>
ReadRows ==
    /\ pc[Reader] = "listed" /\ Idle(Reader) /\ touched' = {}
    /\ UNCHANGED <<tableVars, cached, owner, workerVars, writes, raced, missed>>

-----------------------------------------------------------------------------
(* The calls that write: saveObject makes or saves a message, deleteObjects*)
(* marks one as deleted, copyObjects moves one, setReadFlags marks a folder*)
(* as read.  They lock the counters of the folders they believe to work on.*)

\* A call asks the cache where its message is: saveObject for the folder of the
\* message, BeginLockFolders for the one it moves it from.  Its snapshot may be
\* as early as this.
Begin(w, o, m, f) ==
    /\ pc[w] = "idle" /\ writes < MaxWrites
    /\ o \in {"create", "flags"} <=> m = None
    /\ o = "save" => f \in cached[m]
    /\ At(w, "begun", f, Deferred(f)) /\ writes' = writes + 1
    /\ op' = [op EXCEPT ![w] = o] /\ msg' = [msg EXCEPT ![w] = m]
    /\ \E g \in IF o = "move" THEN cached[m] ELSE {f} : src' = [src EXCEPT ![w] = g]
    /\ UNCHANGED <<tableVars, cached, owner, home, touched, raced, missed>>

\* Mutant: that the message to move is gone is not noticed.
BadTold(w) == CASE op[w] = "save" -> cached[msg[w]]
                [] op[w] = "move" -> {parent[msg[w]]}
                [] OTHER          -> {None}
\* With its locks, WriteProps asks the cache again, MoveObjects the table.
Told(w) == CASE op[w] = "save" -> cached[msg[w]]
             [] op[w] = "move" -> {parent[msg[w]]} \cap Folders
             [] OTHER          -> {None}
\* It has locked the counters of its folders, and looks again; the snapshot of
\* a move, of the others if they had everything in the cache, is of now.  What
\* a move puts in the cache it puts there before its commit, and it stays when
\* that fails.
Lock(w) ==
    /\ pc[w] = "begun"
    /\ \A f \in {folder[w], src[w]} : owner[f] = None
    /\ owner' = [f \in Folders |-> IF f \in {folder[w], src[w]} THEN w ELSE owner[f]]
    /\ \E f \in Told(w) : home' = [home EXCEPT ![w] = f]
    /\ \E ids \in {list[w], Deferred(folder[w])} :
          /\ op[w] = "move" => ids = Deferred(folder[w])
          /\ At(w, "locked", folder[w], ids)
    /\ cached' = [m \in Messages |-> IF op[w] = "move" /\ m = msg[w]
                                     THEN cached[m] \cup {folder[w]} ELSE cached[m]]
    /\ UNCHANGED <<tableVars, op, msg, src, ghostVars>>

Done(w) == /\ Idle(w)
           /\ owner' = [f \in Folders |-> IF owner[f] = w THEN None ELSE owner[f]]
           /\ op' = [op EXCEPT ![w] = "none"] /\ msg' = [msg EXCEPT ![w] = None]
           /\ src' = [src EXCEPT ![w] = None] /\ home' = [home EXCEPT ![w] = None]
           /\ UNCHANGED writes

\* Rollback.
Abort(w) == /\ pc[w] \in {"begun", "locked"} /\ Done(w)
            /\ UNCHANGED <<tableVars, cached, touched, raced, missed>>

\* NormalizeDeferredUpdates when fresh is F and deferredupdate is D: a call
\* sees its snapshot and the rows that are its own.
Normalize(w, own, F, D) ==
    LET ids == list[w] \cup own
    IN  IF Cardinality(ids) >= MaxDeferredFolder THEN Purge(folder[w], ids, F, D)
        ELSE fresh' = F /\ deferred' = D

\* What properties says of m has changed, and what tproperties says has not.
Outdated(m) == [f \in Folders |-> fresh[f] \ {m}]
Touch(S) == touched' = IF pc[Reader] = "listed" THEN touched \cup S ELSE touched

Create(w, m) ==
    /\ pc[w] = "locked" /\ op[w] = "create" /\ parent[m] = None
    /\ parent' = [parent EXCEPT ![m] = folder[w]]
    /\ cached' = [cached EXCEPT ![m] = {folder[w]}]
    /\ Normalize(w, {m}, Outdated(m), [deferred EXCEPT ![m] = folder[w]])
    /\ Touch({m}) /\ Done(w) /\ UNCHANGED <<raced, missed>>

\* The purge outside of a transaction has merged m and is going to delete its
\* row, whatever is written meanwhile.
Condemned(m) == pc[Admin] = "merged" /\ m \in list[Admin]

\* INSERT IGNORE: a row that is there stays as it is.  saveObject purges, the
\* soft deletion of a message does not.
Save(w) ==
    LET m   == msg[w]
        new == deferred[m] = None
        D   == IF new THEN [deferred EXCEPT ![m] = home[w]] ELSE deferred
    IN  /\ pc[w] = "locked" /\ op[w] = "save"
        /\ \/ Normalize(w, {n \in {m} : new /\ home[w] = folder[w]}, Outdated(m), D)
           \/ fresh' = Outdated(m) /\ deferred' = D
        /\ raced' = IF Condemned(m) \/ (new /\ home[w] # parent[m])
                    THEN raced \cup {m} ELSE raced
        /\ missed' = missed \ {m}
        /\ Touch({m}) /\ Done(w) /\ UNCHANGED <<parent, cached>>

\* Mutant: a row that is there keeps the folder the message came from.
BadMove(w) ==
    LET m == msg[w]
    IN  /\ pc[w] = "locked" /\ op[w] = "move"
        /\ parent' = [parent EXCEPT ![m] = IF @ = Gone THEN Gone ELSE folder[w]]
        /\ Normalize(w, {m}, Outdated(m),
                     [deferred EXCEPT ![m] = IF @ = None THEN folder[w] ELSE @])
        /\ raced' = IF parent[m] = Gone \/ \E p \in Purgers \ {w} : m \in list[p]
                    THEN raced \cup {m} ELSE raced \ {m}
        /\ missed' = missed \ {m}
        /\ Touch({m}) /\ Done(w) /\ UNCHANGED cached
\* ON DUPLICATE KEY UPDATE: the row is for the new folder from now on.  Nobody
\* looks whether the message is still there.
Move(w) ==
    LET m == msg[w]
    IN  /\ pc[w] = "locked" /\ op[w] = "move"
        /\ parent' = [parent EXCEPT ![m] = IF @ = Gone THEN Gone ELSE folder[w]]
        /\ Normalize(w, {m}, Outdated(m), [deferred EXCEPT ![m] = folder[w]])
        /\ raced' = IF parent[m] = Gone \/ \E p \in Purgers \ {w} : m \in list[p]
                    THEN raced \cup {m} ELSE raced \ {m}
        /\ missed' = missed \ {m}
        /\ Touch({m}) /\ Done(w) /\ UNCHANGED cached

\* Flags of S change in properties and in the copies of folder f, or of none:
\* UpdateTProp.
Mark(S, f) ==
    /\ fresh' = [g \in Folders |-> IF g = f THEN fresh[g] ELSE fresh[g] \ S]
    /\ missed' = missed \cup {m \in S : /\ parent[m] # f
                                        /\ deferred[m] = None \/ Condemned(m)}
    /\ Touch(S)

\* setReadFlags of a folder: it is purged, and its messages are then marked in
\* both tables.  The result of the purge is not looked at: a statement of it
\* may fail, or the database roll all back, so that what follows runs outside
\* of a transaction and may end between the tables.
MarkAll(w) ==
    /\ pc[w] = "locked" /\ op[w] = "flags"
    /\ \/ /\ IF list[w] = {} THEN UNCHANGED <<fresh, deferred>>
             ELSE \/ Purge(folder[w], list[w], fresh, deferred)
                  \/ UNCHANGED <<fresh, deferred>>
          /\ UNCHANGED <<touched, missed>>
       \/ /\ list[w] # {} /\ UNCHANGED deferred
          /\ \E S \in SUBSET {m \in Messages : parent[m] = folder[w]} : Mark(S, None)
    /\ Done(w) /\ UNCHANGED <<parent, cached, raced>>

\* setReadFlags of a list of messages: they are marked wherever they are, but
\* only the copies of the folder that was looked up last ("FIXME ulParent is not
\* constant for all lHierarchyIDs").  submitMessage, finishedMessage and
\* abortSubmit do so with one message and without a lock on its folder;
\* setMessageStatus and the soft deletion of a folder change no copy at all.
MarkSome(S, f) ==
    /\ writes < MaxWrites /\ writes' = writes + 1
    /\ S # {} /\ \A m \in S : parent[m] \in Folders
    /\ f # None => \E m \in Messages : f \in cached[m]
    /\ Mark(S, f)
    /\ UNCHANGED <<parent, deferred, cached, owner, actorVars, workerVars, raced>>

\* DeleteObjectHard, in a transaction that has locked no folder.
Remove(m) ==
    /\ parent[m] \in Folders /\ writes < MaxWrites /\ writes' = writes + 1
    /\ parent' = [parent EXCEPT ![m] = Gone] /\ fresh' = Outdated(m)
    /\ deferred' = [deferred EXCEPT ![m] = None]
    /\ UNCHANGED <<cached, owner, actorVars, workerVars, touched, raced, missed>>

-----------------------------------------------------------------------------
PurgeThread == Look \/ List \/ Merge \/ Fail
AdminCall == \/ \E f \in Folders : AdminFolder(f)
             \/ AdminList \/ AdminMerge \/ AdminDelete \/ AdminFail
Read == (\E f \in Folders : ReadList(f)) \/ ReadRows
Call(w) == \/ \E o \in Ops, m \in Messages \cup {None}, f \in Folders : Begin(w, o, m, f)
           \/ Lock(w) \/ Abort(w) \/ Save(w) \/ Move(w) \/ MarkAll(w)
           \/ \E m \in Messages : Create(w, m)
Write == \/ \E w \in Workers : Call(w)
         \/ \E S \in SUBSET Messages, f \in Folders \cup {None} : MarkSome(S, f)
         \/ \E m \in Messages : Remove(m)
Next == PurgeThread \/ AdminCall \/ Read \/ Write

Spec == Init /\ [][Next]_vars

\* The thread runs, and a transaction that is rolled back and tried again does
\* not fail for ever.
Fairness == WF_vars(Look) /\ SF_vars(List) /\ SF_vars(Merge)

-----------------------------------------------------------------------------
\* The values the variables range over.
TypeOK ==
    /\ parent \in [Messages -> Folders \cup {None, Gone}]
    /\ deferred \in [Messages -> Folders \cup {None}]
    /\ fresh \in [Folders -> SUBSET Messages]
    /\ cached \in [Messages -> SUBSET Folders]
    /\ owner \in [Folders -> Workers \cup {None}]
    /\ pc \in [Actors -> {"idle", "begin", "begun", "listed", "locked", "merged"}]
    /\ folder \in [Actors -> Folders \cup {None}]
    /\ list \in [Actors -> SUBSET Messages]
    /\ op \in [Workers -> Ops \cup {"none"}]
    /\ msg \in [Workers -> Messages \cup {None}]
    /\ src \in [Workers -> Folders \cup {None}]
    /\ home \in [Workers -> Folders \cup {None}]
    /\ touched \in SUBSET Messages
    /\ writes \in 0 .. MaxWrites
    /\ raced \in SUBSET Messages /\ missed \in SUBSET Messages

\* A deferred update is for the folder its message is in, so that the purge of
\* that folder and the tables on it find it ("Message has moved into a new
\* folder ... just update the existing record", AddDeferredUpdateNoPurge); but
\* for messages that were moved while a purge had selected them, saved for a
\* folder the cache had told and they are not in, or saved while the purge of
\* an administrator was about to delete their row.
AtHome == \A m \in Messages \ raced :
    deferred[m] # None => deferred[m] = parent[m]

\* No update is dropped before it is merged, whoever purges which folder when
\* ("multiple threads call this function, which will cause problems",
\* PurgeDeferredTableUpdates): of a message without a row in deferredupdate,
\* tproperties has what properties has; but for those, and for the messages
\* whose flags were changed by a call that takes them to be in another folder.
Merged == \A m \in Messages \ (raced \cup missed) :
    parent[m] \in Folders /\ deferred[m] = None => m \in fresh[parent[m]]

\* QueryRowData selects the deferred rows first and without a transaction: what
\* it then reads from tproperties is up to date for each message that was not
\* written since, although purges may have come between.
ReadsCurrent ==
    LET f == folder[Reader]
    IN  pc[Reader] = "listed" =>
            \A m \in Messages \ (list[Reader] \cup touched \cup raced \cup missed) :
                parent[m] = f => m \in fresh[f]

\* "The number of deferred writes is kept below this value" (max_deferred_records
\* in doc/kopano-server.cfg.5): it is brought below it again and again.
KeptBelow == []<>(Count < MaxDeferred)
=============================================================================
