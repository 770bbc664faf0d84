------------------------------ MODULE Attachments ------------------------------
(***************************************************************************)
(* Attachment storage in files (provider/libserver/ECAttachmentStorage.cpp, *)
(* class ECFileAttachment).  The data of a large property is a file named  *)
(* after an instance id; the table `singleinstances` says which object     *)
(* uses which instance, and an instance without a row has no user left.    *)
(* A request changes the table inside a database transaction and the files *)
(* at once or at the end, so two resources have to agree without a common  *)
(* commit:                                                                 *)
(*                                                                         *)
(*  - a new file is written at once and removed by a rollback;             *)
(*  - the file of a replaced value is renamed to *.deleted at once, removed*)
(*    by the commit and renamed back by a rollback;                        *)
(*  - the files of deleted objects are removed by the commit;              *)
(*  - the callers commit the files first and the database after them.      *)
(*                                                                         *)
(* Whether an instance has users left is read in the snapshot of the       *)
(* transaction (a plain SELECT under InnoDB's REPEATABLE READ), while      *)
(* DELETE, REPLACE and INSERT ... SELECT work on the committed rows and    *)
(* lock them.  A slot of this module is an object together with a property *)
(* tag, the unique key `hkey` of the table.                                *)
(***************************************************************************)
EXTENDS Integers, FiniteSets

CONSTANTS
  Workers,     \* the threads that serve requests
  Slots,       \* the (hierarchyid, tag) pairs that may have large data
  First,       \* the first instance id that has not been given out
  MaxInstance, \* bound on the instance ids
  MaxOps,      \* bound on the operations of one transaction
  MaxBegins,   \* bound on the transactions
  MaxCrashes   \* bound on the crashes of the server

ASSUME FirstAssumption == First \in Nat \ {0}
ASSUME InstanceAssumption == MaxInstance \in Nat
ASSUME BoundAssumption ==
  MaxOps \in Nat /\ MaxBegins \in Nat /\ MaxCrashes \in Nat

None == 0
Instances == 1..MaxInstance

VARIABLES
  refs,    \* the committed rows of `singleinstances`: slot -> instance id
  next,    \* the auto_increment value of that table
  file,    \* instance id -> its file: "none", "file" or "deleted" (*.deleted)
  pc,      \* worker -> where its request is
  snap,    \* worker -> the rows its transaction's snapshot shows
  wrote,   \* worker -> the slots whose row it has changed, and locked
  mine,    \* worker -> what it wrote into those
  held,    \* worker -> the slots whose row it holds a shared lock on
  todo,    \* worker -> the slots its running operation is about
  want,    \* worker -> the instance id to link, None to store new data
  new,     \* worker -> m_setNewAttachment
  del,     \* worker -> m_setDeletedAttachment
  marked,  \* worker -> m_setMarkedAttachment
  ops,     \* worker -> operations its transaction has begun
  begins,  \* transactions begun
  crashes, \* crashes so far
  lost,    \* history: instances that lost their file, see LostBy...
  leaked   \* history: instances whose file was left behind, see LeftBy...

table == <<refs, next>>
tx    == <<snap, wrote, mine, held>>
sets  == <<new, del, marked>>
bound == <<begins, crashes>>
ghost == <<lost, leaked>>
vars  == <<table, file, pc, tx, todo, want, sets, ops, bound, ghost>>

Used(rows) == {rows[s] : s \in Slots} \ {None}

\* The table as the plain SELECTs of w's transaction show it.
View(w) == [s \in Slots |-> IF s \in wrote[w] THEN mine[w][s] ELSE snap[w][s]]

\* The table after the commit of w's transaction.
Merged(w) == [s \in Slots |-> IF s \in wrote[w] THEN mine[w][s] ELSE refs[s]]

\* InnoDB's row locks: w may write, or read for its INSERT, the row of s.
MayWrite(w, s) == \A v \in Workers \ {w} : s \notin wrote[v] \cup held[v]
MayRead(w, s)  == \A v \in Workers \ {w} : s \notin wrote[v]

Go(w, label) == pc' = [pc EXCEPT ![w] = label]

-----------------------------------------------------------------------------
(* The history of what goes wrong, and by which way. *)

\* The rows a transaction has replaced or removed and that stay after all,
\* though their file is out of the way: the files were committed or marked and
\* the database was not committed.
LostByHalf(w, disk) == {i \in Used(refs) : /\ disk[i] # "file"
                                           /\ \E s \in wrote[w] : refs[s] = i}

\* Files removed although a row that the snapshot does not show, committed or
\* not, uses them, or a row is on its way for which the file was just found.
LostByRace(w, gone) ==
  {i \in gone : \/ \E s \in Slots \ wrote[w] : refs[s] = i /\ snap[w][s] # i
                \/ \E v \in Workers \ {w} :
                     \/ \E s \in wrote[v] : mine[v][s] = i
                     \/ pc[v] = "checked" /\ want[v] = i}

\* New files of a transaction whose database half is not committed.
LeftByHalf(w, disk) == {i \in Instances : /\ disk[i] # "none"
                                          /\ i \notin Used(refs)
                                          /\ \E s \in wrote[w] : mine[w][s] = i}

\* Instances the commit of w takes the last row of: w kept the file for a row
\* of its snapshot that is gone by now, or removed a row its snapshot does not
\* show.
LeftByRace(w) ==
  {i \in Used(refs) \ Used(Merged(w)) :
     \/ \E s \in Slots \ wrote[w] : snap[w][s] = i
     \/ \E s \in wrote[w] : refs[s] = i /\ snap[w][s] # i}

\* Instances v has taken the last row of, in its view, and has on no list: it
\* has not found their files, or has removed them.
Passed(v) == (Used(snap[v]) \cup new[v])
               \ (Used(View(v)) \cup del[v] \cup marked[v])

\* Files w renames back though their last row is gone, or goes in another
\* transaction, which did not find the file it had to remove.
LeftRenamed(w, back) ==
  {i \in back : \/ i \notin Used(refs)
                \/ \E v \in Workers \ {w} : /\ pc[v] \notin {"rollback", "undo"}
                                            /\ i \in Passed(v)}

-----------------------------------------------------------------------------
Init ==
  /\ refs \in [Slots -> {i \in Instances : i < First} \cup {None}]
  /\ next = First
  /\ file = [i \in Instances |-> IF i \in Used(refs) THEN "file" ELSE "none"]
  /\ pc = [w \in Workers |-> "idle"]
  /\ snap = [w \in Workers |-> [s \in Slots |-> None]]
  /\ wrote = [w \in Workers |-> {}]
  /\ mine = [w \in Workers |-> [s \in Slots |-> None]]
  /\ held = [w \in Workers |-> {}]
  /\ todo = [w \in Workers |-> {}]
  /\ want = [w \in Workers |-> None]
  /\ new = [w \in Workers |-> {}]
  /\ del = [w \in Workers |-> {}]
  /\ marked = [w \in Workers |-> {}]
  /\ ops = [w \in Workers |-> 0]
  /\ begins = 0 /\ crashes = 0
  /\ lost = {} /\ leaked = {}

\* Begin of the attachment storage and of the database.  The snapshot is that
\* of the first SELECT; the transaction has done nothing anyone sees before it.
Begin(w) ==
  /\ pc[w] = "idle" /\ begins < MaxBegins
  /\ Go(w, "open")
  /\ snap' = [snap EXCEPT ![w] = refs]
  /\ begins' = begins + 1
  /\ UNCHANGED <<table, file, wrote, mine, held, todo, want, sets, ops,
                 crashes, ghost>>

\* An operation starts on the slots S and goes on at label.  A request that
\* copies objects does nothing else.
StartOn(w, S, i, label) ==
  /\ pc[w] = "open" /\ ops[w] < MaxOps /\ held[w] = {}
  /\ Go(w, label)
  /\ todo' = [todo EXCEPT ![w] = S]
  /\ want' = [want EXCEPT ![w] = i]
  /\ ops' = [ops EXCEPT ![w] = @ + 1]
  /\ UNCHANGED <<table, file, tx, sets, bound, ghost>>

\* SaveAttachment with data: what is there is replaced.
StartSave(w, s) ==
  StartOn(w, {s}, None, IF View(w)[s] = None THEN "put" ELSE "replace")

\* SaveAttachment with an instance id a client knows from an object it may
\* read: the file must be there, and a row of the view must use it.
StartLink(w, s, i) ==
  /\ file[i] = "file"
  /\ i \in Used(View(w)) /\ View(w)[s] # i
  /\ StartOn(w, {s}, i, IF View(w)[s] = None THEN "link" ELSE "replace")

\* DeleteAttachments: nothing is done when the view shows no instance.
StartDelete(w, S) ==
  /\ \E s \in S : View(w)[s] # None
  /\ StartOn(w, S, None, "delete")

\* The rows of todo are deleted, those committed since the snapshot too.  The
\* instances the view then shows no row of are orphans.
DropRows(w) ==
  /\ \A s \in todo[w] : MayWrite(w, s)
  /\ wrote' = [wrote EXCEPT ![w] = @ \cup todo[w]]
  /\ mine' = [mine EXCEPT ![w] =
                [s \in Slots |-> IF s \in todo[w] THEN None ELSE @[s]]]

\* Mutant: the rows of other slots are not looked for.
BadOrphans(w) == {View(w)[s] : s \in todo[w]} \ {None}

Orphans(w) ==
  {View(w)[s] : s \in todo[w]}
    \ ({View(w)[s] : s \in Slots \ todo[w]} \cup {None})

\* DeleteAttachment with bReplace: the file of an orphan is renamed, and
\* remembered when it was there.
Replace(w) ==
  /\ pc[w] = "replace"
  /\ DropRows(w)
  /\ LET here == {i \in Orphans(w) : file[i] = "file"} IN
     /\ file' = [i \in Instances |-> IF i \in here THEN "deleted" ELSE file[i]]
     /\ marked' = [marked EXCEPT ![w] = @ \cup here]
  /\ Go(w, IF want[w] = None THEN "put" ELSE "link")
  /\ UNCHANGED <<table, snap, held, todo, want, new, del, ops, bound, ghost>>

\* Mutant: an object without an instance is put on the list too.
BadDelete(w) ==
  /\ pc[w] = "delete"
  /\ DropRows(w)
  /\ del' = [del EXCEPT ![w] = @ \cup {View(w)[s] : s \in todo[w]}]
  /\ todo' = [todo EXCEPT ![w] = {}]
  /\ Go(w, "open")
  /\ UNCHANGED <<table, file, snap, held, want, new, marked, ops, bound, ghost>>

\* DeleteAttachments, after the look: orphans are left for the commit.
Delete(w) ==
  /\ pc[w] = "delete"
  /\ DropRows(w)
  /\ del' = [del EXCEPT ![w] = @ \cup Orphans(w)]
  /\ todo' = [todo EXCEPT ![w] = {}]
  /\ Go(w, "open")
  /\ UNCHANGED <<table, file, snap, held, want, new, marked, ops, bound, ghost>>

\* INSERT of a row with a fresh instance id, then SaveAttachmentInstance.  A
\* file may be left half written, and the one written from a blob is then not
\* in m_setNewAttachment.
Put(w) ==
  /\ pc[w] = "put" /\ next \in Instances
  /\ \A s \in todo[w] : MayWrite(w, s) /\ Merged(w)[s] = None
  /\ wrote' = [wrote EXCEPT ![w] = @ \cup todo[w]]
  /\ mine' = [mine EXCEPT ![w] =
                [s \in Slots |-> IF s \in todo[w] THEN next ELSE @[s]]]
  /\ next' = next + 1
  /\ todo' = [todo EXCEPT ![w] = {}]
  /\ \E made, known, ok \in BOOLEAN :
       /\ ok => made /\ known
       /\ known => made
       /\ file' = [file EXCEPT ![next] = IF made THEN "file" ELSE @]
       /\ new' = [new EXCEPT ![w] = IF known THEN @ \cup {next} ELSE @]
       /\ leaked' = IF made /\ ~known THEN leaked \cup {next} ELSE leaked
       /\ Go(w, IF ok THEN "open" ELSE "rollback")
  /\ UNCHANGED <<refs, snap, held, want, del, marked, ops, bound, lost>>

\* SetSingleInstanceId: the file must still be there when it looks.
Check(w) ==
  /\ pc[w] = "link" /\ file[want[w]] = "file"
  /\ Go(w, "checked")
  /\ UNCHANGED <<table, file, tx, todo, want, sets, ops, bound, ghost>>

\* REPLACE INTO, which may have waited for the lock, puts the row in place of
\* whatever row is there; nobody looks at the file again.
Link(w) ==
  /\ pc[w] = "checked"
  /\ \A s \in todo[w] : MayWrite(w, s)
  /\ wrote' = [wrote EXCEPT ![w] = @ \cup todo[w]]
  /\ mine' = [mine EXCEPT ![w] =
                [s \in Slots |-> IF s \in todo[w] THEN want[w] ELSE @[s]]]
  /\ todo' = [todo EXCEPT ![w] = {}]
  /\ want' = [want EXCEPT ![w] = None]
  /\ Go(w, "open")
  /\ UNCHANGED <<table, file, snap, held, sets, ops, bound, ghost>>

\* CopyAttachment: INSERT ... SELECT reads the row of s as committed, under a
\* shared lock, and adds one for the new object's slot t.
Copy(w, s, t) ==
  /\ pc[w] = "open" /\ ops[w] < MaxOps /\ (held[w] = {} => ops[w] = 0)
  /\ s # t /\ MayRead(w, s) /\ MayWrite(w, t)
  /\ Merged(w)[s] # None
  /\ Merged(w)[t] = None /\ View(w)[t] = None
  /\ held' = [held EXCEPT ![w] = @ \cup {s}]
  /\ wrote' = [wrote EXCEPT ![w] = @ \cup {t}]
  /\ mine' = [mine EXCEPT ![w][t] = Merged(w)[s]]
  /\ ops' = [ops EXCEPT ![w] = @ + 1]
  /\ UNCHANGED <<table, file, pc, snap, todo, want, sets, bound, ghost>>

\* Any call of the request fails (a duplicate key, a lock wait or a deadlock
\* the database ends, a missing file): the request goes to its exit.
Fail(w) ==
  /\ pc[w] \in {"open", "replace", "delete", "put", "link", "checked"}
  /\ Go(w, "rollback")
  /\ UNCHANGED <<table, file, tx, todo, want, sets, ops, bound, ghost>>

\* ECFileAttachment::Commit: the files of the deleted and of the replaced are
\* removed, except those the system refuses to remove (stay); with one of
\* these the request fails, and its rollback of the files does nothing any
\* more.
CommitFiles(w) ==
  /\ pc[w] = "open"
  /\ \E stay \in SUBSET (del[w] \cup marked[w]) :
       LET gone == {i \in del[w] : file[i] = "file"} \cup marked[w] IN
       /\ file' = [i \in Instances |->
                      IF i \in gone \ stay THEN "none" ELSE file[i]]
       /\ lost' = lost \cup LostByRace(w, {i \in gone : file'[i] # "file"})
                    \cup (IF stay = {} THEN {} ELSE LostByHalf(w, file'))
       /\ leaked' = leaked
            \cup (IF stay = {} THEN {} ELSE
                    LeftByHalf(w, file') \cup (stay \ Used(refs)))
       /\ Go(w, IF stay = {} THEN "commit" ELSE "undo")
  /\ new' = [new EXCEPT ![w] = {}]
  /\ del' = [del EXCEPT ![w] = {}]
  /\ marked' = [marked EXCEPT ![w] = {}]
  /\ UNCHANGED <<table, tx, todo, want, ops, bound>>

\* The end of a transaction: the locks go, the sets are empty.
Close(W) ==
  /\ pc' = [w \in Workers |-> IF w \in W THEN "idle" ELSE pc[w]]
  /\ snap' = [w \in Workers |->
                IF w \in W THEN [s \in Slots |-> None] ELSE snap[w]]
  /\ mine' = [w \in Workers |->
                IF w \in W THEN [s \in Slots |-> None] ELSE mine[w]]
  /\ wrote' = [w \in Workers |-> IF w \in W THEN {} ELSE wrote[w]]
  /\ held' = [w \in Workers |-> IF w \in W THEN {} ELSE held[w]]
  /\ todo' = [w \in Workers |-> IF w \in W THEN {} ELSE todo[w]]
  /\ want' = [w \in Workers |-> IF w \in W THEN None ELSE want[w]]
  /\ ops' = [w \in Workers |-> IF w \in W THEN 0 ELSE ops[w]]

\* The database's Commit, after that of the files.
CommitRows(w) ==
  /\ pc[w] = "commit"
  /\ refs' = Merged(w)
  /\ leaked' = leaked \cup LeftByRace(w)
  /\ Close({w})
  /\ UNCHANGED <<next, file, sets, bound, lost>>

\* It fails: the rows are as before and the files are not.
CommitFails(w) ==
  /\ pc[w] = "commit"
  /\ lost' = lost \cup LostByHalf(w, file)
  /\ leaked' = leaked \cup LeftByHalf(w, file)
  /\ Close({w})
  /\ UNCHANGED <<table, file, sets, bound>>

\* Mutant: the new files are forgotten, not removed.
BadRollbackFiles(w) ==
  /\ pc[w] = "rollback"
  /\ file' = [i \in Instances |-> IF i \in marked[w] THEN "file" ELSE file[i]]
  /\ leaked' = leaked \cup LeftRenamed(w, marked[w])
  /\ Go(w, "undo")
  /\ new' = [new EXCEPT ![w] = {}]
  /\ del' = [del EXCEPT ![w] = {}]
  /\ marked' = [marked EXCEPT ![w] = {}]
  /\ UNCHANGED <<table, tx, todo, want, ops, bound, lost>>

\* ECFileAttachment::Rollback: first the new files are removed, then the
\* marked ones are renamed back, except those the system refuses (stay).  A
\* file that is both was renamed and is not found, and comes back.
RollbackFiles(w) ==
  /\ pc[w] = "rollback"
  /\ \E stay \in SUBSET (new[w] \cup marked[w]) :
       LET back == marked[w] \ stay IN
       /\ file' = [i \in Instances |->
                      IF i \in back THEN "file"
                      ELSE IF i \in new[w] \ stay /\ file[i] = "file"
                      THEN "none" ELSE file[i]]
       /\ lost' = lost \cup (stay \cap marked[w])
       /\ leaked' = leaked \cup (stay \cap new[w]) \cup LeftRenamed(w, back)
  /\ Go(w, "undo")
  /\ new' = [new EXCEPT ![w] = {}]
  /\ del' = [del EXCEPT ![w] = {}]
  /\ marked' = [marked EXCEPT ![w] = {}]
  /\ UNCHANGED <<table, tx, todo, want, ops, bound>>

\* The database's Rollback.
RollbackRows(w) ==
  /\ pc[w] = "undo"
  /\ Close({w})
  /\ UNCHANGED <<table, file, sets, bound, ghost>>

\* The server dies: the database rolls every open transaction back, the disk
\* stays as it is and nobody looks at it again.
Crash ==
  /\ crashes < MaxCrashes
  /\ crashes' = crashes + 1
  /\ lost' = lost \cup
       {i \in Instances : \E w \in Workers :
                            \/ i \in marked[w]
                            \/ pc[w] = "commit" /\ i \in LostByHalf(w, file)}
  /\ leaked' = leaked \cup
       {i \in Instances : \E w \in Workers :
                            \/ i \in new[w]
                            \/ pc[w] = "commit" /\ i \in LeftByHalf(w, file)}
  /\ new' = [w \in Workers |-> {}]
  /\ del' = [w \in Workers |-> {}]
  /\ marked' = [w \in Workers |-> {}]
  /\ Close(Workers)
  /\ UNCHANGED <<table, file, begins>>

Next ==
  \/ \E w \in Workers :
       \/ Begin(w)
       \/ \E s \in Slots : StartSave(w, s)
       \/ \E s \in Slots, i \in Instances : StartLink(w, s, i)
       \/ \E S \in SUBSET Slots : StartDelete(w, S)
       \/ Replace(w) \/ Delete(w) \/ Put(w) \/ Check(w) \/ Link(w)
       \/ \E s, t \in Slots : Copy(w, s, t)
       \/ Fail(w)
       \/ CommitFiles(w) \/ CommitRows(w) \/ CommitFails(w)
       \/ RollbackFiles(w) \/ RollbackRows(w)
  \/ Crash

Spec == Init /\ [][Next]_vars

-----------------------------------------------------------------------------
(* Properties *)

Labels == {"idle", "open", "replace", "delete", "put", "link", "checked",
           "commit", "rollback", "undo"}

\* The type of every variable.
TypeOK ==
  /\ refs \in [Slots -> Instances \cup {None}]
  /\ next \in Nat
  /\ file \in [Instances -> {"none", "file", "deleted"}]
  /\ pc \in [Workers -> Labels]
  /\ snap \in [Workers -> [Slots -> Instances \cup {None}]]
  /\ wrote \in [Workers -> SUBSET Slots]
  /\ mine \in [Workers -> [Slots -> Instances \cup {None}]]
  /\ held \in [Workers -> SUBSET Slots]
  /\ todo \in [Workers -> SUBSET Slots]
  /\ want \in [Workers -> Instances \cup {None}]
  /\ new \in [Workers -> SUBSET Instances]
  /\ del \in [Workers -> SUBSET Instances]
  /\ marked \in [Workers -> SUBSET Instances]
  /\ ops \in [Workers -> Nat]
  /\ begins \in Nat /\ crashes \in Nat
  /\ lost \in SUBSET Instances /\ leaked \in SUBSET Instances

\* A committed row has its file: except while a transaction that replaces it
\* has it renamed, between the two commits of the one that drops the row, and
\* when it was lost in one of the ways of LostByHalf and LostByRace (or by
\* a rename back that the system refused, or a crash with the file renamed).
FileThere ==
  \A s \in Slots :
    refs[s] # None =>
      \/ file[refs[s]] = "file"
      \/ refs[s] \in lost
      \/ \E w \in Workers : refs[s] \in marked[w]
      \/ \E w \in Workers : pc[w] = "commit" /\ s \in wrote[w]

\* Every file on the disk is one that a committed row uses, or that an open
\* transaction is going to use or to remove, or it was left behind in one of
\* the ways of LeftByHalf, LeftByRace and LeftRenamed (or by a write, a removal
\* or a crash that stopped half way).  One lost under its other name stays for
\* ever.
NothingLeft ==
  \A i \in Instances :
    file[i] # "none" =>
      \/ i \in Used(refs)
      \/ i \in leaked
      \/ file[i] = "deleted" /\ i \in lost
      \/ \E w \in Workers :
           \/ i \in new[w] \cup marked[w]
           \/ pc[w] = "commit" /\ \E s \in wrote[w] : mine[w][s] = i

\* A file that was removed never comes back: an instance id that was given out
\* is not given out again, and a rollback brings back only what is there under
\* its other name (SaveAttachmentInstance and Rollback of ECFileAttachment).
GoneForGood ==
  [][\A i \in Instances : i < next /\ file[i] = "none" => file'[i] = "none"]_vars
=============================================================================
