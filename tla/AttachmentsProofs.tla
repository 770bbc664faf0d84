--------------------------- MODULE AttachmentsProofs ---------------------------
(***************************************************************************)
(* A committed row has its file, for any workers, slots, instances and     *)
(* bounds, but for the ways that FileThere names.                          *)
(*                                                                         *)
(* The commit of the files removes what a transaction has on its lists, so *)
(* nothing on them may be used by a row the transaction shows (Dropped),   *)
(* and every row a transaction has written must keep its file until it is  *)
(* committed (Pending).  The rollback of the files removes new files, so   *)
(* nobody else may use them (Unseen).                                      *)
(*                                                                         *)
(* And every file has a row that uses it, or somebody who will remove it,  *)
(* but for the ways that NothingLeft names: a request that takes the last  *)
(* row of an instance it sees has found the file, or there is none         *)
(* (Found), and a file that is renamed is one request's (MarkedAway); so   *)
(* a file that was removed does not come back.                             *)
(***************************************************************************)
EXTENDS Attachments, TLAPS

-----------------------------------------------------------------------------
(* The inductive invariant, for one worker and for what workers share. *)

Running == {"open", "replace", "delete", "put", "link", "checked"}

\* No id was given out that the database will give out again.
Below(w) == /\ \A s \in Slots : snap[w][s] < next /\ mine[w][s] < next
            /\ want[w] < next
            /\ \A i \in new[w] \cup del[w] \cup marked[w] : i < next

\* Where the lists are empty: outside of a transaction, once its files are
\* committed or rolled back, and while it does nothing but copy.
Quiet(w) == /\ pc[w] \in {"idle", "commit", "undo"} =>
                 new[w] = {} /\ del[w] = {} /\ marked[w] = {}
            /\ pc[w] = "idle" => wrote[w] = {} /\ held[w] = {} /\ ops[w] = 0
            /\ pc[w] \in Running \ {"open"} => held[w] = {} /\ ops[w] # 0
            /\ held[w] # {} \/ ops[w] = 0 => del[w] = {} /\ marked[w] = {}

\* The instance that is to be linked is used by another row in view.
Linked(w) == /\ pc[w] \in {"link", "checked"} => want[w] # None
             /\ pc[w] \in {"replace", "link", "checked"} /\ want[w] # None =>
                  \E t \in Slots \ todo[w] : View(w)[t] = want[w]

\* What a transaction is going to remove, no row in its view uses.
Dropped(w) == pc[w] \in Running =>
                \A s \in Slots : View(w)[s] \notin del[w] \cup marked[w]

Local(w) == Below(w) /\ Quiet(w) /\ Linked(w) /\ Dropped(w)

\* The instances whose file is there, or that somebody will account for.
Safe == {i \in Instances : \/ file[i] = "file"
                            \/ i \in lost
                            \/ \E w \in Workers : i \in marked[w]}

\* A row that is going to be committed has its file, and so has one for which
\* the file was found.
Pending(w) == /\ pc[w] \in Running \cup {"commit"} =>
                   \A s \in wrote[w] : mine[w][s] # None => mine[w][s] \in Safe
              /\ pc[w] = "checked" => want[w] \in Safe

\* A new instance is used, and seen, by its transaction alone.
Unseen ==
  \A w \in Workers : \A s \in Slots :
    /\ refs[s] \notin new[w]
    /\ \A v \in Workers : snap[v][s] \notin new[w]
    /\ \A v \in Workers \ {w} : mine[v][s] \notin new[w]

IInv == /\ TypeOK /\ \A s \in Slots : refs[s] < next
        /\ \A w \in Workers : Local(w) /\ Pending(w)
        /\ Unseen /\ FileThere

-----------------------------------------------------------------------------
(* What a step of one worker leaves alone. *)

Frame(w) == \A v \in Workers \ {w} :
              /\ pc'[v] = pc[v] /\ snap'[v] = snap[v] /\ wrote'[v] = wrote[v]
              /\ mine'[v] = mine[v] /\ held'[v] = held[v] /\ todo'[v] = todo[v]
              /\ want'[v] = want[v] /\ new'[v] = new[v] /\ del'[v] = del[v]
              /\ marked'[v] = marked[v] /\ ops'[v] = ops[v]

Keeps == Safe \subseteq Safe'

LEMMA IdsAreNumbers ==
  /\ \A i \in Instances \cup {None} : i \in Nat
  /\ \A i \in Instances : i # None
BY InstanceAssumption DEF Instances, None

LEMMA NoneBelow ==
  ASSUME TypeOK, NEW w \in Workers, Below(w)
  PROVE  None < next
<1>1. want[w] \in Nat /\ want[w] < next /\ next \in Nat
  BY IdsAreNumbers DEF TypeOK, Below
<1>. QED BY <1>1 DEF None

\* The other workers' part of the invariant does not see the step.
LEMMA OthersKeepLocal ==
  ASSUME TypeOK, next' \in Nat, next <= next', NEW w \in Workers, Frame(w),
         NEW v \in Workers \ {w}, Local(v)
  PROVE  Local(v)'
<1>0. /\ pc'[v] = pc[v] /\ snap'[v] = snap[v] /\ wrote'[v] = wrote[v]
      /\ mine'[v] = mine[v] /\ held'[v] = held[v] /\ todo'[v] = todo[v]
      /\ want'[v] = want[v] /\ new'[v] = new[v] /\ del'[v] = del[v]
      /\ marked'[v] = marked[v] /\ ops'[v] = ops[v]
  BY DEF Frame
<1>1. View(v)' = View(v)
  BY <1>0 DEF View
<1>2. \A s \in Slots : snap[v][s] \in Nat /\ mine[v][s] \in Nat
  <2>1. /\ snap[v] \in [Slots -> Instances \cup {None}]
        /\ mine[v] \in [Slots -> Instances \cup {None}]
    BY DEF TypeOK
  <2>. QED BY <2>1, IdsAreNumbers
<1>3. Below(v)'
  <2>1. want[v] \in Instances \cup {None} /\ next \in Nat
    BY DEF TypeOK
  <2>2. new[v] \cup del[v] \cup marked[v] \subseteq Nat
    BY IdsAreNumbers DEF TypeOK
  <2>. QED BY <1>0, <1>2, <2>1, <2>2, IdsAreNumbers DEF Local, Below
<1>4. Quiet(v)' /\ Linked(v)' /\ Dropped(v)'
  BY <1>0, <1>1 DEF Local, Quiet, Linked, Dropped, Running
<1>. QED BY <1>3, <1>4 DEF Local

\* A step that adds no row another's new instance is in, and whose own new
\* instances nobody has a row of, leaves new instances unseen.
LEMMA UnseenStays ==
  ASSUME Unseen, NEW w \in Workers, Frame(w),
         \A s \in Slots : \A v \in Workers \ {w} :
            /\ refs'[s] \notin new[v] /\ snap'[w][s] \notin new[v]
            /\ mine'[w][s] \notin new[v],
         \A s \in Slots :
            /\ refs'[s] \notin new'[w] /\ snap'[w][s] \notin new'[w]
            /\ \A v \in Workers \ {w} :
                 snap[v][s] \notin new'[w] /\ mine[v][s] \notin new'[w]
  PROVE  Unseen'
BY DEF Unseen, Frame

\* What the others are going to commit keeps its file if every file does.
LEMMA OthersKeep ==
  ASSUME IInv, TypeOK', NEW w \in Workers, Frame(w), Keeps, next <= next'
  PROVE  \A v \in Workers \ {w} : Local(v)' /\ Pending(v)'
<1>. SUFFICES ASSUME NEW v \in Workers \ {w} PROVE Local(v)' /\ Pending(v)'
  OBVIOUS
<1>1. Local(v)'
  BY OthersKeepLocal DEF IInv, TypeOK
<1>2. \A s \in wrote[v] : mine[v][s] # None => mine[v][s] \in Instances
  BY DEF IInv, TypeOK
<1>3. Pending(v)'
  <2>1. Pending(v) /\ Safe \subseteq Safe'
    BY DEF IInv, Keeps
  <2>. QED BY <1>2, <2>1 DEF Pending, Frame
<1>. QED BY <1>1, <1>3

\* What is left to show of a step that commits nothing and loses no file.
LEMMA PlainStep ==
  ASSUME IInv, TypeOK', NEW w \in Workers, Frame(w), Keeps, refs' = refs,
         next <= next', pc[w] # "commit",
         Local(w)', Pending(w)', Unseen'
  PROVE  IInv'
<1>1. \A s \in Slots : refs'[s] < next'
  <2>1. /\ next \in Nat /\ next' \in Nat
        /\ \A s \in Slots : refs[s] \in Instances \cup {None}
    BY DEF IInv, TypeOK
  <2>. QED BY <2>1, IdsAreNumbers DEF IInv
<1>2. \A v \in Workers \ {w} : Local(v)' /\ Pending(v)'
  BY OthersKeep
<1>3. FileThere'
  <2>1. \A s \in Slots : refs[s] # None => refs[s] \in Instances
    BY DEF IInv, TypeOK
  <2>. SUFFICES ASSUME NEW s \in Slots, refs[s] # None, refs[s] \notin Safe'
                PROVE  \E v \in Workers : pc'[v] = "commit" /\ s \in wrote'[v]
    BY DEF FileThere, Safe
  <2>2. refs[s] \notin Safe
    BY <2>1 DEF Keeps
  <2>3. PICK v \in Workers : pc[v] = "commit" /\ s \in wrote[v]
    BY <2>1, <2>2 DEF IInv, FileThere, Safe
  <2>. QED BY <2>3 DEF Frame
<1>. QED BY <1>1, <1>2, <1>3 DEF IInv

\* Where files, the lost and the marked are as before, nothing is lost.
LEMMA SameFilesKeep ==
  ASSUME file' = file, lost \subseteq lost', marked' = marked
  PROVE  Keeps
BY DEF Keeps, Safe

-----------------------------------------------------------------------------
(* What the operators of a removal do. *)

\* The rows of todo are written and empty afterwards; nothing else changes.
LEMMA RowsDropped ==
  ASSUME TypeOK, NEW w \in Workers, DropRows(w)
  PROVE  /\ wrote' \in [Workers -> SUBSET Slots]
         /\ mine' \in [Workers -> [Slots -> Instances \cup {None}]]
         /\ wrote'[w] = wrote[w] \cup todo[w]
         /\ \A s \in Slots :
              mine'[w][s] = IF s \in todo[w] THEN None ELSE mine[w][s]
         /\ \A v \in Workers \ {w} : wrote'[v] = wrote[v] /\ mine'[v] = mine[v]
BY DEF TypeOK, DropRows

\* An orphan has been given out and is in view at slots of todo only.
LEMMA OrphansAre ==
  ASSUME TypeOK, NEW w \in Workers, Below(w), NEW i \in Orphans(w)
  PROVE  /\ i \in Instances /\ i < next
         /\ \A s \in Slots \ todo[w] : View(w)[s] # i
<1>0. todo[w] \subseteq Slots
  BY DEF TypeOK
<1>1. PICK s \in todo[w] : View(w)[s] = i
  BY DEF Orphans
<1>2. i # None /\ \A t \in Slots \ todo[w] : View(w)[t] # i
  BY DEF Orphans
<1>3. View(w)[s] = IF s \in wrote[w] THEN mine[w][s] ELSE snap[w][s]
  BY <1>0 DEF View
<1>4. /\ mine[w][s] \in Instances \cup {None} /\ mine[w][s] < next
      /\ snap[w][s] \in Instances \cup {None} /\ snap[w][s] < next
  BY <1>0 DEF TypeOK, Below
<1>. QED BY <1>1, <1>2, <1>3, <1>4

\* Who has rows that are, or are not, a new instance.
LEMMA UnseenBefore ==
  ASSUME Unseen, NEW w \in Workers
  PROVE  /\ \A s \in Slots : \A v \in Workers \ {w} :
              /\ refs[s] \notin new[v] /\ snap[w][s] \notin new[v]
              /\ mine[w][s] \notin new[v]
         /\ \A s \in Slots :
              /\ refs[s] \notin new[w] /\ snap[w][s] \notin new[w]
              /\ \A v \in Workers \ {w} :
                   snap[v][s] \notin new[w] /\ mine[v][s] \notin new[w]
BY DEF Unseen

-----------------------------------------------------------------------------
(* One lemma per action.                                                   *)

\* Begin: the snapshot shows committed rows, and the lists are empty.
LEMMA BeginStep ==
  ASSUME IInv, NEW w \in Workers, Begin(w)
  PROVE  IInv'
<1>0. TypeOK /\ Local(w) /\ Unseen /\ \A s \in Slots : refs[s] < next
  BY DEF IInv
<1>1. TypeOK'
  BY <1>0 DEF TypeOK, Begin, Go, Labels, table, tx, sets, ghost
<1>2. /\ pc[w] = "idle" /\ pc'[w] = "open" /\ snap'[w] = refs
      /\ UNCHANGED <<refs, next, file, wrote, mine, held, todo, want, new, del,
                     marked, ops, lost>>
  BY <1>0 DEF TypeOK, Begin, Go, table, tx, sets, ghost
<1>3. Frame(w)
  BY <1>0 DEF TypeOK, Begin, Go, Frame, tx, sets
<1>4. Local(w)'
  <2>1. Below(w)'
    BY <1>0, <1>2 DEF Local, Below
  <2>2. Quiet(w)' /\ Linked(w)' /\ Dropped(w)'
    BY <1>0, <1>2 DEF Local, Quiet, Linked, Dropped, Running
  <2>. QED BY <2>1, <2>2 DEF Local
<1>5. Pending(w)'
  BY <1>0, <1>2 DEF Pending, Local, Quiet
<1>6. Unseen'
  BY <1>0, <1>2, <1>3, UnseenStays, UnseenBefore
<1>7. Keeps
  BY <1>2, SameFilesKeep
<1>. QED BY <1>0, <1>1, <1>2, <1>3, <1>4, <1>5, <1>6, <1>7, PlainStep DEF TypeOK

\* StartOn: the instance that may be linked is in view at another slot.
LEMMA StartOnStep ==
  ASSUME IInv, NEW w \in Workers, NEW S \in SUBSET Slots,
         NEW i \in Instances \cup {None}, NEW l \in Running \ {"open"},
         StartOn(w, S, i, l), i < next, l # "checked", l = "link" => i # None,
         l \in {"replace", "link"} /\ i # None =>
           \E t \in Slots \ S : View(w)[t] = i
  PROVE  IInv'
<1>0. TypeOK /\ Local(w) /\ Pending(w) /\ Unseen
  BY DEF IInv
<1>1. TypeOK'
  BY <1>0
  DEF TypeOK, StartOn, Go, Labels, Running, table, tx, sets, bound, ghost
<1>2. /\ pc[w] = "open" /\ pc'[w] = l /\ todo'[w] = S /\ want'[w] = i
      /\ held[w] = {} /\ ops'[w] = ops[w] + 1 /\ ops[w] \in Nat
      /\ UNCHANGED <<refs, next, file, snap, wrote, mine, held, new, del,
                     marked, lost>>
  BY <1>0 DEF TypeOK, StartOn, Go, table, tx, sets, ghost
<1>3. Frame(w)
  BY <1>0 DEF TypeOK, StartOn, Go, Frame, tx, sets
<1>4. Local(w)'
  <2>1. Below(w)'
    BY <1>0, <1>2 DEF Local, Below
  <2>2. View(w)' = View(w)
    BY <1>2 DEF View
  <2>3. Quiet(w)' /\ Dropped(w)'
    BY <1>0, <1>2, <2>2 DEF Local, Quiet, Dropped, Running
  <2>4. Linked(w)'
    BY <1>2, <2>2 DEF Linked
  <2>. QED BY <2>1, <2>3, <2>4 DEF Local
<1>5. Pending(w)'
  BY <1>0, <1>2 DEF Pending, Safe, Running
<1>6. Unseen'
  BY <1>0, <1>2, <1>3, UnseenStays, UnseenBefore
<1>7. Keeps
  BY <1>2, SameFilesKeep
<1>. QED BY <1>0, <1>1, <1>2, <1>3, <1>4, <1>5, <1>6, <1>7, PlainStep DEF TypeOK

\* Replace: an orphan is no longer in view when its file is renamed.
LEMMA ReplaceStep ==
  ASSUME IInv, NEW w \in Workers, Replace(w)
  PROVE  IInv'
<1>0. TypeOK /\ Local(w) /\ Pending(w) /\ Unseen /\ Below(w) /\ DropRows(w)
  BY DEF IInv, Local, Replace
<1>a. /\ wrote'[w] = wrote[w] \cup todo[w]
      /\ \A s \in Slots :
           mine'[w][s] = IF s \in todo[w] THEN None ELSE mine[w][s]
      /\ wrote' \in [Workers -> SUBSET Slots]
      /\ mine' \in [Workers -> [Slots -> Instances \cup {None}]]
      /\ \A v \in Workers \ {w} : wrote'[v] = wrote[v] /\ mine'[v] = mine[v]
  BY <1>0, RowsDropped
<1>b. \A i \in Orphans(w) :
        /\ i \in Instances /\ i < next
        /\ \A s \in Slots \ todo[w] : View(w)[s] # i
  BY <1>0, OrphansAre
<1>c. PICK here \in SUBSET Orphans(w) :
        /\ file' = [i \in Instances |->
                      IF i \in here THEN "deleted" ELSE file[i]]
        /\ marked' = [marked EXCEPT ![w] = @ \cup here]
  BY DEF Replace
<1>2. /\ pc[w] = "replace"
      /\ pc'[w] = (IF want[w] = None THEN "put" ELSE "link")
      /\ marked'[w] = marked[w] \cup here
      /\ UNCHANGED <<refs, next, snap, held, todo, want, new, del, ops, lost>>
  BY <1>0, <1>c DEF TypeOK, Replace, Go, table, ghost
<1>1. TypeOK'
  <2>1. /\ file' \in [Instances -> {"none", "file", "deleted"}]
        /\ marked' \in [Workers -> SUBSET Instances]
    BY <1>0, <1>b, <1>c DEF TypeOK
  <2>2. pc' \in [Workers -> Labels]
    BY <1>0 DEF TypeOK, Replace, Go, Labels
  <2>. QED BY <1>0, <1>a, <2>1, <2>2 DEF TypeOK, Replace, table, bound, ghost
<1>3. Frame(w)
  BY <1>0, <1>a, <1>c DEF TypeOK, Replace, Go, Frame
<1>v. \A s \in Slots :
        View(w)'[s] = IF s \in todo[w] THEN None ELSE View(w)[s]
  BY <1>a, <1>2 DEF View
<1>4. Local(w)'
  <2>1. \A s \in Slots : mine'[w][s] < next
    BY <1>0, <1>a, NoneBelow DEF Below
  <2>6. Below(w)'
    BY <1>0, <1>b, <1>2, <2>1 DEF Below
  <2>2. Quiet(w)'
    BY <1>0, <1>2 DEF Local, Quiet, Running
  <2>3. Linked(w)'
    BY <1>0, <1>2, <1>v DEF Local, Linked
  <2>4. None \notin del[w] \cup marked[w] \cup here
    BY <1>0, <1>b, IdsAreNumbers DEF TypeOK
  <2>5. Dropped(w)'
    BY <1>0, <1>b, <1>2, <1>v, <2>4 DEF Local, Dropped, Running
  <2>. QED BY <2>6, <2>2, <2>3, <2>5 DEF Local
<1>7. Keeps
  <2>1. \A i \in Instances : i \notin here => file'[i] = file[i]
    BY <1>c
  <2>2. \A v \in Workers : marked[v] \subseteq marked'[v]
    BY <1>2, <1>3 DEF Frame
  <2>. QED BY <1>2, <2>1, <2>2 DEF Keeps, Safe
<1>5. Pending(w)'
  <2>1. \A s \in wrote'[w] : mine'[w][s] # None => s \in wrote[w] /\ s \in Slots
    BY <1>0, <1>a DEF TypeOK
  <2>2. \A s \in wrote[w] : mine[w][s] # None => mine[w][s] \in Instances
    BY <1>0 DEF TypeOK
  <2>. QED BY <1>0, <1>a, <1>2, <1>7, <2>1, <2>2 DEF Pending, Keeps, Running
<1>6. Unseen'
  <2>1. \A v \in Workers : None \notin new[v]
    BY <1>0, IdsAreNumbers DEF TypeOK
  <2>2. \A s \in Slots : \A v \in Workers \ {w} : mine'[w][s] \notin new[v]
    BY <1>0, <1>a, <2>1, UnseenBefore
  <2>. QED BY <1>0, <1>2, <1>3, <2>2, UnseenStays, UnseenBefore
<1>. QED BY <1>0, <1>1, <1>2, <1>3, <1>4, <1>5, <1>6, <1>7, PlainStep DEF TypeOK

\* Delete: an orphan is no longer in view when it is on the list.
LEMMA DeleteStep ==
  ASSUME IInv, NEW w \in Workers, Delete(w)
  PROVE  IInv'
<1>0. TypeOK /\ Local(w) /\ Pending(w) /\ Unseen /\ Below(w) /\ DropRows(w)
  BY DEF IInv, Local, Delete
<1>a. /\ wrote'[w] = wrote[w] \cup todo[w]
      /\ \A s \in Slots :
           mine'[w][s] = IF s \in todo[w] THEN None ELSE mine[w][s]
      /\ wrote' \in [Workers -> SUBSET Slots]
      /\ mine' \in [Workers -> [Slots -> Instances \cup {None}]]
      /\ \A v \in Workers \ {w} : wrote'[v] = wrote[v] /\ mine'[v] = mine[v]
  BY <1>0, RowsDropped
<1>b. \A i \in Orphans(w) :
        /\ i \in Instances /\ i < next
        /\ \A s \in Slots \ todo[w] : View(w)[s] # i
  BY <1>0, OrphansAre
<1>2. /\ pc[w] = "delete" /\ pc'[w] = "open" /\ todo'[w] = {}
      /\ del'[w] = del[w] \cup Orphans(w)
      /\ UNCHANGED <<refs, next, file, snap, held, want, new, marked, ops,
                     lost>>
  BY <1>0 DEF TypeOK, Delete, Go, table, ghost
<1>1. TypeOK'
  <2>1. del' \in [Workers -> SUBSET Instances]
    BY <1>0, <1>b DEF TypeOK, Delete
  <2>2. pc' \in [Workers -> Labels] /\ todo' \in [Workers -> SUBSET Slots]
    BY <1>0 DEF TypeOK, Delete, Go, Labels
  <2>. QED BY <1>0, <1>a, <2>1, <2>2 DEF TypeOK, Delete, table, bound, ghost
<1>3. Frame(w)
  BY <1>0, <1>a DEF TypeOK, Delete, Go, Frame
<1>v. \A s \in Slots :
        View(w)'[s] = IF s \in todo[w] THEN None ELSE View(w)[s]
  BY <1>a, <1>2 DEF View
<1>4. Local(w)'
  <2>1. \A s \in Slots : mine'[w][s] < next
    BY <1>0, <1>a, NoneBelow DEF Below
  <2>2. Below(w)'
    BY <1>0, <1>b, <1>2, <2>1 DEF Below
  <2>3. Quiet(w)' /\ Linked(w)'
    BY <1>0, <1>2 DEF Local, Quiet, Linked, Running
  <2>4. None \notin del[w] \cup marked[w] \cup Orphans(w)
    BY <1>0, <1>b, IdsAreNumbers DEF TypeOK
  <2>5. Dropped(w)'
    BY <1>0, <1>b, <1>2, <1>v, <2>4 DEF Local, Dropped, Running
  <2>. QED BY <2>2, <2>3, <2>5 DEF Local
<1>5. Pending(w)'
  BY <1>0, <1>a, <1>2 DEF Pending, Safe, TypeOK, Running
<1>6. Unseen'
  <2>1. \A v \in Workers : None \notin new[v]
    BY <1>0, IdsAreNumbers DEF TypeOK
  <2>2. \A s \in Slots : \A v \in Workers \ {w} : mine'[w][s] \notin new[v]
    BY <1>0, <1>a, <2>1, UnseenBefore
  <2>. QED BY <1>0, <1>2, <1>3, <2>2, UnseenStays, UnseenBefore
<1>7. Keeps
  BY <1>2, SameFilesKeep
<1>. QED BY <1>0, <1>1, <1>2, <1>3, <1>4, <1>5, <1>6, <1>7, PlainStep DEF TypeOK

\* Put: the id is new to everybody.
LEMMA PutStep ==
  ASSUME IInv, NEW w \in Workers, Put(w)
  PROVE  IInv'
<1>0. /\ TypeOK /\ Local(w) /\ Pending(w) /\ Unseen /\ Below(w)
      /\ \A s \in Slots : refs[s] < next
      /\ \A v \in Workers : Below(v)
  BY DEF IInv, Local
<1>a. PICK made \in BOOLEAN, known \in BOOLEAN, ok \in BOOLEAN :
        /\ ok => made /\ known
        /\ file' = [file EXCEPT ![next] = IF made THEN "file" ELSE @]
        /\ new' = [new EXCEPT ![w] = IF known THEN @ \cup {next} ELSE @]
        /\ leaked' = IF made /\ ~known THEN leaked \cup {next} ELSE leaked
        /\ Go(w, IF ok THEN "open" ELSE "rollback")
  BY DEF Put
<1>2. /\ pc[w] = "put" /\ pc'[w] = (IF ok THEN "open" ELSE "rollback")
      /\ next \in Instances /\ next' = next + 1 /\ todo'[w] = {}
      /\ wrote'[w] = wrote[w] \cup todo[w]
      /\ \A s \in Slots :
           mine'[w][s] = IF s \in todo[w] THEN next ELSE mine[w][s]
      /\ new'[w] \subseteq new[w] \cup {next}
      /\ UNCHANGED <<refs, snap, held, want, del, marked, ops, lost>>
  BY <1>0, <1>a DEF TypeOK, Put, Go
<1>1. TypeOK'
  <2>1. /\ pc' \in [Workers -> Labels] /\ leaked' \in SUBSET Instances
        /\ new' \in [Workers -> SUBSET Instances]
        /\ file' \in [Instances -> {"none", "file", "deleted"}]
    BY <1>0, <1>a, <1>2 DEF TypeOK, Go, Labels
  <2>2. /\ mine' \in [Workers -> [Slots -> Instances \cup {None}]]
        /\ wrote' \in [Workers -> SUBSET Slots]
        /\ todo' \in [Workers -> SUBSET Slots] /\ next' \in Nat
    BY <1>0, <1>2 DEF TypeOK, Put
  <2>. QED BY <1>0, <2>1, <2>2 DEF TypeOK, Put, bound
<1>3. Frame(w)
  BY <1>0, <1>a DEF TypeOK, Put, Go, Frame
<1>v. \A s \in Slots :
        View(w)'[s] = IF s \in todo[w] THEN next ELSE View(w)[s]
  BY <1>2 DEF View
<1>f. /\ \A s \in Slots : refs[s] # next
      /\ \A v \in Workers : \A s \in Slots :
           snap[v][s] # next /\ mine[v][s] # next
      /\ \A v \in Workers : \A i \in new[v] \cup del[v] \cup marked[v] :
           i # next
  <2>1. next \in Nat
    BY <1>0 DEF TypeOK
  <2>. QED BY <1>0, <2>1 DEF Below
<1>4. Local(w)'
  <2>1. Below(w)'
    <3>1. /\ \A s \in Slots : snap[w][s] \in Nat /\ mine[w][s] \in Nat
          /\ want[w] \in Nat /\ next \in Nat
      BY <1>0, IdsAreNumbers DEF TypeOK
    <3>2. \A i \in new[w] \cup del[w] \cup marked[w] : i \in Nat
      BY <1>0, IdsAreNumbers DEF TypeOK
    <3>. QED BY <1>0, <1>2, <3>1, <3>2 DEF Below
  <2>2. Quiet(w)' /\ Linked(w)'
    BY <1>0, <1>2 DEF Local, Quiet, Linked, Running
  <2>3. Dropped(w)'
    BY <1>0, <1>2, <1>v, <1>f DEF Local, Dropped, Running
  <2>. QED BY <2>1, <2>2, <2>3 DEF Local
<1>7. Keeps
  <2>1. \A i \in Instances : file[i] = "file" => file'[i] = "file"
    BY <1>0, <1>a DEF TypeOK
  <2>. QED BY <1>2, <2>1 DEF Keeps, Safe
<1>5. Pending(w)'
  <2>. SUFFICES ASSUME ok, NEW s \in wrote'[w], NEW i, i = mine'[w][s], i # None
                PROVE  i \in Safe'
    <3>1. /\ pc'[w] \in Running \cup {"commit"} => ok
          /\ pc'[w] # "checked"
      BY <1>2 DEF Running
    <3>. QED BY <3>1 DEF Pending
  <2>0. s \in Slots
    BY <1>0, <1>2 DEF TypeOK
  <2>1. CASE s \in todo[w]
    <3>1. file'[i] = "file"
      BY <1>0, <1>a, <1>2, <2>0, <2>1 DEF TypeOK
    <3>. QED BY <1>2, <2>0, <2>1, <3>1 DEF Safe
  <2>2. CASE s \notin todo[w]
    <3>1. /\ s \in wrote[w] /\ i = mine[w][s] /\ i \in Instances
      BY <1>0, <1>2, <2>0, <2>2 DEF TypeOK
    <3>. QED BY <1>0, <1>2, <1>7, <3>1 DEF Pending, Keeps, Running
  <2>. QED BY <2>1, <2>2
<1>6. Unseen'
  <2>1. \A s \in Slots : \A v \in Workers \ {w} :
          /\ refs'[s] \notin new[v] /\ snap'[w][s] \notin new[v]
          /\ mine'[w][s] \notin new[v]
    BY <1>0, <1>2, <1>f, UnseenBefore
  <2>2. \A s \in Slots :
          /\ refs'[s] \notin new'[w] /\ snap'[w][s] \notin new'[w]
          /\ \A v \in Workers \ {w} :
               snap[v][s] \notin new'[w] /\ mine[v][s] \notin new'[w]
    BY <1>0, <1>2, <1>f, UnseenBefore
  <2>. QED BY <1>0, <1>3, <2>1, <2>2, UnseenStays
<1>8. next <= next'
  BY <1>0, <1>2 DEF TypeOK
<1>. QED BY <1>1, <1>2, <1>3, <1>4, <1>5, <1>6, <1>7, <1>8, PlainStep

\* Check: the file is there.
LEMMA CheckStep ==
  ASSUME IInv, NEW w \in Workers, Check(w)
  PROVE  IInv'
<1>0. TypeOK /\ Local(w) /\ Pending(w) /\ Unseen
  BY DEF IInv
<1>1. TypeOK'
  BY <1>0 DEF TypeOK, Check, Go, Labels, table, tx, sets, bound, ghost
<1>2. /\ pc[w] = "link" /\ pc'[w] = "checked" /\ file[want[w]] = "file"
      /\ UNCHANGED <<refs, next, file, snap, wrote, mine, held, todo, want, new,
                     del, marked, ops, lost>>
  BY <1>0 DEF TypeOK, Check, Go, table, tx, sets, ghost
<1>3. Frame(w)
  BY <1>0 DEF TypeOK, Check, Go, Frame, tx, sets
<1>v. View(w)' = View(w)
  BY <1>2 DEF View
<1>4. Local(w)'
  <2>1. Below(w)'
    BY <1>0, <1>2 DEF Local, Below
  <2>2. Quiet(w)' /\ Linked(w)' /\ Dropped(w)'
    BY <1>0, <1>2, <1>v DEF Local, Quiet, Linked, Dropped, Running
  <2>. QED BY <2>1, <2>2 DEF Local
<1>7. Keeps
  BY <1>2, SameFilesKeep
<1>5. Pending(w)'
  <2>1. want[w] \in Instances
    BY <1>0, <1>2 DEF Local, Linked, TypeOK
  <2>2. \A s \in wrote[w] : mine[w][s] # None => mine[w][s] \in Instances
    BY <1>0 DEF TypeOK
  <2>3. want[w] \in Safe'
    BY <1>2, <2>1 DEF Safe
  <2>. QED BY <1>0, <1>2, <1>7, <2>2, <2>3 DEF Pending, Keeps, Running
<1>6. Unseen'
  BY <1>0, <1>2, <1>3, UnseenStays, UnseenBefore
<1>. QED BY <1>0, <1>1, <1>2, <1>3, <1>4, <1>5, <1>6, <1>7, PlainStep DEF TypeOK

\* Link: the instance is in view, so it is on no list and nobody's new one, and
\* what has become of its file since it was found is accounted for.
LEMMA LinkStep ==
  ASSUME IInv, NEW w \in Workers, Link(w)
  PROVE  IInv'
<1>0. TypeOK /\ Local(w) /\ Pending(w) /\ Unseen /\ Below(w)
  BY DEF IInv, Local
<1>2. /\ pc[w] = "checked" /\ pc'[w] = "open" /\ todo'[w] = {}
      /\ want'[w] = None /\ wrote'[w] = wrote[w] \cup todo[w]
      /\ \A s \in Slots :
           mine'[w][s] = IF s \in todo[w] THEN want[w] ELSE mine[w][s]
      /\ UNCHANGED <<refs, next, file, snap, held, new, del, marked, ops, lost>>
  BY <1>0 DEF TypeOK, Link, Go, table, sets, ghost
<1>1. TypeOK'
  <2>1. /\ pc' \in [Workers -> Labels] /\ todo' \in [Workers -> SUBSET Slots]
        /\ want' \in [Workers -> Instances \cup {None}]
        /\ wrote' \in [Workers -> SUBSET Slots]
    BY <1>0 DEF TypeOK, Link, Go, Labels
  <2>2. mine' \in [Workers -> [Slots -> Instances \cup {None}]]
    BY <1>0 DEF TypeOK, Link
  <2>. QED BY <1>0, <2>1, <2>2 DEF TypeOK, Link, table, sets, bound, ghost
<1>3. Frame(w)
  BY <1>0 DEF TypeOK, Link, Go, Frame, sets
<1>v. \A s \in Slots :
        View(w)'[s] = IF s \in todo[w] THEN want[w] ELSE View(w)[s]
  BY <1>2 DEF View
<1>t. PICK t \in Slots : View(w)[t] = want[w]
  BY <1>0, <1>2 DEF Local, Linked
<1>4. Local(w)'
  <2>1. Below(w)'
    BY <1>0, <1>2, <1>t, NoneBelow DEF Below
  <2>2. Quiet(w)' /\ Linked(w)'
    BY <1>0, <1>2 DEF Local, Quiet, Linked, Running
  <2>3. Dropped(w)'
    BY <1>0, <1>2, <1>v, <1>t DEF Local, Dropped, Running
  <2>. QED BY <2>1, <2>2, <2>3 DEF Local
<1>7. Keeps
  BY <1>2, SameFilesKeep
<1>5. Pending(w)'
  <2>1. want[w] \in Safe'
    BY <1>0, <1>2, <1>7 DEF Pending, Keeps
  <2>2. \A s \in wrote[w] : mine[w][s] # None => mine[w][s] \in Safe'
    BY <1>0, <1>2, <1>7 DEF Pending, Keeps, Running
  <2>3. wrote[w] \cup todo[w] \subseteq Slots
    BY <1>0 DEF TypeOK
  <2>. QED BY <1>2, <2>1, <2>2, <2>3 DEF Pending
<1>6. Unseen'
  <2>1. \A v \in Workers \ {w} : want[w] \notin new[v]
    BY <1>0, <1>t, UnseenBefore DEF View
  <2>. QED BY <1>0, <1>2, <1>3, <2>1, UnseenStays, UnseenBefore
<1>. QED BY <1>0, <1>1, <1>2, <1>3, <1>4, <1>5, <1>6, <1>7, PlainStep DEF TypeOK

\* Copy: the row that is read is committed, or the transaction's own; a
\* request that copies has nothing on its lists.
LEMMA CopyStep ==
  ASSUME IInv, NEW w \in Workers, NEW s \in Slots, NEW t \in Slots,
         Copy(w, s, t)
  PROVE  IInv'
<1>0. TypeOK /\ Local(w) /\ Pending(w) /\ Unseen /\ Below(w) /\ FileThere
  BY DEF IInv, Local
<1>r. PICK i \in Instances :
        /\ i = Merged(w)[s]
        /\ i = IF s \in wrote[w] THEN mine[w][s] ELSE refs[s]
  BY <1>0 DEF TypeOK, Merged, Copy
<1>2. /\ pc[w] = "open" /\ wrote'[w] = wrote[w] \cup {t}
      /\ \A r \in Slots : mine'[w][r] = IF r = t THEN i ELSE mine[w][r]
      /\ ops[w] \in Nat /\ ops'[w] = ops[w] + 1 /\ held'[w] = held[w] \cup {s}
      /\ UNCHANGED <<refs, next, file, pc, snap, todo, want, new, del, marked,
                     lost>>
  BY <1>0, <1>r DEF TypeOK, Copy, table, sets, ghost
<1>e. del[w] = {} /\ marked[w] = {} /\ i < next
  BY <1>0, <1>r DEF Copy, Local, Quiet, Below, IInv
<1>1. TypeOK'
  <2>1. /\ held' \in [Workers -> SUBSET Slots]
        /\ wrote' \in [Workers -> SUBSET Slots] /\ ops' \in [Workers -> Nat]
    BY <1>0 DEF TypeOK, Copy
  <2>2. mine' \in [Workers -> [Slots -> Instances \cup {None}]]
    BY <1>0, <1>r DEF TypeOK, Copy
  <2>. QED BY <1>0, <2>1, <2>2 DEF TypeOK, Copy, table, sets, bound, ghost
<1>3. Frame(w)
  BY <1>0 DEF TypeOK, Copy, Frame, sets
<1>4. Local(w)'
  <2>1. Below(w)'
    BY <1>0, <1>2, <1>e DEF Below
  <2>2. Quiet(w)' /\ Linked(w)' /\ Dropped(w)'
    BY <1>0, <1>2, <1>e DEF Local, Quiet, Linked, Dropped, Running
  <2>. QED BY <2>1, <2>2 DEF Local
<1>5. Pending(w)'
  <2>1. i \in Safe
    <3>1. CASE s \in wrote[w]
      BY <1>0, <1>r, <1>2, <3>1, IdsAreNumbers DEF Pending, Running
    <3>2. CASE s \notin wrote[w]
      <4>1. ~ \E v \in Workers : pc[v] = "commit" /\ s \in wrote[v]
        BY <1>2, <3>2 DEF Copy, MayRead
      <4>. QED BY <1>0, <1>r, <3>2, <4>1, IdsAreNumbers DEF FileThere, Safe
    <3>. QED BY <3>1, <3>2
  <2>. QED BY <1>0, <1>2, <2>1 DEF Pending, Safe, TypeOK, Running
<1>6. Unseen'
  <2>1. \A v \in Workers \ {w} : i \notin new[v]
    BY <1>0, <1>r, UnseenBefore
  <2>. QED BY <1>0, <1>2, <1>3, <2>1, UnseenStays, UnseenBefore
<1>7. Keeps
  BY <1>2, SameFilesKeep
<1>. QED BY <1>0, <1>1, <1>2, <1>3, <1>4, <1>5, <1>6, <1>7, PlainStep DEF TypeOK

\* Fail: only the label changes.
LEMMA FailStep ==
  ASSUME IInv, NEW w \in Workers, Fail(w)
  PROVE  IInv'
<1>0. TypeOK /\ Local(w) /\ Unseen
  BY DEF IInv
<1>1. TypeOK'
  BY <1>0 DEF TypeOK, Fail, Go, Labels, table, tx, sets, bound, ghost
<1>2. /\ pc'[w] = "rollback" /\ pc[w] # "commit"
      /\ UNCHANGED <<refs, next, file, snap, wrote, mine, held, todo, want, new,
                     del, marked, ops, lost>>
  BY <1>0 DEF TypeOK, Fail, Go, table, tx, sets, ghost
<1>3. Frame(w)
  BY <1>0 DEF TypeOK, Fail, Go, Frame, tx, sets
<1>4. Local(w)' /\ Pending(w)'
  <2>1. Below(w)'
    BY <1>0, <1>2 DEF Local, Below
  <2>. QED BY <1>0, <1>2, <2>1
           DEF Local, Quiet, Linked, Dropped, Pending, Running
<1>5. Unseen'
  BY <1>0, <1>2, <1>3, UnseenStays, UnseenBefore
<1>6. Keeps
  BY <1>2, SameFilesKeep
<1>. QED BY <1>0, <1>1, <1>2, <1>3, <1>4, <1>5, <1>6, PlainStep DEF TypeOK

-----------------------------------------------------------------------------
(* The ends of a transaction. *)

Closed(w) == /\ pc'[w] = "idle" /\ wrote'[w] = {} /\ held'[w] = {}
             /\ todo'[w] = {} /\ want'[w] = None /\ ops'[w] = 0
             /\ \A s \in Slots : snap'[w][s] = None /\ mine'[w][s] = None

LEMMA CloseCloses ==
  ASSUME TypeOK, NEW W \in SUBSET Workers, Close(W)
  PROVE  /\ \A v \in W : Closed(v)
         /\ \A v \in Workers \ W :
              /\ pc'[v] = pc[v] /\ snap'[v] = snap[v] /\ wrote'[v] = wrote[v]
              /\ mine'[v] = mine[v] /\ held'[v] = held[v] /\ todo'[v] = todo[v]
              /\ want'[v] = want[v] /\ ops'[v] = ops[v]
         /\ pc' \in [Workers -> Labels]
         /\ snap' \in [Workers -> [Slots -> Instances \cup {None}]]
         /\ mine' \in [Workers -> [Slots -> Instances \cup {None}]]
         /\ wrote' \in [Workers -> SUBSET Slots]
         /\ held' \in [Workers -> SUBSET Slots]
         /\ todo' \in [Workers -> SUBSET Slots]
         /\ want' \in [Workers -> Instances \cup {None}]
         /\ ops' \in [Workers -> Nat]
<1>1. /\ \A v \in W : Closed(v)
      /\ \A v \in Workers \ W :
           /\ pc'[v] = pc[v] /\ snap'[v] = snap[v] /\ wrote'[v] = wrote[v]
           /\ mine'[v] = mine[v] /\ held'[v] = held[v] /\ todo'[v] = todo[v]
           /\ want'[v] = want[v] /\ ops'[v] = ops[v]
  BY DEF Close, Closed
<1>2. /\ pc' \in [Workers -> Labels]
      /\ wrote' \in [Workers -> SUBSET Slots]
      /\ held' \in [Workers -> SUBSET Slots]
      /\ todo' \in [Workers -> SUBSET Slots]
      /\ want' \in [Workers -> Instances \cup {None}]
      /\ ops' \in [Workers -> Nat]
  BY DEF Close, TypeOK, Labels
<1>3. /\ snap' \in [Workers -> [Slots -> Instances \cup {None}]]
      /\ mine' \in [Workers -> [Slots -> Instances \cup {None}]]
  BY DEF Close, TypeOK
<1>. QED BY <1>1, <1>2, <1>3

LEMMA ClosedLocal ==
  ASSUME TypeOK, NEW w \in Workers, Below(w), Closed(w), next' = next,
         new'[w] = {}, del'[w] = {}, marked'[w] = {}
  PROVE  Local(w)' /\ Pending(w)'
<1>1. Below(w)'
  BY NoneBelow DEF Below, Closed
<1>2. Quiet(w)' /\ Linked(w)' /\ Dropped(w)' /\ Pending(w)'
  BY DEF Quiet, Linked, Dropped, Pending, Closed, Running
<1>. QED BY <1>1, <1>2 DEF Local

\* A transaction that has committed or rolled back its files is closed: what
\* that means to everybody but FileThere.
LEMMA EndStep ==
  ASSUME IInv, NEW w \in Workers, pc[w] \in {"commit", "undo"}, Close({w}),
         UNCHANGED <<next, file, sets, bound>>,
         lost \subseteq lost', lost' \in SUBSET Instances,
         leaked' \in SUBSET Instances,
         refs' = refs \/ refs' = Merged(w)
  PROVE  /\ TypeOK' /\ Frame(w) /\ Keeps /\ Closed(w)
         /\ \A s \in Slots : refs'[s] < next'
         /\ \A v \in Workers : Local(v)' /\ Pending(v)'
         /\ Unseen'
<1>0. TypeOK /\ Local(w) /\ Below(w) /\ Quiet(w) /\ Unseen
  BY DEF IInv, Local
<1>1. /\ \A v \in {w} : Closed(v)
      /\ \A v \in Workers \ {w} :
           /\ pc'[v] = pc[v] /\ snap'[v] = snap[v] /\ wrote'[v] = wrote[v]
           /\ mine'[v] = mine[v] /\ held'[v] = held[v] /\ todo'[v] = todo[v]
           /\ want'[v] = want[v] /\ ops'[v] = ops[v]
      /\ pc' \in [Workers -> Labels]
      /\ snap' \in [Workers -> [Slots -> Instances \cup {None}]]
      /\ mine' \in [Workers -> [Slots -> Instances \cup {None}]]
      /\ wrote' \in [Workers -> SUBSET Slots]
      /\ held' \in [Workers -> SUBSET Slots]
      /\ todo' \in [Workers -> SUBSET Slots]
      /\ want' \in [Workers -> Instances \cup {None}]
      /\ ops' \in [Workers -> Nat]
  BY <1>0, CloseCloses
<1>2. Closed(w)
  BY <1>1
<1>3. Frame(w)
  BY <1>1 DEF Frame, sets
<1>4. refs' \in [Slots -> Instances \cup {None}]
  <2>1. /\ mine[w] \in [Slots -> Instances \cup {None}]
        /\ refs \in [Slots -> Instances \cup {None}]
    BY <1>0 DEF TypeOK
  <2>2. Merged(w) \in [Slots -> Instances \cup {None}]
    BY <2>1 DEF Merged
  <2>. QED BY <2>1, <2>2
<1>5. TypeOK'
  BY <1>0, <1>1, <1>4 DEF TypeOK, sets, bound
<1>6. Keeps
  BY SameFilesKeep DEF sets
<1>7. \A s \in Slots : refs'[s] = refs[s] \/ refs'[s] = mine[w][s]
  BY DEF Merged
<1>8. \A s \in Slots : refs'[s] < next'
  BY <1>0, <1>7 DEF IInv, Below
<1>9. /\ new[w] = {} /\ del[w] = {} /\ marked[w] = {}
      /\ new' = new /\ del' = del /\ marked' = marked
  BY <1>0 DEF Quiet, sets
<1>10. Local(w)' /\ Pending(w)'
  BY <1>0, <1>2, <1>9, ClosedLocal
<1>11. \A v \in Workers \ {w} : Local(v)' /\ Pending(v)'
  BY <1>3, <1>5, <1>6, <1>0, OthersKeep DEF TypeOK
<1>12. Unseen'
  <2>1. \A v \in Workers : None \notin new[v]
    BY <1>0, IdsAreNumbers DEF TypeOK
  <2>2. \A s \in Slots : \A v \in Workers \ {w} :
          /\ refs'[s] \notin new[v] /\ snap'[w][s] \notin new[v]
          /\ mine'[w][s] \notin new[v]
    BY <1>0, <1>2, <1>7, <2>1, UnseenBefore DEF Closed
  <2>. QED BY <1>0, <1>3, <1>9, <2>2, UnseenStays
<1>. QED BY <1>2, <1>3, <1>5, <1>6, <1>8, <1>10, <1>11, <1>12

\* RollbackRows: rows and files are as before.
LEMMA RollbackRowsStep ==
  ASSUME IInv, NEW w \in Workers, RollbackRows(w)
  PROVE  IInv'
<1>1. /\ pc[w] = "undo" /\ Close({w}) /\ refs' = refs /\ next' = next
      /\ lost' = lost /\ leaked' = leaked
      /\ UNCHANGED <<next, file, sets, bound>>
  BY DEF RollbackRows, table, ghost
<1>2. lost \in SUBSET Instances /\ leaked \in SUBSET Instances /\ next \in Nat
  BY DEF IInv, TypeOK
<1>3. /\ TypeOK' /\ Frame(w) /\ Keeps /\ Local(w)' /\ Pending(w)' /\ Unseen'
  BY <1>1, <1>2, EndStep
<1>. QED BY <1>1, <1>2, <1>3, PlainStep

\* CommitRows: the rows that were written have kept their files.
LEMMA CommitRowsStep ==
  ASSUME IInv, NEW w \in Workers, CommitRows(w)
  PROVE  IInv'
<1>0. TypeOK /\ Pending(w) /\ FileThere
  BY DEF IInv
<1>1. /\ pc[w] = "commit" /\ Close({w}) /\ refs' = Merged(w) /\ lost' = lost
      /\ UNCHANGED <<next, file, sets, bound>>
  BY DEF CommitRows
<1>2. lost' \in SUBSET Instances /\ leaked' \in SUBSET Instances
  BY <1>0, <1>1 DEF CommitRows, LeftByRace, Used, TypeOK
<1>3. /\ TypeOK' /\ Frame(w) /\ Keeps
      /\ \A s \in Slots : refs'[s] < next'
      /\ \A v \in Workers : Local(v)' /\ Pending(v)'
      /\ Unseen'
  BY <1>1, <1>2, EndStep
<1>4. FileThere'
  <2>. SUFFICES ASSUME NEW s \in Slots, refs'[s] # None, refs'[s] \notin Safe
                PROVE  \E v \in Workers : pc'[v] = "commit" /\ s \in wrote'[v]
    BY <1>1 DEF FileThere, Safe, sets
  <2>1. s \notin wrote[w]
    BY <1>0, <1>1 DEF Pending, Merged
  <2>2. refs'[s] = refs[s] /\ refs[s] \in Instances \cup {None}
    BY <1>0, <1>1, <2>1 DEF Merged, TypeOK
  <2>3. PICK v \in Workers : pc[v] = "commit" /\ s \in wrote[v]
    BY <1>0, <2>2 DEF FileThere, Safe
  <2>. QED BY <1>3, <2>1, <2>3 DEF Frame
<1>. QED BY <1>3, <1>4 DEF IInv

\* CommitFails: the rows that stay and should have gone are lost.
LEMMA CommitFailsStep ==
  ASSUME IInv, NEW w \in Workers, CommitFails(w)
  PROVE  IInv'
<1>0. TypeOK /\ FileThere
  BY DEF IInv
<1>1. /\ pc[w] = "commit" /\ Close({w}) /\ refs' = refs
      /\ lost' = lost \cup LostByHalf(w, file)
      /\ UNCHANGED <<next, file, sets, bound>>
  BY DEF CommitFails, table
<1>2. lost' \in SUBSET Instances /\ leaked' \in SUBSET Instances
  BY <1>0, <1>1 DEF CommitFails, LostByHalf, LeftByHalf, Used, TypeOK
<1>3. /\ TypeOK' /\ Frame(w) /\ Keeps
      /\ \A s \in Slots : refs'[s] < next'
      /\ \A v \in Workers : Local(v)' /\ Pending(v)'
      /\ Unseen'
  BY <1>1, <1>2, EndStep
<1>4. FileThere'
  <2>. SUFFICES ASSUME NEW s \in Slots, refs[s] # None, refs[s] \notin Safe',
                       refs[s] \in Instances
                PROVE  \E v \in Workers : pc'[v] = "commit" /\ s \in wrote'[v]
    BY <1>0, <1>1 DEF FileThere, Safe, TypeOK
  <2>1. s \notin wrote[w]
    BY <1>1 DEF LostByHalf, Used, Safe
  <2>0. refs[s] \notin Safe
    BY <1>3 DEF Keeps
  <2>2. PICK v \in Workers : pc[v] = "commit" /\ s \in wrote[v]
    BY <1>0, <2>0 DEF FileThere, Safe
  <2>. QED BY <1>3, <2>1, <2>2 DEF Frame
<1>. QED BY <1>3, <1>4 DEF IInv

-----------------------------------------------------------------------------
(* The two ends of the files. *)

\* The lists are empty and the rows as before.
LEMMA ListsEmptied ==
  ASSUME IInv, TypeOK', NEW w \in Workers, Frame(w), pc[w] # "idle",
         pc'[w] \in {"commit", "undo"},
         new'[w] = {}, del'[w] = {}, marked'[w] = {},
         UNCHANGED <<refs, next, snap, wrote, mine, held, todo, want, ops>>
  PROVE  /\ \A s \in Slots : refs'[s] < next'
         /\ \A v \in Workers : Local(v)'
         /\ Unseen'
<1>0. TypeOK /\ Local(w) /\ Unseen /\ next \in Nat /\ next <= next'
  BY DEF IInv, TypeOK
<1>1. Local(w)'
  BY <1>0 DEF Local, Below, Quiet, Linked, Dropped, Running
<1>2. \A v \in Workers \ {w} : Local(v)'
  BY <1>0, OthersKeepLocal DEF IInv
<1>3. Unseen'
  BY <1>0, UnseenStays, UnseenBefore
<1>. QED BY <1>1, <1>2, <1>3 DEF IInv

\* CommitFiles: what is removed is not in the transaction's view; a row that
\* uses it is another's, and then it is lost, or one that will be dropped.
LEMMA CommitFilesStep ==
  ASSUME IInv, NEW w \in Workers, CommitFiles(w)
  PROVE  IInv'
<1>0. TypeOK /\ Dropped(w) /\ Pending(w) /\ FileThere
  BY DEF IInv, Local
<1>. DEFINE gone == {i \in del[w] : file[i] = "file"} \cup marked[w]
<1>a. PICK stay \in SUBSET (del[w] \cup marked[w]) :
        /\ file' = [i \in Instances |->
                      IF i \in gone \ stay THEN "none" ELSE file[i]]
        /\ lost' = lost \cup LostByRace(w, {i \in gone : file'[i] # "file"})
                     \cup (IF stay = {} THEN {} ELSE LostByHalf(w, file'))
        /\ leaked' = leaked
             \cup (IF stay = {} THEN {} ELSE
                     LeftByHalf(w, file') \cup (stay \ Used(refs)))
        /\ Go(w, IF stay = {} THEN "commit" ELSE "undo")
  BY DEF CommitFiles
<1>g. /\ gone \in SUBSET Instances /\ gone \subseteq del[w] \cup marked[w]
      /\ marked[w] \subseteq gone
  BY <1>0 DEF TypeOK
<1>. HIDE DEF gone
<1>2. /\ pc[w] = "open" /\ pc'[w] = (IF stay = {} THEN "commit" ELSE "undo")
      /\ new'[w] = {} /\ del'[w] = {} /\ marked'[w] = {}
      /\ UNCHANGED <<refs, next, snap, wrote, mine, held, todo, want, ops>>
  BY <1>0, <1>a DEF TypeOK, CommitFiles, Go, table, tx
<1>1. TypeOK'
  <2>1. /\ new' \in [Workers -> SUBSET Instances]
        /\ del' \in [Workers -> SUBSET Instances]
        /\ marked' \in [Workers -> SUBSET Instances]
    BY <1>0 DEF TypeOK, CommitFiles
  <2>2. /\ pc' \in [Workers -> Labels]
        /\ file' \in [Instances -> {"none", "file", "deleted"}]
    BY <1>0, <1>a DEF TypeOK, Go, Labels
  <2>3. stay \in SUBSET Instances
    BY <1>0 DEF TypeOK
  <2>4. lost' \in SUBSET Instances
    <3>1. LostByRace(w, {i \in gone : file'[i] # "file"}) \in SUBSET Instances
      BY <1>g DEF LostByRace
    <3>2. LostByHalf(w, file') \in SUBSET Instances
      BY <1>0 DEF LostByHalf, Used, TypeOK
    <3>. QED BY <1>0, <1>a, <3>1, <3>2 DEF TypeOK
  <2>5. leaked' \in SUBSET Instances
    <3>1. LeftByHalf(w, file') \in SUBSET Instances
      BY DEF LeftByHalf
    <3>. QED BY <1>0, <1>a, <2>3, <3>1 DEF TypeOK
  <2>. QED BY <1>0, <2>1, <2>2, <2>4, <2>5
           DEF TypeOK, CommitFiles, table, tx, bound
<1>3. Frame(w)
  BY <1>0, <1>a DEF TypeOK, CommitFiles, Go, Frame, tx
<1>4. /\ \A s \in Slots : refs'[s] < next'
      /\ \A v \in Workers : Local(v)'
      /\ Unseen'
  BY <1>1, <1>2, <1>3, ListsEmptied
<1>5. ASSUME NEW i \in Instances, i \in Safe, i \notin Safe'
      PROVE  i \in gone /\ file'[i] # "file" /\ i \notin lost'
  <2>1. file'[i] # "file" /\ i \notin lost' /\ i \notin lost
    BY <1>5, <1>a DEF Safe
  <2>2. CASE file[i] = "file"
    BY <1>a, <2>1, <2>2
  <2>3. CASE \E v \in Workers : i \in marked[v]
    BY <1>3, <1>5, <1>g, <2>1, <2>3 DEF Safe, Frame
  <2>. QED BY <1>5, <2>1, <2>2, <2>3 DEF Safe
<1>6. ASSUME NEW v \in Workers,
             pc'[v] \in Running \cup {"commit"}, NEW s \in wrote[v],
             mine[v][s] # None
      PROVE  mine[v][s] \in Safe'
  <2>. SUFFICES ASSUME mine[v][s] \notin Safe' PROVE FALSE
    OBVIOUS
  <2>0. PICK i \in Instances : i = mine[v][s]
    BY <1>0, <1>6 DEF TypeOK
  <2>1. i \in Safe
    <3>1. pc[v] \in Running \cup {"commit"}
      BY <1>2, <1>3, <1>6 DEF Frame, Running
    <3>. QED BY <1>6, <2>0, <3>1 DEF IInv, Pending
  <2>2. i \in gone /\ file'[i] # "file" /\ i \notin lost'
    BY <1>5, <2>0, <2>1
  <2>3. CASE v = w
    <3>1. s \in Slots /\ View(w)[s] = i
      BY <1>0, <1>6, <2>0, <2>3 DEF TypeOK, View
    <3>. QED BY <1>0, <1>2, <1>g, <2>2, <3>1 DEF Dropped, Running
  <2>4. CASE v # w
    <3>1. i \in LostByRace(w, {j \in gone : file'[j] # "file"})
      BY <1>6, <2>0, <2>2, <2>4 DEF LostByRace
    <3>. QED BY <1>a, <2>2, <3>1
  <2>. QED BY <2>3, <2>4
<1>8. ASSUME NEW v \in Workers, pc'[v] = "checked" PROVE want[v] \in Safe'
  <2>. SUFFICES ASSUME want[v] \notin Safe' PROVE FALSE
    OBVIOUS
  <2>1. v # w /\ pc[v] = "checked"
    BY <1>2, <1>3, <1>8 DEF Frame
  <2>2. PICK i \in Instances : i = want[v]
    BY <2>1 DEF IInv, Pending, Safe
  <2>3. i \in Safe
    BY <2>1, <2>2 DEF IInv, Pending
  <2>4. i \in gone /\ file'[i] # "file" /\ i \notin lost'
    BY <1>5, <2>2, <2>3
  <2>5. i \in LostByRace(w, {j \in gone : file'[j] # "file"})
    BY <2>1, <2>2, <2>4 DEF LostByRace
  <2>. QED BY <1>a, <2>4, <2>5
<1>9. \A v \in Workers : Pending(v)'
  BY <1>2, <1>6, <1>8 DEF Pending
<1>7. FileThere'
  <2>. SUFFICES ASSUME NEW s \in Slots, NEW i \in Instances, i = refs[s],
                       i # None, i \notin Safe'
                PROVE  \E v \in Workers : pc'[v] = "commit" /\ s \in wrote'[v]
    BY <1>0, <1>2 DEF FileThere, Safe, TypeOK
  <2>1. CASE i \notin Safe
    <3>1. PICK v \in Workers : pc[v] = "commit" /\ s \in wrote[v]
      BY <1>0, <2>1 DEF FileThere, Safe
    <3>. QED BY <1>2, <1>3, <3>1 DEF Frame
  <2>2. CASE i \in Safe
    <3>1. i \in gone /\ file'[i] # "file" /\ i \notin lost'
      BY <1>5, <2>2
    <3>2. CASE s \in wrote[w] /\ stay = {}
      BY <1>2, <3>2
    <3>3. CASE s \in wrote[w] /\ stay # {}
      <4>1. i \in LostByHalf(w, file')
        BY <3>1, <3>3 DEF LostByHalf, Used
      <4>. QED BY <1>a, <3>1, <3>3, <4>1
    <3>4. CASE s \notin wrote[w]
      <4>1. snap[w][s] # i
        BY <1>0, <1>2, <1>g, <3>1, <3>4 DEF Dropped, Running, View
      <4>2. i \in LostByRace(w, {j \in gone : file'[j] # "file"})
        BY <3>1, <3>4, <4>1 DEF LostByRace
      <4>. QED BY <1>a, <3>1, <4>2
    <3>. QED BY <3>2, <3>3, <3>4
  <2>. QED BY <2>1, <2>2
<1>. QED BY <1>1, <1>4, <1>7, <1>9 DEF IInv

\* RollbackFiles: the new files that go are used by nobody else.
LEMMA RollbackFilesStep ==
  ASSUME IInv, NEW w \in Workers, RollbackFiles(w)
  PROVE  IInv'
<1>0. TypeOK /\ Unseen /\ FileThere
  BY DEF IInv
<1>a. PICK stay \in SUBSET (new[w] \cup marked[w]), back \in SUBSET Instances :
        /\ back = marked[w] \ stay
        /\ file' = [i \in Instances |->
                      IF i \in back THEN "file"
                      ELSE IF i \in new[w] \ stay /\ file[i] = "file"
                      THEN "none" ELSE file[i]]
        /\ lost' = lost \cup (stay \cap marked[w])
        /\ leaked' = leaked \cup (stay \cap new[w]) \cup LeftRenamed(w, back)
  BY <1>0 DEF RollbackFiles, TypeOK
<1>2. /\ pc[w] = "rollback" /\ pc'[w] = "undo"
      /\ new'[w] = {} /\ del'[w] = {} /\ marked'[w] = {}
      /\ UNCHANGED <<refs, next, snap, wrote, mine, held, todo, want, ops>>
  BY <1>0 DEF TypeOK, RollbackFiles, Go, table, tx
<1>1. TypeOK'
  <2>1. /\ new' \in [Workers -> SUBSET Instances]
        /\ del' \in [Workers -> SUBSET Instances]
        /\ marked' \in [Workers -> SUBSET Instances]
        /\ pc' \in [Workers -> Labels]
    BY <1>0 DEF TypeOK, RollbackFiles, Go, Labels
  <2>2. file' \in [Instances -> {"none", "file", "deleted"}]
    BY <1>0, <1>a DEF TypeOK
  <2>3. lost' \in SUBSET Instances /\ leaked' \in SUBSET Instances
    BY <1>0, <1>a DEF TypeOK, LeftRenamed
  <2>. QED BY <1>0, <2>1, <2>2, <2>3 DEF TypeOK, RollbackFiles, table, tx, bound
<1>3. Frame(w)
  BY <1>0 DEF TypeOK, RollbackFiles, Go, Frame, tx
<1>4. /\ \A s \in Slots : refs'[s] < next'
      /\ \A v \in Workers : Local(v)'
      /\ Unseen'
  BY <1>1, <1>2, <1>3, ListsEmptied
<1>5. ASSUME NEW i \in Instances, i \in Safe, i \notin Safe'
      PROVE  i \in new[w]
  <2>1. file'[i] # "file" /\ i \notin lost' /\ i \notin lost
    BY <1>5, <1>a DEF Safe
  <2>2. CASE file[i] = "file"
    BY <1>a, <2>1, <2>2
  <2>3. CASE \E v \in Workers : i \in marked[v]
    BY <1>3, <1>5, <1>a, <2>1, <2>3 DEF Safe, Frame
  <2>. QED BY <1>5, <2>1, <2>2, <2>3 DEF Safe
<1>6. ASSUME NEW v \in Workers,
             pc'[v] \in Running \cup {"commit"}, NEW s \in wrote[v],
             mine[v][s] # None
      PROVE  mine[v][s] \in Safe'
  <2>. SUFFICES ASSUME mine[v][s] \notin Safe' PROVE FALSE
    OBVIOUS
  <2>0. PICK i \in Instances : i = mine[v][s]
    BY <1>0, <1>6 DEF TypeOK
  <2>1. v # w /\ s \in Slots
    BY <1>0, <1>2, <1>6 DEF Running, TypeOK
  <2>2. i \in Safe
    BY <1>3, <1>6, <2>0, <2>1 DEF IInv, Pending, Frame
  <2>. QED BY <1>0, <1>5, <2>0, <2>1, <2>2 DEF Unseen
<1>8. ASSUME NEW v \in Workers, pc'[v] = "checked" PROVE want[v] \in Safe'
  <2>1. v # w /\ pc[v] = "checked"
    BY <1>2, <1>3, <1>8 DEF Frame
  <2>2. want[v] \in Instances /\ want[v] \in Safe
    BY <2>1 DEF IInv, Pending, Safe
  <2>3. PICK t \in Slots : View(v)[t] = want[v]
    BY <2>1 DEF IInv, Local, Linked
  <2>4. want[v] \notin new[w]
    BY <1>0, <2>1, <2>3 DEF Unseen, View
  <2>. QED BY <1>5, <2>2, <2>4
<1>9. \A v \in Workers : Pending(v)'
  BY <1>2, <1>6, <1>8 DEF Pending
<1>7. FileThere'
  <2>. SUFFICES ASSUME NEW s \in Slots, NEW i \in Instances, i = refs[s],
                       i # None, i \notin Safe'
                PROVE  \E v \in Workers : pc'[v] = "commit" /\ s \in wrote'[v]
    BY <1>0, <1>2 DEF FileThere, Safe, TypeOK
  <2>1. i \notin Safe
    BY <1>0, <1>5 DEF Unseen
  <2>2. PICK v \in Workers : pc[v] = "commit" /\ s \in wrote[v]
    BY <1>0, <2>1 DEF FileThere, Safe
  <2>. QED BY <1>2, <1>3, <2>2 DEF Frame
<1>. QED BY <1>1, <1>4, <1>7, <1>9 DEF IInv

-----------------------------------------------------------------------------
(* The rest of the steps. *)

\* Crash: what was between two commits, or renamed, is lost.
LEMMA CrashStep ==
  ASSUME IInv, Crash
  PROVE  IInv'
<1>0. /\ TypeOK /\ FileThere /\ \A v \in Workers : Below(v)
      /\ \A s \in Slots : refs[s] < next
  BY DEF IInv, Local
<1>1. /\ Close(Workers) /\ UNCHANGED <<refs, next, file, begins>>
      /\ crashes' = crashes + 1
      /\ lost' = lost \cup
           {i \in Instances : \E w \in Workers :
              \/ i \in marked[w]
              \/ pc[w] = "commit" /\ i \in LostByHalf(w, file)}
      /\ \A v \in Workers : new'[v] = {} /\ del'[v] = {} /\ marked'[v] = {}
      /\ new' \in [Workers -> SUBSET Instances]
      /\ del' \in [Workers -> SUBSET Instances]
      /\ marked' \in [Workers -> SUBSET Instances]
  BY DEF Crash, table
<1>2. /\ \A v \in Workers : Closed(v)
      /\ pc' \in [Workers -> Labels]
      /\ snap' \in [Workers -> [Slots -> Instances \cup {None}]]
      /\ mine' \in [Workers -> [Slots -> Instances \cup {None}]]
      /\ wrote' \in [Workers -> SUBSET Slots]
      /\ held' \in [Workers -> SUBSET Slots]
      /\ todo' \in [Workers -> SUBSET Slots]
      /\ want' \in [Workers -> Instances \cup {None}]
      /\ ops' \in [Workers -> Nat]
  BY <1>0, <1>1, CloseCloses
<1>3. lost' \in SUBSET Instances
  BY <1>0, <1>1 DEF TypeOK
<1>4. leaked' \in SUBSET Instances
  BY <1>0 DEF Crash, TypeOK
<1>5. TypeOK'
  BY <1>0, <1>1, <1>2, <1>3, <1>4 DEF TypeOK
<1>6. \A v \in Workers : Local(v)' /\ Pending(v)'
  BY <1>0, <1>1, <1>2, ClosedLocal
<1>7. Unseen'
  BY <1>1 DEF Unseen
<1>8. FileThere'
  <2>. SUFFICES ASSUME NEW s \in Slots, NEW i \in Instances, i = refs[s],
                       i # None
                PROVE  file[i] = "file" \/ i \in lost'
    BY <1>0, <1>1 DEF FileThere, TypeOK
  <2>1. CASE i \in Safe
    BY <1>1, <2>1 DEF Safe
  <2>2. CASE i \notin Safe
    <3>1. PICK v \in Workers : pc[v] = "commit" /\ s \in wrote[v]
      BY <1>0, <2>2 DEF FileThere, Safe
    <3>2. i \in LostByHalf(v, file)
      BY <2>2, <3>1 DEF LostByHalf, Used, Safe
    <3>. QED BY <1>1, <3>1, <3>2
  <2>. QED BY <2>1, <2>2
<1>. QED BY <1>0, <1>1, <1>5, <1>6, <1>7, <1>8 DEF IInv

\* A step that changes nothing.
LEMMA StutterStep ==
  ASSUME IInv, UNCHANGED vars
  PROVE  IInv'
<1>1. UNCHANGED <<refs, next, file, pc, snap, wrote, mine, held, todo, want,
                  new, del, marked, ops, begins, crashes, lost, leaked>>
  BY DEF vars, table, tx, sets, bound, ghost
<1>2. TypeOK' /\ FileThere' /\ Unseen' /\ \A s \in Slots : refs'[s] < next'
  BY <1>1 DEF IInv, TypeOK, FileThere, Unseen
<1>3. ASSUME NEW w \in Workers PROVE Local(w)' /\ Pending(w)'
  <2>1. Local(w) /\ Pending(w)
    BY DEF IInv
  <2>2. Below(w)' /\ Quiet(w)'
    BY <1>1, <2>1 DEF Local, Below, Quiet
  <2>3. Linked(w)' /\ Dropped(w)'
    BY <1>1, <2>1 DEF Local, Linked, Dropped, View
  <2>4. Pending(w)'
    BY <1>1, <2>1 DEF Pending, Safe
  <2>. QED BY <2>2, <2>3, <2>4 DEF Local
<1>. QED BY <1>2, <1>3 DEF IInv

\* The three ways an operation starts.
LEMMA StartSteps ==
  ASSUME IInv, NEW w \in Workers
  PROVE  /\ \A s \in Slots : StartSave(w, s) => IInv'
         /\ \A s \in Slots, i \in Instances : StartLink(w, s, i) => IInv'
         /\ \A S \in SUBSET Slots : StartDelete(w, S) => IInv'
<1>0. TypeOK /\ Below(w) /\ None < next
  BY NoneBelow DEF IInv, Local
<1>1. ASSUME NEW s \in Slots, StartSave(w, s) PROVE IInv'
  <2>1. PICK l \in {"put", "replace"} : StartOn(w, {s}, None, l)
    BY <1>1 DEF StartSave
  <2>2. l \in Running \ {"open"} /\ l \notin {"link", "checked"}
    BY DEF Running
  <2>3. {s} \in SUBSET Slots /\ None \in Instances \cup {None}
    OBVIOUS
  <2>. QED BY <1>0, <2>1, <2>2, <2>3, StartOnStep
<1>2. ASSUME NEW s \in Slots, NEW i \in Instances, StartLink(w, s, i)
      PROVE  IInv'
  <2>1. PICK l \in {"link", "replace"} : StartOn(w, {s}, i, l)
    BY <1>2 DEF StartLink
  <2>2. l \in Running \ {"open"} /\ l # "checked" /\ i # None
    BY IdsAreNumbers DEF Running
  <2>3. \E t \in Slots \ {s} : View(w)[t] = i
    BY <1>2 DEF StartLink, Used
  <2>4. i < next
    BY <1>0, <2>3 DEF View, Below
  <2>5. {s} \in SUBSET Slots /\ i \in Instances \cup {None}
    OBVIOUS
  <2>. QED BY <2>1, <2>2, <2>3, <2>4, <2>5, StartOnStep
<1>3. ASSUME NEW S \in SUBSET Slots, StartDelete(w, S) PROVE IInv'
  <2>1. StartOn(w, S, None, "delete")
    BY <1>3 DEF StartDelete
  <2>2. "delete" \in Running \ {"open", "checked"} /\ None \in Instances \cup {None}
    BY DEF Running
  <2>. QED BY <1>0, <2>1, <2>2, StartOnStep
<1>. QED BY <1>1, <1>2, <1>3

-----------------------------------------------------------------------------
(* The invariant holds at the start and after every step. *)

LEMMA InitIInv == Init => IInv
<1>. SUFFICES ASSUME Init PROVE IInv
  OBVIOUS
<1>1. /\ refs \in [Slots -> Instances \cup {None}]
      /\ \A s \in Slots : refs[s] < next
  BY FirstAssumption DEF Init, Instances, None
<1>2. TypeOK
  BY <1>1, FirstAssumption, BoundAssumption DEF Init, TypeOK, Labels
<1>3. ASSUME NEW w \in Workers PROVE Local(w) /\ Pending(w)
  <2>1. Below(w)
    BY FirstAssumption DEF Init, Below, None
  <2>. QED BY <2>1 DEF Init, Local, Quiet, Linked, Dropped, Pending, Running
<1>4. Unseen
  BY DEF Init, Unseen
<1>5. FileThere
  <2>. SUFFICES ASSUME NEW s \in Slots, refs[s] # None
                PROVE  file[refs[s]] = "file"
    BY DEF FileThere
  <2>1. refs[s] \in Used(refs) /\ refs[s] \in Instances
    BY <1>1 DEF Used
  <2>. QED BY <2>1 DEF Init
<1>. QED BY <1>1, <1>2, <1>3, <1>4, <1>5 DEF IInv

LEMMA NextIInv == IInv /\ [Next]_vars => IInv'
<1>. SUFFICES ASSUME IInv, [Next]_vars PROVE IInv'
  OBVIOUS
<1>1. ASSUME NEW w \in Workers, Begin(w) PROVE IInv'
  BY <1>1, BeginStep
<1>2. ASSUME NEW w \in Workers, NEW s \in Slots, StartSave(w, s) PROVE IInv'
  BY <1>2, StartSteps
<1>3. ASSUME NEW w \in Workers, NEW s \in Slots, NEW i \in Instances,
             StartLink(w, s, i)
      PROVE  IInv'
  BY <1>3, StartSteps
<1>4. ASSUME NEW w \in Workers, NEW S \in SUBSET Slots, StartDelete(w, S)
      PROVE  IInv'
  BY <1>4, StartSteps
<1>5. ASSUME NEW w \in Workers,
             \/ Replace(w) \/ Delete(w) \/ Put(w)
             \/ Check(w) \/ Link(w) \/ Fail(w)
      PROVE  IInv'
  BY <1>5, ReplaceStep, DeleteStep, PutStep, CheckStep, LinkStep, FailStep
<1>6. ASSUME NEW w \in Workers, NEW s \in Slots, NEW t \in Slots, Copy(w, s, t)
      PROVE  IInv'
  BY <1>6, CopyStep
<1>7. ASSUME NEW w \in Workers,
             CommitFiles(w) \/ CommitRows(w) \/ CommitFails(w)
      PROVE  IInv'
  BY <1>7, CommitFilesStep, CommitRowsStep, CommitFailsStep
<1>8. ASSUME NEW w \in Workers, RollbackFiles(w) \/ RollbackRows(w)
      PROVE  IInv'
  BY <1>8, RollbackFilesStep, RollbackRowsStep
<1>9. CASE Crash
  BY <1>9, CrashStep
<1>10. CASE UNCHANGED vars
  BY <1>10, StutterStep
<1>. QED
  BY <1>1, <1>2, <1>3, <1>4, <1>5, <1>6, <1>7, <1>8, <1>9, <1>10 DEF Next

-----------------------------------------------------------------------------
(* The files that are left.  A request that takes the last row of an         *)
(* instance, in its view, finds the file and puts it on a list, or there is   *)
(* no file to find (Found); then nobody else may bring it back unseen.        *)

\* New data goes where the view shows no row, so it hides none.
Cleared(w) == /\ pc[w] \in {"replace", "put", "link", "checked"} => todo[w] # {}
              /\ pc[w] \in {"put", "link", "checked"} =>
                   \A s \in todo[w] : View(w)[s] = None

\* What a request has passed by has no file, or is known to be left.
Found(w) == pc[w] \in Running \cup {"commit"} =>
              \A i \in Passed(w) : file[i] # "file" \/ i \in leaked

\* A file that is renamed is on the list of the one request that renamed it.
MarkedAway == \A w \in Workers : \A i \in marked[w] :
                /\ file[i] = "deleted"
                /\ \A v \in Workers \ {w} : i \notin marked[v]

Deleted == \A i \in Instances :
             file[i] = "deleted" =>
               i \in lost \cup leaked \/ \E w \in Workers : i \in marked[w]

\* The file is w's own: it is new, or a row of w that comes now uses it.
Owns(w, i) == \/ i \in new[w]
              \/ pc[w] = "commit" /\ \E s \in wrote[w] : mine[w][s] = i

Kept == \A i \in Instances :
          file[i] = "file" =>
            i \in Used(refs) \cup leaked \/ \E w \in Workers : Owns(w, i)

Tidy == /\ \A w \in Workers : Cleared(w) /\ Found(w)
        /\ MarkedAway /\ Deleted /\ Kept

LEMMA TidyLeavesNothing == TypeOK /\ Tidy => NothingLeft
<1>. SUFFICES ASSUME TypeOK, Tidy, NEW i \in Instances, file[i] # "none",
                     i \notin Used(refs), i \notin leaked,
                     ~(file[i] = "deleted" /\ i \in lost)
              PROVE  \E w \in Workers :
                       \/ i \in new[w] \cup marked[w]
                       \/ pc[w] = "commit" /\ \E s \in wrote[w] : mine[w][s] = i
  BY DEF NothingLeft
<1>1. file[i] \in {"file", "deleted"}
  BY DEF TypeOK
<1>2. CASE file[i] = "file"
  BY <1>2 DEF Tidy, Kept, Owns
<1>3. CASE file[i] = "deleted"
  BY <1>3 DEF Tidy, Deleted
<1>. QED BY <1>1, <1>2, <1>3

\* A step of w brings back no file that another has passed by, and a file that
\* comes, or comes to a new name, is accounted for.
FileStays(w, i) ==
  /\ file'[i] = "file" =>
       \/ file[i] = "file" \/ i \in leaked'
       \/ \A v \in Workers \ {w} :
            pc[v] \in Running \cup {"commit"} => i \notin Passed(v)
  /\ file'[i] = "file" =>
       \/ i \in Used(refs') \cup leaked' \/ Owns(w, i)'
       \/ file[i] = "file" /\ i \notin Used(refs) /\ ~Owns(w, i)
  /\ file'[i] = "deleted" =>
       \/ file[i] = "deleted" /\ i \notin marked[w]
       \/ i \in lost' \cup leaked' \cup marked'[w]
  /\ i \in marked'[w] =>
       file'[i] = "deleted" /\ (i \in marked[w] \/ file[i] # "deleted")
  /\ file[i] = "deleted" =>
       file'[i] = "deleted" \/ \A v \in Workers \ {w} : i \notin marked[v]

\* What is left to show of a step of w.
LEMMA TidyStep ==
  ASSUME IInv, IInv', Tidy, NEW w \in Workers, Frame(w),
         lost \subseteq lost', leaked \subseteq leaked', Cleared(w)', Found(w)',
         \A i \in Instances : FileStays(w, i)
  PROVE  Tidy'
<1>0. TypeOK /\ TypeOK'
  BY DEF IInv
<1>1. ASSUME NEW v \in Workers \ {w} PROVE Cleared(v)' /\ Found(v)'
  <2>1. /\ pc'[v] = pc[v] /\ snap'[v] = snap[v] /\ wrote'[v] = wrote[v]
        /\ mine'[v] = mine[v] /\ todo'[v] = todo[v] /\ new'[v] = new[v]
        /\ del'[v] = del[v] /\ marked'[v] = marked[v]
    BY DEF Frame
  <2>2. View(v)' = View(v)
    BY <2>1 DEF View
  <2>3. Passed(v)' = Passed(v)
    BY <2>1, <2>2 DEF Passed, Used
  <2>4. Passed(v) \subseteq Instances
    BY <1>0 DEF Passed, Used, TypeOK
  <2>5. Cleared(v) /\ Found(v)
    BY DEF Tidy
  <2>6. Cleared(v)'
    BY <2>1, <2>2, <2>5 DEF Cleared
  <2>7. Found(v)'
    BY <2>1, <2>3, <2>4, <2>5 DEF Found, FileStays
  <2>. QED BY <2>6, <2>7
<1>2. MarkedAway'
  <2>1. \A v \in Workers : marked[v] \subseteq Instances
                           /\ marked'[v] \subseteq Instances
    BY <1>0 DEF TypeOK
  <2>2. \A v \in Workers \ {w} : marked'[v] = marked[v]
    BY DEF Frame
  <2>. QED BY <2>1, <2>2 DEF Tidy, MarkedAway, FileStays
<1>3. Deleted'
  <2>2. \A v \in Workers \ {w} : marked'[v] = marked[v]
    BY DEF Frame
  <2>. QED BY <2>2 DEF Tidy, Deleted, FileStays
<1>4. Kept'
  <2>1. \A v \in Workers \ {w} : \A i \in Instances : Owns(v, i) => Owns(v, i)'
    BY DEF Owns, Frame
  <2>. QED BY <2>1 DEF Tidy, Kept, FileStays
<1>. QED BY <1>1, <1>2, <1>3, <1>4 DEF Tidy

\* What is left to show of a step that changes no file and no list of one.
LEMMA CalmStep ==
  ASSUME IInv, IInv', Tidy, NEW w \in Workers, Frame(w), pc[w] # "commit",
         UNCHANGED <<refs, file, lost, leaked>>,
         new'[w] = new[w], marked'[w] = marked[w], Cleared(w)', Found(w)'
  PROVE  Tidy'
<1>1. ASSUME NEW i \in Instances, file[i] = "file"
      PROVE  \/ i \in Used(refs) \cup leaked \/ Owns(w, i)'
             \/ i \notin Used(refs) /\ ~Owns(w, i)
  BY DEF Owns
<1>2. \A i \in marked[w] : file[i] = "deleted"
  BY DEF Tidy, MarkedAway
<1>. QED BY <1>1, <1>2, TidyStep DEF FileStays

\* Begin: the view is the snapshot.
LEMMA BeginTidy ==
  ASSUME IInv, IInv', Tidy, NEW w \in Workers, Begin(w)
  PROVE  Tidy'
<1>0. TypeOK /\ Quiet(w)
  BY DEF IInv, Local
<1>1. /\ pc[w] = "idle" /\ pc'[w] = "open" /\ snap'[w] = refs
      /\ wrote'[w] = wrote[w] /\ new'[w] = new[w] /\ marked'[w] = marked[w]
      /\ UNCHANGED <<refs, file, lost, leaked>>
  BY <1>0 DEF TypeOK, Begin, Go, table, tx, sets, ghost
<1>2. Frame(w)
  BY <1>0 DEF TypeOK, Begin, Go, Frame, tx, sets
<1>3. Cleared(w)'
  BY <1>1 DEF Cleared
<1>4. Found(w)'
  <2>1. new[w] = {} /\ wrote[w] = {}
    BY <1>0, <1>1 DEF Quiet
  <2>2. \A s \in Slots : View(w)'[s] = refs[s]
    BY <1>1, <2>1 DEF View
  <2>3. Used(View(w)') = Used(refs) /\ Used(snap'[w]) = Used(refs)
    BY <1>1, <2>2 DEF Used
  <2>. QED BY <1>1, <2>1, <2>3 DEF Found, Passed
<1>. QED BY <1>1, <1>2, <1>3, <1>4, CalmStep

\* StartOn: an operation that adds a row starts where there is none, or drops
\* it first.
LEMMA StartOnTidy ==
  ASSUME IInv, IInv', Tidy, NEW w \in Workers, NEW S \in SUBSET Slots, NEW i,
         NEW l, StartOn(w, S, i, l), l \in Running, S # {},
         l \in {"put", "link"} => \A s \in S : View(w)[s] = None,
         l # "checked"
  PROVE  Tidy'
<1>0. TypeOK
  BY DEF IInv
<1>1. /\ pc[w] = "open" /\ pc'[w] = l /\ todo'[w] = S
      /\ UNCHANGED <<refs, file, snap, wrote, mine, new, del, marked, lost,
                     leaked>>
  BY <1>0 DEF TypeOK, StartOn, Go, table, tx, sets, ghost
<1>2. Frame(w)
  BY <1>0 DEF TypeOK, StartOn, Go, Frame, tx, sets
<1>3. View(w)' = View(w)
  BY <1>1 DEF View
<1>4. Cleared(w)'
  BY <1>1, <1>3 DEF Cleared
<1>5. Found(w)'
  <2>1. Passed(w)' = Passed(w)
    BY <1>1, <1>3 DEF Passed, Used
  <2>2. Found(w)
    BY DEF Tidy
  <2>. QED BY <1>1, <2>1, <2>2 DEF Found, Running
<1>. QED BY <1>1, <1>2, <1>4, <1>5, CalmStep

\* The three ways an operation starts.
LEMMA StartsTidy ==
  ASSUME IInv, IInv', Tidy, NEW w \in Workers
  PROVE  /\ \A s \in Slots : StartSave(w, s) => Tidy'
         /\ \A s \in Slots, i \in Instances : StartLink(w, s, i) => Tidy'
         /\ \A S \in SUBSET Slots : StartDelete(w, S) => Tidy'
<1>1. ASSUME NEW s \in Slots, StartSave(w, s) PROVE Tidy'
  <2>1. PICK l \in {"put", "replace"} :
          /\ StartOn(w, {s}, None, l)
          /\ l = "put" => View(w)[s] = None
    BY <1>1 DEF StartSave
  <2>2. l \in Running /\ l \notin {"link", "checked"} /\ {s} \in SUBSET Slots /\ {s} # {}
    BY DEF Running
  <2>. QED BY <2>1, <2>2, StartOnTidy
<1>2. ASSUME NEW s \in Slots, NEW i \in Instances, StartLink(w, s, i)
      PROVE  Tidy'
  <2>1. PICK l \in {"link", "replace"} :
          /\ StartOn(w, {s}, i, l)
          /\ l = "link" => View(w)[s] = None
    BY <1>2 DEF StartLink
  <2>2. l \in Running /\ l \notin {"put", "checked"} /\ {s} \in SUBSET Slots /\ {s} # {}
    BY DEF Running
  <2>. QED BY <2>1, <2>2, StartOnTidy
<1>3. ASSUME NEW S \in SUBSET Slots, StartDelete(w, S) PROVE Tidy'
  <2>1. StartOn(w, S, None, "delete") /\ S # {}
    BY <1>3 DEF StartDelete
  <2>2. "delete" \in Running
    BY DEF Running
  <2>. QED BY <2>1, <2>2, StartOnTidy
<1>. QED BY <1>1, <1>2, <1>3

\* Replace: the files of the orphans that have one go on the list.
LEMMA ReplaceTidy ==
  ASSUME IInv, IInv', Tidy, NEW w \in Workers, Replace(w)
  PROVE  Tidy'
<1>0. /\ TypeOK /\ DropRows(w) /\ Cleared(w) /\ Found(w)
      /\ MarkedAway
  BY DEF IInv, Replace, Tidy
<1>a. /\ wrote'[w] = wrote[w] \cup todo[w]
      /\ \A s \in Slots :
           mine'[w][s] = IF s \in todo[w] THEN None ELSE mine[w][s]
      /\ \A v \in Workers \ {w} : wrote'[v] = wrote[v] /\ mine'[v] = mine[v]
  BY <1>0, RowsDropped
<1>c. PICK here \in SUBSET Orphans(w) :
        /\ here = {i \in Orphans(w) : file[i] = "file"}
        /\ file' = [i \in Instances |->
                      IF i \in here THEN "deleted" ELSE file[i]]
        /\ marked' = [marked EXCEPT ![w] = @ \cup here]
  BY DEF Replace
<1>1. /\ pc[w] = "replace"
      /\ pc'[w] = (IF want[w] = None THEN "put" ELSE "link")
      /\ marked'[w] = marked[w] \cup here
      /\ UNCHANGED <<refs, snap, todo, new, del, lost, leaked>>
  BY <1>0, <1>c DEF TypeOK, Replace, Go, table, ghost
<1>2. Frame(w)
  BY <1>0, <1>a, <1>c DEF TypeOK, Replace, Go, Frame
<1>v. \A s \in Slots :
        View(w)'[s] = IF s \in todo[w] THEN None ELSE View(w)[s]
  BY <1>a, <1>1 DEF View
<1>3. Cleared(w)'
  <2>1. todo[w] # {} /\ todo[w] \subseteq Slots
    BY <1>0, <1>1 DEF Cleared, TypeOK
  <2>. QED BY <1>1, <1>v, <2>1 DEF Cleared
<1>4. Found(w)'
  <2>. SUFFICES ASSUME NEW i \in Passed(w)'
                PROVE  file'[i] # "file" \/ i \in leaked
    BY <1>1 DEF Found
  <2>1. /\ i \in Used(snap[w]) \cup new[w] /\ i \notin Used(View(w)')
        /\ i \notin del[w] \cup marked[w] \cup here
    BY <1>1 DEF Passed
  <2>2. i \in Instances /\ i # None
    BY <1>0, <2>1, IdsAreNumbers DEF TypeOK, Used
  <2>3. CASE i \in Used(View(w))
    <3>1. /\ \A s \in Slots \ todo[w] : View(w)[s] # i
          /\ \E s \in todo[w] : View(w)[s] = i
      BY <1>v, <2>1, <2>2, <2>3 DEF Used
    <3>2. i \in Orphans(w)
      BY <2>2, <3>1 DEF Orphans
    <3>. QED BY <1>c, <2>1, <2>2, <3>2
  <2>4. CASE i \notin Used(View(w))
    <3>1. i \in Passed(w)
      BY <2>1, <2>4 DEF Passed
    <3>. QED BY <1>0, <1>1, <1>c, <2>1, <2>2, <3>1 DEF Found, Running
  <2>. QED BY <2>3, <2>4
<1>5. \A i \in Instances : ~Owns(w, i) \/ Owns(w, i)'
  BY <1>1 DEF Owns
<1>6. \A i \in marked[w] : file[i] = "deleted"
  BY <1>0 DEF MarkedAway
<1>7. /\ \A i \in here : i \in Instances =>
           file[i] = "file" /\ file'[i] = "deleted"
      /\ \A i \in Instances \ here : file'[i] = file[i]
  BY <1>c
<1>8. marked'[w] \subseteq Instances /\ marked[w] \subseteq Instances
  BY DEF IInv, TypeOK
<1>. QED
  BY <1>1, <1>2, <1>3, <1>4, <1>5, <1>6, <1>7, <1>8, TidyStep DEF FileStays

\* Delete: the orphans go on the list.
LEMMA DeleteTidy ==
  ASSUME IInv, IInv', Tidy, NEW w \in Workers, Delete(w)
  PROVE  Tidy'
<1>0. TypeOK /\ DropRows(w) /\ Found(w)
  BY DEF IInv, Delete, Tidy
<1>a. /\ wrote'[w] = wrote[w] \cup todo[w]
      /\ \A s \in Slots :
           mine'[w][s] = IF s \in todo[w] THEN None ELSE mine[w][s]
      /\ \A v \in Workers \ {w} : wrote'[v] = wrote[v] /\ mine'[v] = mine[v]
  BY <1>0, RowsDropped
<1>1. /\ pc[w] = "delete" /\ pc'[w] = "open"
      /\ del'[w] = del[w] \cup Orphans(w)
      /\ UNCHANGED <<refs, file, snap, new, marked, lost, leaked>>
  BY <1>0 DEF TypeOK, Delete, Go, table, ghost
<1>2. Frame(w)
  BY <1>0, <1>a DEF TypeOK, Delete, Go, Frame
<1>v. \A s \in Slots :
        View(w)'[s] = IF s \in todo[w] THEN None ELSE View(w)[s]
  BY <1>a, <1>1 DEF View
<1>3. Cleared(w)'
  BY <1>1 DEF Cleared
<1>4. Found(w)'
  <2>1. Passed(w)' \subseteq Passed(w)
    <3>. SUFFICES ASSUME NEW i \in Passed(w)', i \in Used(View(w))
                  PROVE  FALSE
      BY <1>1 DEF Passed
    <3>1. i \notin Used(View(w)') /\ i \notin Orphans(w) /\ i # None
      BY <1>1 DEF Passed, Used
    <3>2. /\ \A s \in Slots \ todo[w] : View(w)[s] # i
          /\ \E s \in todo[w] : View(w)[s] = i
      BY <1>v, <3>1 DEF Used
    <3>. QED BY <3>1, <3>2 DEF Orphans
  <2>. QED BY <1>0, <1>1, <2>1 DEF Found, Running
<1>. QED BY <1>1, <1>2, <1>3, <1>4, CalmStep

\* Put: nobody has heard of the id, and the row hides none.
LEMMA PutTidy ==
  ASSUME IInv, IInv', Tidy, NEW w \in Workers, Put(w)
  PROVE  Tidy'
<1>0. /\ TypeOK /\ Cleared(w) /\ Found(w) /\ MarkedAway
      /\ \A v \in Workers : Below(v)
  BY DEF IInv, Local, Tidy
<1>a. PICK made \in BOOLEAN, known \in BOOLEAN, ok \in BOOLEAN :
        /\ ok => made /\ known
        /\ file' = [file EXCEPT ![next] = IF made THEN "file" ELSE @]
        /\ new' = [new EXCEPT ![w] = IF known THEN @ \cup {next} ELSE @]
        /\ leaked' = IF made /\ ~known THEN leaked \cup {next} ELSE leaked
        /\ Go(w, IF ok THEN "open" ELSE "rollback")
  BY DEF Put
<1>1. /\ pc[w] = "put" /\ pc'[w] = (IF ok THEN "open" ELSE "rollback")
      /\ next \in Instances
      /\ wrote'[w] = wrote[w] \cup todo[w]
      /\ \A s \in Slots :
           mine'[w][s] = IF s \in todo[w] THEN next ELSE mine[w][s]
      /\ new'[w] = (IF known THEN new[w] \cup {next} ELSE new[w])
      /\ UNCHANGED <<refs, snap, del, marked, lost>>
  BY <1>0, <1>a DEF TypeOK, Put, Go
<1>2. Frame(w)
  BY <1>0, <1>a DEF TypeOK, Put, Go, Frame
<1>v. \A s \in Slots :
        View(w)'[s] = IF s \in todo[w] THEN next ELSE View(w)[s]
  BY <1>1 DEF View
<1>f. \A v \in Workers : next \notin Passed(v) \cup marked[v]
  <2>1. next \in Nat
    BY <1>0 DEF TypeOK
  <2>. QED BY <1>0, <2>1 DEF Below, Passed, Used
<1>3. Cleared(w)'
  BY <1>1 DEF Cleared
<1>5. \A i \in Instances \ {next} : file'[i] = file[i]
  BY <1>0, <1>a DEF TypeOK
<1>4. Found(w)'
  <2>. SUFFICES ASSUME NEW i \in Passed(w)', ok
                PROVE  file'[i] # "file" \/ i \in leaked
    BY <1>1, <1>a DEF Found, Running
  <2>1. /\ i \in Used(snap[w]) \cup new[w] \cup {next}
        /\ i \notin Used(View(w)') /\ i # None
        /\ i \notin del[w] \cup marked[w]
    <3>1. /\ i \in Used(snap[w]) \cup new'[w] /\ i \notin Used(View(w)')
          /\ i \notin del[w] \cup marked[w]
      BY <1>1 DEF Passed
    <3>2. None \notin Used(snap[w]) \cup new'[w]
      BY <1>0, <1>1, IdsAreNumbers DEF TypeOK, Used
    <3>. QED BY <1>1, <3>1, <3>2
  <2>2. i # next
    <3>1. PICK s \in Slots : s \in todo[w]
      BY <1>0, <1>1 DEF Cleared, TypeOK
    <3>. QED BY <1>v, <2>1, <3>1 DEF Used
  <2>3. i \notin Used(View(w))
    BY <1>0, <1>1, <1>v, <2>1 DEF Cleared, Used
  <2>4. i \in Passed(w) /\ i \in Instances
    BY <1>0, <2>1, <2>2, <2>3 DEF Passed, Used, TypeOK
  <2>. QED BY <1>0, <1>1, <1>5, <2>2, <2>4 DEF Found, Running
<1>6. \A i \in Instances : Owns(w, i) => Owns(w, i)'
  BY <1>1 DEF Owns
<1>7. ASSUME NEW i \in Instances, i = next
      PROVE  /\ file'[i] = "file" \/ file'[i] = file[i]
             /\ file'[i] = "file" => \/ i \in leaked' \/ Owns(w, i)'
                                     \/ file[i] = "file" /\ ~Owns(w, i)
             /\ i \notin Used(refs) \cup marked[w]
  <2>1. i \notin Used(refs)
    BY <1>0, <1>7 DEF IInv, TypeOK, Used
  <2>2. ~Owns(w, i)
    BY <1>0, <1>1, <1>7 DEF TypeOK, Below, Owns
  <2>3. i \in new'[w] => Owns(w, i)'
    BY DEF Owns
  <2>. QED BY <1>0, <1>a, <1>1, <1>f, <1>7, <2>1, <2>2, <2>3 DEF TypeOK
<1>8. \A i \in marked[w] : file[i] = "deleted"
  BY <1>0 DEF MarkedAway
<1>9. lost \subseteq lost' /\ leaked \subseteq leaked'
  BY <1>1, <1>a
<1>10. ASSUME NEW i \in Instances, i # next
       PROVE  /\ file'[i] = file[i]
              /\ file[i] = "file" => \/ i \in Used(refs') \/ Owns(w, i)'
                                     \/ i \notin Used(refs) /\ ~Owns(w, i)
  BY <1>1, <1>5, <1>6, <1>10
<1>11. ASSUME NEW i \in Instances PROVE FileStays(w, i)
  <2>1. CASE i = next
    BY <1>1, <1>7, <1>f, <2>1 DEF FileStays
  <2>2. CASE i # next
    BY <1>1, <1>8, <1>10, <2>2 DEF FileStays
  <2>. QED BY <2>1, <2>2
<1>. QED BY <1>1, <1>2, <1>3, <1>4, <1>9, <1>11, TidyStep

\* Check: nothing changes but the label.
LEMMA CheckTidy ==
  ASSUME IInv, IInv', Tidy, NEW w \in Workers, Check(w)
  PROVE  Tidy'
<1>0. TypeOK /\ Cleared(w) /\ Found(w)
  BY DEF IInv, Tidy
<1>1. /\ pc[w] = "link" /\ pc'[w] = "checked"
      /\ UNCHANGED <<refs, file, snap, wrote, mine, todo, new, del, marked, lost,
                     leaked>>
  BY <1>0 DEF TypeOK, Check, Go, table, tx, sets, ghost
<1>2. Frame(w)
  BY <1>0 DEF TypeOK, Check, Go, Frame, tx, sets
<1>3. View(w)' = View(w)
  BY <1>1 DEF View
<1>4. Cleared(w)'
  BY <1>0, <1>1, <1>3 DEF Cleared
<1>5. Found(w)'
  <2>1. Passed(w)' = Passed(w)
    BY <1>1, <1>3 DEF Passed, Used
  <2>. QED BY <1>0, <1>1, <2>1 DEF Found, Running
<1>. QED BY <1>1, <1>2, <1>4, <1>5, CalmStep

\* Link and Copy: the row hides none.
LEMMA LinkTidy ==
  ASSUME IInv, IInv', Tidy, NEW w \in Workers, Link(w)
  PROVE  Tidy'
<1>0. TypeOK /\ Cleared(w) /\ Found(w)
  BY DEF IInv, Tidy
<1>1. /\ pc[w] = "checked" /\ pc'[w] = "open"
      /\ wrote'[w] = wrote[w] \cup todo[w]
      /\ \A s \in Slots :
           mine'[w][s] = IF s \in todo[w] THEN want[w] ELSE mine[w][s]
      /\ UNCHANGED <<refs, file, snap, new, del, marked, lost, leaked>>
  BY <1>0 DEF TypeOK, Link, Go, table, sets, ghost
<1>2. Frame(w)
  BY <1>0 DEF TypeOK, Link, Go, Frame, sets
<1>3. Cleared(w)'
  BY <1>1 DEF Cleared
<1>4. Found(w)'
  <2>1. \A s \in Slots \ todo[w] : View(w)'[s] = View(w)[s]
    BY <1>1 DEF View
  <2>2. \A s \in todo[w] : View(w)[s] = None
    BY <1>0, <1>1 DEF Cleared
  <2>3. Used(View(w)) \subseteq Used(View(w)')
    BY <2>1, <2>2 DEF Used
  <2>4. Passed(w)' \subseteq Passed(w)
    BY <1>1, <2>3 DEF Passed
  <2>. QED BY <1>0, <1>1, <2>4 DEF Found, Running
<1>. QED BY <1>1, <1>2, <1>3, <1>4, CalmStep

LEMMA CopyTidy ==
  ASSUME IInv, IInv', Tidy, NEW w \in Workers, NEW s \in Slots, NEW t \in Slots,
         Copy(w, s, t)
  PROVE  Tidy'
<1>0. TypeOK /\ Found(w)
  BY DEF IInv, Tidy
<1>1. /\ pc[w] = "open" /\ wrote'[w] = wrote[w] \cup {t}
      /\ \A r \in Slots \ {t} : mine'[w][r] = mine[w][r]
      /\ View(w)[t] = None
      /\ UNCHANGED <<refs, file, pc, snap, new, del, marked, lost, leaked>>
  BY <1>0 DEF TypeOK, Copy, table, sets, ghost
<1>2. Frame(w)
  BY <1>0 DEF TypeOK, Copy, Frame, sets
<1>3. Cleared(w)'
  BY <1>1 DEF Cleared
<1>4. Found(w)'
  <2>1. \A r \in Slots \ {t} : View(w)'[r] = View(w)[r]
    BY <1>1 DEF View
  <2>2. Used(View(w)) \subseteq Used(View(w)')
    BY <1>1, <2>1 DEF Used
  <2>3. Passed(w)' \subseteq Passed(w)
    BY <1>1, <2>2 DEF Passed
  <2>. QED BY <1>0, <1>1, <2>3 DEF Found, Running
<1>. QED BY <1>1, <1>2, <1>3, <1>4, CalmStep

\* Fail: a request that fails removes no more files for its rows.
LEMMA FailTidy ==
  ASSUME IInv, IInv', Tidy, NEW w \in Workers, Fail(w)
  PROVE  Tidy'
<1>0. TypeOK
  BY DEF IInv
<1>1. /\ pc[w] # "commit" /\ pc'[w] = "rollback"
      /\ UNCHANGED <<refs, file, new, marked, lost, leaked>>
  BY <1>0 DEF TypeOK, Fail, Go, table, sets, ghost
<1>2. Frame(w)
  BY <1>0 DEF TypeOK, Fail, Go, Frame, tx, sets
<1>. QED BY <1>1, <1>2, CalmStep DEF Cleared, Found, Running

\* CommitFiles: what was on the lists has no file any more, and what was passed
\* by had none; the new files have rows, or are left.
LEMMA CommitFilesTidy ==
  ASSUME IInv, IInv', Tidy, NEW w \in Workers, CommitFiles(w)
  PROVE  Tidy'
<1>0. TypeOK /\ Dropped(w) /\ Unseen /\ Found(w) /\ MarkedAway /\ Deleted
  BY DEF IInv, Local, Tidy
<1>. DEFINE gone == {i \in del[w] : file[i] = "file"} \cup marked[w]
<1>a. PICK stay \in SUBSET (del[w] \cup marked[w]) :
        /\ file' = [i \in Instances |->
                      IF i \in gone \ stay THEN "none" ELSE file[i]]
        /\ lost' = lost \cup LostByRace(w, {i \in gone : file'[i] # "file"})
                     \cup (IF stay = {} THEN {} ELSE LostByHalf(w, file'))
        /\ leaked' = leaked
             \cup (IF stay = {} THEN {} ELSE
                     LeftByHalf(w, file') \cup (stay \ Used(refs)))
        /\ Go(w, IF stay = {} THEN "commit" ELSE "undo")
  BY DEF CommitFiles
<1>g. /\ \A i \in del[w] : file[i] = "file" => i \in gone
      /\ \A i \in marked[w] : i \in gone
      /\ gone \subseteq del[w] \cup marked[w]
  OBVIOUS
<1>. HIDE DEF gone
<1>1. /\ pc[w] = "open" /\ pc'[w] = (IF stay = {} THEN "commit" ELSE "undo")
      /\ new'[w] = {} /\ del'[w] = {} /\ marked'[w] = {}
      /\ UNCHANGED <<refs, snap, wrote, mine>>
  BY <1>0, <1>a DEF TypeOK, CommitFiles, Go, table, tx
<1>2. Frame(w)
  BY <1>0, <1>a DEF TypeOK, CommitFiles, Go, Frame, tx
<1>3. Cleared(w)'
  BY <1>1 DEF Cleared
<1>4. Found(w)'
  <2>. SUFFICES ASSUME stay = {}, NEW i \in Passed(w)'
                PROVE  file'[i] # "file" \/ i \in leaked'
    BY <1>1 DEF Found, Running
  <2>1. View(w)' = View(w)
    BY <1>1 DEF View
  <2>2. i \in Used(snap[w]) /\ i \notin Used(View(w))
    BY <1>1, <2>1 DEF Passed
  <2>3. i \in Instances
    BY <1>0, <2>2 DEF TypeOK, Used
  <2>4. CASE i \in del[w] \cup marked[w]
    BY <1>a, <1>g, <2>3, <2>4
  <2>5. CASE i \notin del[w] \cup marked[w]
    <3>1. i \in Passed(w)
      BY <2>2, <2>5 DEF Passed
    <3>. QED BY <1>0, <1>1, <1>a, <2>3, <3>1 DEF Found, Running
  <2>. QED BY <2>4, <2>5
<1>5. ASSUME NEW i \in Instances, file'[i] = "file", Owns(w, i)
      PROVE  i \in leaked' \/ Owns(w, i)'
  <2>1. i \in new[w] /\ file[i] = "file" /\ i \notin gone \ stay
    BY <1>1, <1>5, <1>a DEF Owns
  <2>2. i \notin Used(refs) /\ \A s \in Slots : snap[w][s] # i
    BY <1>0, <2>1 DEF Unseen, Used
  <2>3. CASE i \in Used(View(w))
    <3>1. PICK s \in Slots : s \in wrote[w] /\ mine[w][s] = i
      BY <2>2, <2>3 DEF Used, View
    <3>2. CASE stay = {}
      BY <1>1, <3>1, <3>2 DEF Owns
    <3>3. CASE stay # {}
      <4>1. i \in LeftByHalf(w, file')
        BY <1>5, <2>2, <3>1 DEF LeftByHalf
      <4>. QED BY <1>a, <3>3, <4>1
    <3>. QED BY <3>2, <3>3
  <2>4. CASE i \in del[w] \cup marked[w]
    <3>1. i \in stay
      BY <1>g, <2>1, <2>4
    <3>. QED BY <1>a, <2>2, <3>1
  <2>5. CASE i \notin Used(View(w)) \cup del[w] \cup marked[w]
    <3>1. i \in Passed(w)
      BY <2>1, <2>5 DEF Passed
    <3>. QED BY <1>0, <1>1, <1>a, <2>1, <3>1 DEF Found, Running
  <2>. QED BY <2>3, <2>4, <2>5
<1>6. ASSUME NEW i \in Instances, file'[i] = "deleted", i \in marked[w]
      PROVE  i \in lost' \cup leaked'
  <2>1. i \in stay /\ i \in gone
    BY <1>6, <1>a, <1>g
  <2>2. CASE i \notin Used(refs)
    BY <1>a, <2>1, <2>2
  <2>3. CASE i \in Used(refs)
    <3>1. PICK s \in Slots : refs[s] = i
      BY <2>3 DEF Used
    <3>2. CASE s \in wrote[w]
      <4>1. i \in LostByHalf(w, file')
        BY <1>6, <2>3, <3>1, <3>2 DEF LostByHalf
      <4>. QED BY <1>a, <2>1, <4>1
    <3>3. CASE s \notin wrote[w]
      <4>1. snap[w][s] # i
        BY <1>0, <1>1, <1>6, <3>3 DEF Dropped, Running, View
      <4>2. i \in LostByRace(w, {j \in gone : file'[j] # "file"})
        BY <1>6, <2>1, <3>1, <3>3, <4>1 DEF LostByRace
      <4>. QED BY <1>a, <4>2
    <3>. QED BY <3>2, <3>3
  <2>. QED BY <2>2, <2>3
<1>7. ASSUME NEW i \in Instances, file[i] = "deleted", file'[i] # "deleted"
      PROVE  \A v \in Workers \ {w} : i \notin marked[v]
  <2>1. i \in gone
    BY <1>7, <1>a
  <2>2. i \in marked[w]
    BY <1>7, <2>1 DEF gone
  <2>. QED BY <1>0, <2>2 DEF MarkedAway
<1>8. \A i \in Instances : file'[i] # "none" => file'[i] = file[i]
  BY <1>a
<1>9. lost \subseteq lost' /\ leaked \subseteq leaked'
  BY <1>a
<1>. QED
  BY <1>1, <1>2, <1>3, <1>4, <1>5, <1>6, <1>7, <1>8, <1>9, TidyStep
  DEF FileStays

\* CommitRows: a row that goes, goes in view, or the file is left by a race.
LEMMA CommitRowsTidy ==
  ASSUME IInv, IInv', Tidy, NEW w \in Workers, CommitRows(w)
  PROVE  Tidy'
<1>0. TypeOK /\ Quiet(w) /\ Found(w)
  BY DEF IInv, Local, Tidy
<1>1. /\ pc[w] = "commit" /\ Close({w}) /\ refs' = Merged(w) /\ lost' = lost
      /\ leaked' = leaked \cup LeftByRace(w)
      /\ UNCHANGED <<file, new, del, marked>>
  BY DEF CommitRows, sets
<1>2. /\ \A v \in {w} : Closed(v)
      /\ \A v \in Workers \ {w} :
           /\ pc'[v] = pc[v] /\ snap'[v] = snap[v] /\ wrote'[v] = wrote[v]
           /\ mine'[v] = mine[v] /\ held'[v] = held[v] /\ todo'[v] = todo[v]
           /\ want'[v] = want[v] /\ ops'[v] = ops[v]
  BY <1>0, <1>1, CloseCloses
<1>3. Frame(w) /\ pc'[w] = "idle"
  BY <1>1, <1>2 DEF Frame, Closed
<1>4. new[w] = {} /\ del[w] = {} /\ marked[w] = {}
  BY <1>0, <1>1 DEF Quiet
<1>5. ASSUME NEW i \in Instances, Owns(w, i) PROVE i \in Used(refs')
  <2>1. PICK s \in wrote[w] : mine[w][s] = i
    BY <1>4, <1>5 DEF Owns
  <2>2. s \in Slots /\ refs'[s] = i /\ i # None
    BY <1>0, <1>1, <2>1, IdsAreNumbers DEF TypeOK, Merged
  <2>. QED BY <2>2 DEF Used
<1>6. ASSUME NEW i \in Instances, file[i] = "file", i \in Used(refs)
      PROVE  i \in Used(refs') \cup leaked'
  <2>. SUFFICES ASSUME i \notin Used(refs'), i \notin leaked'
                PROVE  FALSE
    OBVIOUS
  <2>1. PICK s \in Slots : refs[s] = i
    BY <1>6 DEF Used
  <2>2. \A t \in Slots : Merged(w)[t] # i
    BY <1>1, IdsAreNumbers DEF Used
  <2>3. s \in wrote[w] /\ \A t \in wrote[w] : t \in Slots => mine[w][t] # i
    BY <2>1, <2>2 DEF Merged
  <2>4. /\ \A t \in Slots \ wrote[w] : snap[w][t] # i
        /\ snap[w][s] = i
    BY <1>1, <1>6, <2>1, <2>3 DEF LeftByRace
  <2>5. i \in Passed(w)
    BY <1>4, <1>6, <2>3, <2>4, IdsAreNumbers DEF Passed, Used, View
  <2>. QED BY <1>0, <1>1, <1>6, <2>5 DEF Found
<1>. QED
  BY <1>1, <1>3, <1>4, <1>5, <1>6, TidyStep
  DEF FileStays, Cleared, Found, Running

\* CommitFails: the new files have no rows and are left.
LEMMA CommitFailsTidy ==
  ASSUME IInv, IInv', Tidy, NEW w \in Workers, CommitFails(w)
  PROVE  Tidy'
<1>0. TypeOK /\ Quiet(w)
  BY DEF IInv, Local
<1>1. /\ pc[w] = "commit" /\ Close({w})
      /\ lost' = lost \cup LostByHalf(w, file)
      /\ leaked' = leaked \cup LeftByHalf(w, file)
      /\ UNCHANGED <<refs, file, new, del, marked>>
  BY DEF CommitFails, sets, table
<1>2. /\ \A v \in {w} : Closed(v)
      /\ \A v \in Workers \ {w} :
           /\ pc'[v] = pc[v] /\ snap'[v] = snap[v] /\ wrote'[v] = wrote[v]
           /\ mine'[v] = mine[v] /\ held'[v] = held[v] /\ todo'[v] = todo[v]
           /\ want'[v] = want[v] /\ ops'[v] = ops[v]
  BY <1>0, <1>1, CloseCloses
<1>3. Frame(w) /\ pc'[w] = "idle"
  BY <1>1, <1>2 DEF Frame, Closed
<1>4. new[w] = {} /\ del[w] = {} /\ marked[w] = {}
  BY <1>0, <1>1 DEF Quiet
<1>5. ASSUME NEW i \in Instances, file[i] = "file", Owns(w, i)
      PROVE  i \in Used(refs') \cup leaked'
  BY <1>1, <1>4, <1>5 DEF Owns, LeftByHalf
<1>. QED
  BY <1>1, <1>3, <1>4, <1>5, TidyStep
  DEF FileStays, Cleared, Found, Running

\* RollbackFiles: the new files go; a file that comes back has a committed row,
\* and nobody is about to take it having missed the file, or it is left.
LEMMA RollbackFilesTidy ==
  ASSUME IInv, IInv', Tidy, NEW w \in Workers, RollbackFiles(w)
  PROVE  Tidy'
<1>0. TypeOK /\ MarkedAway
  BY DEF IInv, Tidy
<1>a. PICK stay \in SUBSET (new[w] \cup marked[w]), back \in SUBSET Instances :
        /\ back = marked[w] \ stay
        /\ file' = [i \in Instances |->
                      IF i \in back THEN "file"
                      ELSE IF i \in new[w] \ stay /\ file[i] = "file"
                      THEN "none" ELSE file[i]]
        /\ lost' = lost \cup (stay \cap marked[w])
        /\ leaked' = leaked \cup (stay \cap new[w]) \cup LeftRenamed(w, back)
  BY <1>0 DEF RollbackFiles, TypeOK
<1>1. /\ pc[w] = "rollback" /\ pc'[w] = "undo" /\ marked'[w] = {}
      /\ refs' = refs
  BY <1>0 DEF TypeOK, RollbackFiles, Go, table
<1>2. Frame(w)
  BY <1>0 DEF TypeOK, RollbackFiles, Go, Frame, tx
<1>3. Cleared(w)' /\ Found(w)'
  BY <1>1 DEF Cleared, Found, Running
<1>4. lost \subseteq lost' /\ leaked \subseteq leaked'
  BY <1>a
<1>5. ASSUME NEW i \in back
      PROVE  /\ i \in Used(refs) \cup leaked'
             /\ \/ i \in leaked'
                \/ \A v \in Workers \ {w} :
                     pc[v] \in Running \cup {"commit"} => i \notin Passed(v)
  BY <1>a, <1>5 DEF LeftRenamed, Running
<1>6. ASSUME NEW i \in Instances PROVE FileStays(w, i)
  <2>1. CASE i \in back
    <3>1. file'[i] = "file" /\ i \in marked[w]
      BY <1>a, <2>1
    <3>2. \A v \in Workers \ {w} : i \notin marked[v]
      BY <1>0, <3>1 DEF MarkedAway
    <3>. QED BY <1>1, <1>5, <2>1, <3>1, <3>2 DEF FileStays
  <2>2. CASE i \notin back
    <3>1. /\ file'[i] # "none" => file'[i] = file[i]
          /\ file[i] = "deleted" => file'[i] = "deleted"
          /\ file'[i] = "file" => i \notin new[w] \/ i \in leaked'
      BY <1>a, <2>2
    <3>2. ~Owns(w, i) \/ i \in new[w]
      BY <1>1 DEF Owns
    <3>3. i \in marked[w] => i \in lost'
      BY <1>a, <2>2
    <3>. QED BY <1>1, <3>1, <3>2, <3>3 DEF FileStays
  <2>. QED BY <2>1, <2>2
<1>. QED BY <1>2, <1>3, <1>4, <1>6, TidyStep

\* RollbackRows: nothing that anybody else sees.
LEMMA RollbackRowsTidy ==
  ASSUME IInv, IInv', Tidy, NEW w \in Workers, RollbackRows(w)
  PROVE  Tidy'
<1>0. TypeOK /\ Quiet(w)
  BY DEF IInv, Local
<1>1. /\ pc[w] = "undo" /\ Close({w})
      /\ UNCHANGED <<refs, file, new, del, marked, lost, leaked>>
  BY DEF RollbackRows, sets, table, ghost
<1>2. /\ \A v \in {w} : Closed(v)
      /\ \A v \in Workers \ {w} :
           /\ pc'[v] = pc[v] /\ snap'[v] = snap[v] /\ wrote'[v] = wrote[v]
           /\ mine'[v] = mine[v] /\ held'[v] = held[v] /\ todo'[v] = todo[v]
           /\ want'[v] = want[v] /\ ops'[v] = ops[v]
  BY <1>0, <1>1, CloseCloses
<1>3. Frame(w) /\ pc'[w] = "idle"
  BY <1>1, <1>2 DEF Frame, Closed
<1>. QED BY <1>1, <1>3, CalmStep DEF Cleared, Found, Running

\* Crash: what is renamed, new or half committed stays as it is.
LEMMA CrashTidy ==
  ASSUME IInv, IInv', Tidy, Crash
  PROVE  Tidy'
<1>0. TypeOK /\ Deleted /\ Kept
  BY DEF IInv, Tidy
<1>1. /\ Close(Workers) /\ UNCHANGED <<refs, file>>
      /\ lost' = lost \cup
           {i \in Instances : \E w \in Workers :
              \/ i \in marked[w]
              \/ pc[w] = "commit" /\ i \in LostByHalf(w, file)}
      /\ leaked' = leaked \cup
           {i \in Instances : \E w \in Workers :
              \/ i \in new[w]
              \/ pc[w] = "commit" /\ i \in LeftByHalf(w, file)}
      /\ \A v \in Workers : marked'[v] = {}
  BY DEF Crash, table
<1>2. \A v \in Workers : pc'[v] = "idle"
  BY <1>1 DEF Close
<1>3. \A v \in Workers : Cleared(v)' /\ Found(v)'
  BY <1>2 DEF Cleared, Found, Running
<1>4. MarkedAway'
  BY <1>1 DEF MarkedAway
<1>5. Deleted'
  BY <1>0, <1>1 DEF Deleted
<1>6. Kept'
  <2>. SUFFICES ASSUME NEW i \in Instances, file[i] = "file",
                       i \notin Used(refs),
                       i \notin leaked
                PROVE  i \in leaked'
    BY <1>1 DEF Kept
  <2>1. PICK v \in Workers : Owns(v, i)
    BY <1>0 DEF Kept
  <2>2. \/ i \in new[v]
        \/ pc[v] = "commit" /\ i \in LeftByHalf(v, file)
    BY <2>1 DEF Owns, LeftByHalf
  <2>. QED BY <1>1, <2>2
<1>. QED BY <1>3, <1>4, <1>5, <1>6 DEF Tidy

LEMMA InitTidy == Init => Tidy
<1>. SUFFICES ASSUME Init PROVE Tidy
  OBVIOUS
<1>1. \A w \in Workers : Cleared(w) /\ Found(w)
  BY DEF Init, Cleared, Found, Running
<1>2. MarkedAway
  BY DEF Init, MarkedAway
<1>3. Deleted /\ Kept
  BY DEF Init, Deleted, Kept
<1>. QED BY <1>1, <1>2, <1>3 DEF Tidy

LEMMA NextTidy == IInv /\ IInv' /\ Tidy /\ [Next]_vars => Tidy'
<1>. SUFFICES ASSUME IInv, IInv', Tidy, [Next]_vars PROVE Tidy'
  OBVIOUS
<1>1. ASSUME NEW w \in Workers, Begin(w) PROVE Tidy'
  BY <1>1, BeginTidy
<1>2. ASSUME NEW w \in Workers, NEW s \in Slots, StartSave(w, s) PROVE Tidy'
  BY <1>2, StartsTidy
<1>3. ASSUME NEW w \in Workers, NEW s \in Slots, NEW i \in Instances,
             StartLink(w, s, i)
      PROVE  Tidy'
  BY <1>3, StartsTidy
<1>4. ASSUME NEW w \in Workers, NEW S \in SUBSET Slots, StartDelete(w, S)
      PROVE  Tidy'
  BY <1>4, StartsTidy
<1>5. ASSUME NEW w \in Workers,
             \/ Replace(w) \/ Delete(w) \/ Put(w)
             \/ Check(w) \/ Link(w) \/ Fail(w)
      PROVE  Tidy'
  BY <1>5, ReplaceTidy, DeleteTidy, PutTidy, CheckTidy, LinkTidy, FailTidy
<1>6. ASSUME NEW w \in Workers, NEW s \in Slots, NEW t \in Slots, Copy(w, s, t)
      PROVE  Tidy'
  BY <1>6, CopyTidy
<1>7. ASSUME NEW w \in Workers,
             CommitFiles(w) \/ CommitRows(w) \/ CommitFails(w)
      PROVE  Tidy'
  BY <1>7, CommitFilesTidy, CommitRowsTidy, CommitFailsTidy
<1>8. ASSUME NEW w \in Workers, RollbackFiles(w) \/ RollbackRows(w)
      PROVE  Tidy'
  BY <1>8, RollbackFilesTidy, RollbackRowsTidy
<1>9. CASE Crash
  BY <1>9, CrashTidy
<1>10. CASE UNCHANGED vars
  <2>1. UNCHANGED <<refs, file, pc, snap, wrote, mine, todo, new, del, marked,
                    lost, leaked>>
    BY <1>10 DEF vars, table, tx, sets, ghost
  <2>2. ASSUME NEW v \in Workers PROVE Cleared(v)' /\ Found(v)'
    <3>1. View(v)' = View(v)
      BY <2>1 DEF View
    <3>2. Passed(v)' = Passed(v)
      BY <2>1, <3>1 DEF Passed, Used
    <3>3. Cleared(v) /\ Found(v)
      BY DEF Tidy
    <3>. QED BY <2>1, <3>1, <3>2, <3>3 DEF Cleared, Found
  <2>3. MarkedAway' /\ Deleted'
    BY <2>1 DEF Tidy, MarkedAway, Deleted
  <2>4. Kept'
    BY <2>1 DEF Tidy, Kept, Owns, Used
  <2>. QED BY <2>2, <2>3, <2>4 DEF Tidy
<1>. QED
  BY <1>1, <1>2, <1>3, <1>4, <1>5, <1>6, <1>7, <1>8, <1>9, <1>10 DEF Next

\* No step brings a removed file back: new data is written under an id that was
\* not given out, and what a rollback renames back is there as *.deleted.
LEMMA NextGone ==
    IInv /\ Tidy /\ [Next]_vars =>
      \A i \in Instances : i < next /\ file[i] = "none" => file'[i] = "none"
<1>. SUFFICES ASSUME IInv, Tidy, [Next]_vars,
                     NEW i \in Instances, i < next, file[i] = "none"
              PROVE  file'[i] = "none"
  OBVIOUS
<1>. USE DEF table, tx, sets, ghost
<1>0. file \in [Instances -> {"none", "file", "deleted"}] /\ i # next
  BY IdsAreNumbers DEF IInv, TypeOK
<1>1. CASE file' = file
  BY <1>1
<1>2. ASSUME NEW w \in Workers, Replace(w)  PROVE file'[i] = "none"
  BY <1>0, <1>2 DEF Replace
<1>3. ASSUME NEW w \in Workers, Put(w)  PROVE file'[i] = "none"
  BY <1>0, <1>3 DEF Put
<1>4. ASSUME NEW w \in Workers, CommitFiles(w)  PROVE file'[i] = "none"
  BY <1>0, <1>4 DEF CommitFiles
<1>5. ASSUME NEW w \in Workers, RollbackFiles(w)  PROVE file'[i] = "none"
  <2>1. i \notin marked[w]
    BY <1>0 DEF Tidy, MarkedAway
  <2>. QED  BY <1>0, <1>5, <2>1 DEF RollbackFiles
<1>6. ASSUME NEW w \in Workers,
             \/ Begin(w) \/ \E s \in Slots : StartSave(w, s)
             \/ \E s \in Slots, j \in Instances : StartLink(w, s, j)
             \/ \E S \in SUBSET Slots : StartDelete(w, S)
             \/ Delete(w) \/ Check(w) \/ Link(w) \/ Fail(w)
             \/ \E s, t \in Slots : Copy(w, s, t)
             \/ CommitRows(w) \/ CommitFails(w) \/ RollbackRows(w)
      PROVE  file' = file
  BY <1>6 DEF Begin, StartSave, StartLink, StartDelete, StartOn, Delete, Check,
              Link, Copy, Fail, CommitRows, CommitFails, RollbackRows
<1>7. Crash \/ UNCHANGED vars => file' = file
  BY DEF Crash, vars
<1>. QED  BY <1>1, <1>2, <1>3, <1>4, <1>5, <1>6, <1>7 DEF Next

-----------------------------------------------------------------------------
(* The theorems. *)

\* Every variable keeps its type.
THEOREM TypeCorrect == Spec => []TypeOK
<1>1. IInv => TypeOK
  BY DEF IInv
<1>. QED BY InitIInv, NextIInv, <1>1, PTL DEF Spec

\* However requests save, replace, link, copy and delete large properties side
\* by side, fail, commit, roll back or die, a committed row of singleinstances
\* has its file, except in the cases FileThere names (Commit and Rollback of
\* ECFileAttachment, DeleteAttachment and the order of the two commits).
THEOREM RowsHaveFiles == Spec => []FileThere
<1>1. IInv => FileThere
  BY DEF IInv
<1>. QED BY InitIInv, NextIInv, <1>1, PTL DEF Spec

\* The rollback of a request removes no file that anybody else uses: nothing on
\* its list m_setNewAttachment is in a committed row, in the snapshot of any
\* transaction or in a row another transaction has written.
THEOREM NewUnseen == Spec => []Unseen
<1>1. IInv => Unseen
  BY DEF IInv
<1>. QED BY InitIInv, NextIInv, <1>1, PTL DEF Spec

\* Every file in the attachment directory is one that a committed row uses, or
\* that an open transaction is going to use or to remove, except for those left
\* in one of the ways NothingLeft names, whatever number of requests, failures
\* and crashes there is (Commit and Rollback of ECFileAttachment, the callers'
\* order of the two commits, GetOrphanedInstances).
THEOREM FilesHaveUsers == Spec => []NothingLeft
<1>1. IInv /\ Tidy => NothingLeft
  BY TidyLeavesNothing DEF IInv
<1>. QED
  BY InitIInv, NextIInv, InitTidy, NextTidy, <1>1, PTL DEF Spec

\* Whatever requests, failures and crashes there are, the file of an instance
\* that was given out and is gone does not come back: no id is used twice and
\* a rollback renames back only what it finds (SaveAttachmentInstance, Commit
\* and Rollback of ECFileAttachment).
THEOREM RemovedForGood == Spec => GoneForGood
<1>. QED
  BY InitIInv, NextIInv, InitTidy, NextTidy, NextGone, PTL DEF Spec, GoneForGood
=============================================================================
