-------------------------- MODULE SearchFoldersProofs --------------------------
(***************************************************************************)
(* Searches, updates and the calls that start and end searches, for any    *)
(* number of search folders, messages, workers and threads: no object is   *)
(* used after it was deleted, no message is missed, nothing stale stays,   *)
(* and the status in the database is right for a restart.                  *)
(*                                                                         *)
(* That no object is used too long (SInv) does not need the calls for one  *)
(* search folder to come one after the other; the rest (IInv) does.        *)
(*                                                                         *)
(* The mutex of the map is not held by a search.  What keeps it apart from *)
(* the calls is the object it works on, which is in the map or in the hand *)
(* of one worker (Objects, Mapped, Works); what keeps it apart from the    *)
(* updates is that both read a message's properties anew, and that an      *)
(* update is for the folder the message was in (Events, Selected).         *)
(***************************************************************************)
EXTENDS SearchFolders, TLAPS, WellFoundedInduction

\* The events that are queued, taken or being processed.
Told == events \cup batch \cup group

-----------------------------------------------------------------------------
(* The inductive invariant. *)

\* An object without a search thread is marked so; one in the map or waited for
\* by a worker is allocated, and there is one way only to get at it.
Held ==
    /\ \A o \in Objs : /\ free[o] <=> spc[o] = "off"
                       /\ o \notin live => spc[o] = "off"
                       /\ o \in live => of[o] \in Folders
    /\ \A f \in Folders : map[f] # None => map[f] \in live /\ of[map[f]] = f
    /\ \A w \in Workers :
          /\ wpc[w] # "idle" => wf[w] \in Serves[w]
          /\ wpc[w] \in Waits =>
                /\ wo[w] \in live /\ \A f \in Folders : map[f] # wo[w]
                /\ \A v \in Workers \ {w} : wpc[v] \in Waits => wo[v] # wo[w]

\* An object that is not allocated is not marked as cancelled; one that is, is
\* in the map or waited for by a worker.
Objects == \A o \in Objs :
    /\ o \notin live => ~exit[o]
    /\ o \in live => \/ map[of[o]] = o
                     \/ \E w \in Workers : wpc[w] \in Waits /\ wo[w] = o

\* The map leads to objects that are not cancelled.
Mapped == \A f \in Folders : map[f] # None => ~exit[map[f]]

\* A worker has its search folder to itself, out of the map.
Works == \A w \in Workers :
    /\ wpc[w] # "idle" => map[wf[w]] = None
    /\ wpc[w] \in Waits => of[wo[w]] = wf[w]
    /\ wpc[w] = "insert" \/ (wpc[w] = "reset" /\ wop[w] = "add") =>
          status[wf[w]] = "rebuild" \/ wf[w] \in unset
    /\ wpc[w] \in {"rebuild", "insert"} => wop[w] = "add"

\* A search of f is at work; f is in the map, or about to be said stopped.
Searches(f) == \E o \in Objs : of[o] = f /\ spc[o] \in {"reset", "select"}
Served(f) == map[f] # None \/ Changing(f)

\* The status of a search folder, unless it could not be written, while it is
\* searched and while it is not.
Stated(f) ==
    /\ map[f] # None => status[f] # "stopped"
    /\ map[f] = None /\ status[f] = "running" => Changing(f)
    /\ Searches(f) => status[f] = "rebuild"
    /\ Served(f) /\ f \in broken => status[f] = "rebuild"
Searching == \A f \in Folders : /\ Searches(f) => f \notin broken
                                /\ f \notin unset => Stated(f)

\* ProcessMessageChange works on search folders in the map, with the mutex
\* held; the queue has numbered its events.
Processing ==
    /\ group = {} => left = {}
    /\ \A f \in left : map[f] # None
    /\ \A d, e \in events \cup batch : d.n = e.n => d = e
    /\ \A e \in events \cup batch : e.n < told

\* What an event says is still so, of messages that were not overtaken.
Events ==
    /\ \A e \in unsent \cup Told :
          /\ e.type = "DELETE" => life[e.msg] \in {"trash", "gone"}
          /\ e.type # "DELETE" /\ e.msg \notin overtaken =>
                life[e.msg] = "there"
    /\ \A e \in Told :
          e.type # "DELETE" /\ e.msg \notin overtaken => e.place = loc[e.msg]

\* So it is with what a search has selected.
Selected == \A o \in Objs :
    /\ places[o] \subseteq Target
    /\ \A m \in ids[o] \ overtaken : life[m] = "there" /\ loc[m] \in Target

\* An update is on its way that removes m from f if it does not fit.
Fixing(f, m) ==
    \/ \E e \in unsent \cup events \cup batch : e.msg = m /\ e.type # "ADD"
    \/ f \in left /\ \E e \in group : e.msg = m /\ e.type # "ADD"

Complete(f) == Served(f) /\ f \notin dropped \cup broken \cup cut =>
    \A m \in Messages :
        Wanted(m) => m \in results[f] \/ Pending(f, m) \/ ToSearch(f, m)
Clean(f) == map[f] # None /\ f \notin dropped =>
    \A m \in results[f] \ overtaken :
        Fits(m) \/ Fixing(f, m)

\* What is left of an earlier search is gone when the folder comes back.
Emptied == \A w \in Workers : wpc[w] = "insert" => results[wf[w]] = {}

\* Only what is out of the map has been cut off.
Whole(f) == map[f] # None => f \notin cut

Threads == Objects /\ Mapped /\ Works /\ Searching
Results == \A f \in Folders : Complete(f) /\ Clean(f) /\ Whole(f)
SInv == TypeOK /\ Held /\ Processing
IInv == SInv /\ Threads /\ Events /\ Selected /\ Emptied /\ Results

-----------------------------------------------------------------------------
(* Facts about numbers and names. *)

LEMMA LeastNumber ==
    ASSUME NEW T \in SUBSET Nat, T # {}
    PROVE  \E x \in T : \A y \in T : x <= y
<1>. DEFINE R == OpToRel(<, Nat)
<1>1. IsWellFoundedOn(R, Nat)
  BY NatLessThanWellFounded
<1>2. \A x, y \in Nat : y < x => <<y, x>> \in R
  BY DEF OpToRel
<1>. HIDE DEF R
<1>3. PICK x \in T : \A y \in T : <<y, x>> \notin R
  BY <1>1, WFMin
<1>4. ASSUME NEW y \in T  PROVE x <= y
  <2>1. x \in Nat /\ y \in Nat
    OBVIOUS
  <2>2. ~ (y < x)
    BY <1>2, <1>3, <2>1
  <2>. QED  BY <2>1, <2>2
<1>. QED  BY <1>4

\* There is always a group to process.
LEMMA GroupThere ==
    ASSUME batch \in SUBSET Event, batch # {},
           \A d, e \in batch : d.n = e.n => d = e
    PROVE  FirstGroup # {}
<1>. DEFINE here == {e \in batch : \A d \in batch : e.place <= d.place}
<1>1. \A e \in batch : e.n \in Nat /\ e.place \in Nat
  BY PlaceAssumption DEF Event
<1>2. here # {}
  <2>. DEFINE T == {e.place : e \in batch}
  <2>1. T \in SUBSET Nat /\ T # {}
    BY <1>1
  <2>2. PICK p \in T : \A q \in T : p <= q
    BY <2>1, LeastNumber
  <2>3. PICK e \in batch : e.place = p
    OBVIOUS
  <2>4. \A d \in batch : e.place <= d.place
    BY <2>2, <2>3
  <2>. QED  BY <2>4
<1>3. PICK e \in here : \A d \in here : e.n <= d.n
  <2>. DEFINE T == {d.n : d \in here}
  <2>1. T \in SUBSET Nat /\ T # {}
    BY <1>1, <1>2
  <2>2. PICK n \in T : \A k \in T : n <= k
    BY <2>1, LeastNumber
  <2>3. PICK d \in here : d.n = n
    OBVIOUS
  <2>. QED  BY <2>2, <2>3
<1>4. ASSUME NEW d \in here, NEW x \in here, Older(here, x) = {},
             d.type # x.type
      PROVE  e.n < d.n
  <2>0. e \in batch /\ d \in batch /\ x \in batch
    OBVIOUS
  <2>1. ~ (e.n < x.n)
    BY <1>4 DEF Older
  <2>2. e.n = x.n
    BY <1>1, <1>3, <2>0, <2>1
  <2>3. e = x
    BY <2>0, <2>2
  <2>4. e.n # d.n
    BY <1>4, <2>0, <2>3
  <2>. QED  BY <1>1, <1>3, <2>0, <2>4
<1>. QED  BY <1>4 DEF FirstGroup

-----------------------------------------------------------------------------
(* Type correctness. *)

LEMMA InitType == Init => TypeOK
  BY NoneAssumption, BoundAssumption DEF Init, TypeOK

\* What changes a message makes one event.
LEMMA CommitType ==
    ASSUME TypeOK, NEW m \in Messages, NEW type \in Types, NEW place \in Places,
           Commit(m, type, place), life' \in [Messages -> {"none", "there", "trash", "gone"}],
           loc' \in [Messages -> Places], hit' \in [Messages -> BOOLEAN],
           overtaken' \in SUBSET Messages
    PROVE  TypeOK'
<1>1. changes' \in 0 .. MaxSteps /\ changes \in Nat
  BY BoundAssumption DEF Commit, TypeOK
<1>2. unsent' \in SUBSET Event
  BY <1>1 DEF Commit, Event, TypeOK
<1>. QED
  BY <1>1, <1>2 DEF Commit, TypeOK, procVars, objVars, searchVars, workVars, errorVars

LEMMA ChangeType == TypeOK /\ Change => TypeOK'
<1>. SUFFICES ASSUME TypeOK, NEW m \in Messages,
                     \/ Create(m) \/ Modify(m) \/ \E p \in Places : Move(m, p)
                     \/ \E how \in {"trash", "gone"} : Delete(m, how)
              PROVE  TypeOK'
  BY DEF Change
<1>0. loc[m] \in Places /\ "ADD" \in Types /\ "MODIFY" \in Types /\ "DELETE" \in Types
  BY DEF TypeOK, Types
<1>1. CASE Create(m)
  BY <1>0, <1>1, CommitType DEF Create, TypeOK
<1>2. CASE Modify(m)
  BY <1>0, <1>2, CommitType DEF Modify, TypeOK
<1>3. ASSUME NEW p \in Places, Move(m, p)  PROVE TypeOK'
  <2>1. /\ life' \in [Messages -> {"none", "there", "trash", "gone"}]
        /\ loc' \in [Messages -> Places] /\ hit' \in [Messages -> BOOLEAN]
        /\ overtaken' \in SUBSET Messages /\ Commit(m, "MODIFY", p)
    BY <1>3 DEF Move, Overtake, TypeOK
  <2>. QED  BY <1>0, <2>1, CommitType
<1>4. ASSUME NEW how \in {"trash", "gone"}, Delete(m, how)  PROVE TypeOK'
  <2>1. /\ life' \in [Messages -> {"none", "there", "trash", "gone"}]
        /\ loc' \in [Messages -> Places] /\ hit' \in [Messages -> BOOLEAN]
        /\ overtaken' \in SUBSET Messages /\ Commit(m, "DELETE", loc[m])
    BY <1>4 DEF Delete, Overtake, TypeOK
  <2>. QED  BY <1>0, <2>1, CommitType
<1>. QED  BY <1>1, <1>2, <1>3, <1>4

\* The event that is queued, and the two ways of Notify.
Numbered(c, p) == [c EXCEPT !.n = told, !.place = p]
LEMMA NumberedEvent ==
    ASSUME TypeOK, NEW c \in Event, NEW p \in Places
    PROVE  /\ Numbered(c, p) \in Event
           /\ Numbered(c, p).n = told /\ Numbered(c, p).place = p
           /\ Numbered(c, p).msg = c.msg /\ Numbered(c, p).type = c.type
BY DEF Numbered, Event, TypeOK

LEMMA NotifyQueues ==
    ASSUME TypeOK, NEW c \in unsent, Notify(c)
    PROVE  /\ c \in Event /\ unsent' = unsent \ {c}
           /\ \/ \E p \in Places :
                    /\ c.type = "DELETE" \/ (life[c.msg] = "there" /\ p = loc[c.msg])
                    /\ events' = events \cup {Numbered(c, p)} /\ told' = told + 1
              \/ /\ c.type # "DELETE" /\ life[c.msg] # "there"
                 /\ events' = events /\ told' = told
<1>1. c \in Event /\ c.place \in Places /\ loc[c.msg] \in Places
  BY DEF TypeOK, Event
<1>. QED  BY <1>1 DEF Notify, Numbered

LEMMA NotifyType ==
    ASSUME TypeOK, NEW c \in unsent, Notify(c)
    PROVE  TypeOK'
<1>1. c \in Event
  BY DEF TypeOK
<1>2. events' \in SUBSET Event /\ told' \in Nat
  <2>1. \A p \in Places : Numbered(c, p) \in Event
    BY <1>1, NumberedEvent
  <2>. QED  BY <2>1, NotifyQueues DEF TypeOK
<1>. QED
  BY <1>2 DEF Notify, TypeOK, msgVars, procVars, objVars, searchVars, workVars, errorVars

LEMMA FailsType ==
    ASSUME TypeOK, Fails
    PROVE  errors' \in 0 .. MaxErrors
BY BoundAssumption DEF TypeOK, Fails

LEMMA SetStatusType ==
    ASSUME TypeOK, NEW f \in Folders, NEW s \in {"stopped", "rebuild", "running"},
           SetStatus(f, s)
    PROVE  /\ status' \in [Folders -> {"stopped", "rebuild", "running"}]
           /\ unset' \in SUBSET Folders /\ errors' \in 0 .. MaxErrors
BY FailsType DEF TypeOK, SetStatus

LEMMA ProcessType == TypeOK /\ (Process \/ \E F \in SUBSET Folders : GiveUp(F)) => TypeOK'
<1>. SUFFICES ASSUME TypeOK, Process \/ \E F \in SUBSET Folders : GiveUp(F)
              PROVE  TypeOK'
  OBVIOUS
<1>. USE DEF TypeOK, msgVars, eventVars, objVars, searchVars, workVars, errorVars
<1>1. CASE TakeEvents
  BY <1>1 DEF TakeEvents
<1>2. CASE ChangeGroup
  BY <1>2 DEF ChangeGroup, FirstGroup
<1>3. CASE EndGroup
  BY <1>3 DEF EndGroup
<1>4. ASSUME NEW f \in Folders, ChangeFolder(f)  PROVE TypeOK'
  <2>1. Updated(results[f]) \in SUBSET Messages
    BY DEF Updated, Msgs, Event
  <2>. QED  BY <1>4, <2>1 DEF ChangeFolder
<1>5. ASSUME NEW F \in SUBSET Folders, GiveUp(F)  PROVE TypeOK'
  <2>1. errors' \in 0 .. MaxErrors
    BY <1>5, FailsType DEF GiveUp
  <2>. QED  BY <1>5, <2>1 DEF GiveUp
<1>. QED  BY <1>1, <1>2, <1>3, <1>4, <1>5 DEF Process

\* A search thread works for a search folder.
LEMMA SearchType ==
    ASSUME TypeOK, Held, NEW o \in Objs,
           \/ Search(o) \/ SearchFails(o) \/ \E p \in Places : SkipPlace(o, p)
    PROVE  TypeOK'
<1>. USE DEF TypeOK, msgVars, eventVars, procVars, objVars, workVars, errorVars, SGoto
<1>0. spc[o] # "off" => of[o] \in Folders
  BY DEF Held
<1>1. CASE ResetSearch(o)
  BY <1>0, <1>1, PlaceAssumption DEF ResetSearch
<1>2. ASSUME NEW p \in Places, SelectRows(o, p)  PROVE TypeOK'
  BY <1>2 DEF SelectRows
<1>3. ASSUME NEW p \in Places, SkipPlace(o, p)  PROVE TypeOK'
  <2>1. errors' \in 0 .. MaxErrors
    BY <1>3, FailsType DEF SkipPlace
  <2>. QED  BY <1>0, <1>3, <2>1 DEF SkipPlace
<1>4. ASSUME NEW m \in Messages, AddCandidate(o, m)  PROVE TypeOK'
  BY <1>0, <1>4 DEF AddCandidate
<1>5. CASE SetRunning(o)
  BY <1>0, <1>5, SetStatusType DEF SetRunning
<1>6. CASE SearchFails(o)
  <2>1. errors' \in 0 .. MaxErrors
    BY <1>6, FailsType DEF SearchFails
  <2>. QED  BY <1>0, <1>6, <2>1 DEF SearchFails
<1>7. CASE Leave(o)
  BY <1>7 DEF Leave, Asleep
<1>. QED  BY <1>1, <1>2, <1>3, <1>4, <1>5, <1>6, <1>7 DEF Search

Labels == {"idle", "signal", "check", "asleep", "stop", "rebuild", "reset", "insert"}

\* What a step of worker w does to where workers are.
Moved(w, l, op, f) ==
    /\ wpc' \in [Workers -> Labels]
    /\ wop' \in [Workers -> {"none", "add", "cancel", "remove"}]
    /\ wf' \in [Workers -> Folders \cup {None}]
    /\ wpc'[w] = l /\ wop'[w] = op /\ wf'[w] = f
    /\ \A v \in Workers \ {w} :
          wpc'[v] = wpc[v] /\ wop'[v] = wop[v] /\ wf'[v] = wf[v]

LEMMA WGotoMoves ==
    ASSUME TypeOK, NEW w \in Workers, NEW l \in Labels,
           NEW op \in {"none", "add", "cancel", "remove"},
           NEW f \in Folders \cup {None}, WGoto(w, l, op, f)
    PROVE  Moved(w, l, op, f)
BY DEF TypeOK, WGoto, Moved, Labels

\* How an operation goes on: it sets the status, it goes on to remove, or it
\* ends.
Goes(w, op, f) ==
    \/ op = "add" /\ Moved(w, "rebuild", op, f)
    \/ op = "remove" /\ Moved(w, "reset", op, f)
    \/ Moved(w, "idle", "none", None)

LEMMA ContinueGoes ==
    ASSUME TypeOK, NEW w \in Workers,
           NEW op \in {"none", "add", "cancel", "remove"}, NEW f \in Folders,
           Continue(w, op, f)
    PROVE  Goes(w, op, f)
BY WGotoMoves DEF Continue, Return, Goes, Labels

\* A step of worker w.
Call(w) == \/ \E op \in {"add", "cancel", "remove"}, f \in Folders : TakeFolder(w, op, f)
           \/ Work(w)

LEMMA WorkType ==
    ASSUME TypeOK, Held, NEW w \in Workers, Call(w)
    PROVE  TypeOK'
<1>. USE DEF msgVars, eventVars, procVars, objVars, searchVars, errorVars
<1>a. wpc[w] # "idle" => wf[w] \in Folders
  BY ServesAssumption DEF Held
<1>b. ASSUME NEW l, NEW o, NEW f, Moved(w, l, o, f)
      PROVE  /\ wpc' \in [Workers -> {"idle", "signal", "check", "asleep",
                            "stop", "rebuild", "reset", "insert"}]
             /\ wop' \in [Workers -> {"none", "add", "cancel", "remove"}]
             /\ wf' \in [Workers -> Folders \cup {None}]
  BY <1>b DEF Moved, Labels
<1>c. wop[w] \in {"none", "add", "cancel", "remove"} /\ wf[w] \in Folders \cup {None}
  BY DEF TypeOK
<1>1. ASSUME NEW op \in {"add", "cancel", "remove"}, NEW g \in Folders,
             TakeFolder(w, op, g)
      PROVE  TypeOK'
  <2>1. Goes(w, op, g) \/ Moved(w, "signal", op, g)
    BY <1>1, ContinueGoes, WGotoMoves DEF TakeFolder, Labels
  <2>. QED  BY <1>1, <1>b, <2>1 DEF TakeFolder, Goes, TypeOK
<1>2. CASE SignalExit(w)
  <2>1. Moved(w, "check", wop[w], wf[w])
    BY <1>2, <1>c, WGotoMoves DEF SignalExit, Step, Labels
  <2>. QED  BY <1>2, <1>b, <2>1 DEF SignalExit, TypeOK
<1>3. CASE SleepOn(w)
  <2>1. Moved(w, "asleep", wop[w], wf[w])
    BY <1>3, <1>c, WGotoMoves DEF SleepOn, Step, Labels
  <2>. QED  BY <1>3, <1>b, <2>1 DEF SleepOn, TypeOK
<1>4. CASE Destroy(w)
  <2>1. Moved(w, "stop", wop[w], wf[w])
    BY <1>4, <1>c, WGotoMoves DEF Destroy, Step, Labels
  <2>. QED  BY <1>4, <1>b, <2>1 DEF Destroy, TypeOK
<1>5. CASE SetStopped(w)
  <2>1. Goes(w, wop[w], wf[w])
    BY <1>5, <1>a, <1>c, ContinueGoes DEF SetStopped
  <2>2. /\ status' \in [Folders -> {"stopped", "rebuild", "running"}]
        /\ unset' \in SUBSET Folders /\ errors' \in 0 .. MaxErrors
    BY <1>5, <1>a, SetStatusType DEF SetStopped
  <2>. QED  BY <1>5, <1>b, <2>1, <2>2 DEF SetStopped, Goes, TypeOK
<1>6. CASE SetRebuild(w)
  <2>1. Moved(w, "reset", wop[w], wf[w])
    BY <1>6, <1>c, WGotoMoves DEF SetRebuild, Step, Labels
  <2>2. /\ status' \in [Folders -> {"stopped", "rebuild", "running"}]
        /\ unset' \in SUBSET Folders /\ errors' \in 0 .. MaxErrors
    BY <1>6, <1>a, SetStatusType DEF SetRebuild
  <2>. QED  BY <1>6, <1>b, <2>1, <2>2 DEF SetRebuild, TypeOK
<1>7. CASE Reset(w)
  <2>1. Moved(w, "insert", wop[w], wf[w]) \/ Moved(w, "idle", "none", None)
    BY <1>7, <1>c, WGotoMoves DEF Reset, Step, Return, Labels
  <2>2. errors' \in 0 .. MaxErrors
    BY <1>7, FailsType DEF Reset, TypeOK
  <2>. QED  BY <1>7, <1>a, <1>b, <2>1, <2>2 DEF Reset, TypeOK
<1>8. ASSUME NEW o \in Objs, Insert(w, o)  PROVE TypeOK'
  <2>1. Moved(w, "idle", "none", None)
    BY <1>8, WGotoMoves DEF Insert, Return, Labels
  <2>. QED  BY <1>8, <1>a, <1>b, <2>1 DEF Insert, SGoto, TypeOK
<1>. QED  BY <1>1, <1>2, <1>3, <1>4, <1>5, <1>6, <1>7, <1>8 DEF Call, Work

-----------------------------------------------------------------------------
(* Objects are not used too long, Apart or not. *)

LEMMA HeldFrame ==
    ASSUME Held, UNCHANGED <<map, live, of, free, wpc, wf, wo>>,
           \A o \in Objs : spc'[o] = "off" <=> spc[o] = "off"
    PROVE  Held'
BY DEF Held

LEMMA SearchHeld ==
    ASSUME TypeOK, Held, NEW o \in Objs,
           \/ Search(o) \/ SearchFails(o) \/ \E p \in Places : SkipPlace(o, p)
    PROVE  Held'
<1>. USE DEF objVars, workVars, SGoto
<1>1. CASE ~Leave(o)
  <2>1. UNCHANGED <<map, live, of, free, wpc, wf, wo>>
    BY <1>1 DEF Search, ResetSearch, SetRunning, SelectRows, AddCandidate,
                SearchFails, SkipPlace
  <2>2. \/ UNCHANGED spc
        \/ spc[o] # "off" /\ \E l \in {"select", "leave"} : spc' = [spc EXCEPT ![o] = l]
    BY <1>1 DEF Search, ResetSearch, SetRunning, SelectRows, AddCandidate,
                SearchFails, SkipPlace
  <2>3. \A q \in Objs : spc'[q] = "off" <=> spc[q] = "off"
    BY <2>2 DEF TypeOK
  <2>. QED  BY <2>1, <2>3, HeldFrame
<1>2. CASE Leave(o)
  <2>1. /\ UNCHANGED <<map, live, of, wf, wo>>
        /\ spc'[o] = "off" /\ free'[o]
        /\ \A q \in Objs \ {o} : spc'[q] = spc[q] /\ free'[q] = free[q]
    BY <1>2 DEF Leave, TypeOK
  <2>2. \A w \in Workers : wpc'[w] = wpc[w] \/ (wpc[w] = "asleep" /\ wpc'[w] = "check")
    BY <1>2 DEF Leave, Asleep, TypeOK
  <2>3. \A w \in Workers : /\ wpc'[w] \in Waits <=> wpc[w] \in Waits
                           /\ wpc'[w] = "idle" <=> wpc[w] = "idle"
    BY <2>2 DEF Waits
  <2>4. \A q \in Objs : /\ free'[q] <=> spc'[q] = "off"
                        /\ q \notin live => spc'[q] = "off"
                        /\ q \in live => of[q] \in Folders
    BY <2>1 DEF Held, TypeOK
  <2>. QED  BY <2>1, <2>3, <2>4 DEF Held
<1>. QED  BY <1>1, <1>2

\* A worker gets on without a new object.
LEMMA HeldMoves ==
    ASSUME TypeOK, Held, NEW w \in Workers, NEW l, NEW op, NEW f, Moved(w, l, op, f),
           UNCHANGED <<map, live, of, free, spc, wo>>,
           l # "idle" => f \in Serves[w], l \in Waits => wpc[w] \in Waits
    PROVE  Held'
<1>1. /\ \A v \in Workers \ {w} : wpc'[v] = wpc[v] /\ wf'[v] = wf[v]
      /\ wpc'[w] = l /\ wf'[w] = f
  BY DEF Moved
<1>2. \A v \in Workers : wpc'[v] \in Waits => wpc[v] \in Waits
  BY <1>1
<1>3. \A v \in Workers : wpc'[v] # "idle" => wf'[v] \in Serves[v]
  BY <1>1 DEF Held
<1>. QED  BY <1>2, <1>3 DEF Held

LEMMA TakeHeld ==
    ASSUME TypeOK, Held, NEW w \in Workers, NEW op \in {"add", "cancel", "remove"},
           NEW f \in Folders, TakeFolder(w, op, f)
    PROVE  Held'
<1>. USE DEF objVars, searchVars
<1>1. CASE map[f] = None
  <2>1. Goes(w, op, f) /\ f \in Serves[w] /\ UNCHANGED <<map, live, of, free, spc, wo>>
    BY <1>1, ContinueGoes DEF TakeFolder
  <2>. QED  BY <2>1, HeldMoves DEF Goes, Waits
<1>2. CASE map[f] # None
  <2>1. /\ wo' = [wo EXCEPT ![w] = map[f]] /\ map' = [map EXCEPT ![f] = None]
        /\ Moved(w, "signal", op, f) /\ f \in Serves[w]
        /\ wpc[w] = "idle" /\ UNCHANGED <<live, of, free, spc>>
    BY <1>2, WGotoMoves DEF TakeFolder, Labels
  <2>2. /\ wo'[w] = map[f] /\ \A v \in Workers \ {w} : wo'[v] = wo[v]
        /\ map'[f] = None /\ \A g \in Folders \ {f} : map'[g] = map[g]
    BY <2>1 DEF TypeOK
  <2>3. /\ wpc'[w] = "signal" /\ wf'[w] = f
        /\ \A v \in Workers \ {w} : wpc'[v] = wpc[v] /\ wf'[v] = wf[v]
    BY <2>1 DEF Moved
  <2>4. map[f] \in live /\ of[map[f]] = f
    BY <1>2 DEF Held
  <2>5. \A g \in Folders \ {f} : map[g] # map[f]
    BY <1>2, <2>4 DEF Held
  <2>6. \A g \in Folders : map'[g] # map[f]
    BY <1>2, <2>2, <2>5
  <2>7. \A v \in Workers \ {w} : wpc'[v] \in Waits => wo'[v] # map[f]
    BY <2>2, <2>3 DEF Held
  <2>8. \A o \in Objs : /\ free'[o] <=> spc'[o] = "off"
                        /\ o \notin live' => spc'[o] = "off"
                        /\ o \in live' => of'[o] \in Folders
    BY <2>1 DEF Held
  <2>9. \A g \in Folders : map'[g] # None => map'[g] \in live' /\ of'[map'[g]] = g
    BY <2>1, <2>2 DEF Held
  <2>10. ASSUME NEW v \in Workers \ {w}, wpc'[v] \in Waits
         PROVE  /\ wo'[v] \in live' /\ \A g \in Folders : map'[g] # wo'[v]
                /\ \A u \in Workers \ {v} : wpc'[u] \in Waits => wo'[u] # wo'[v]
    <3>1. /\ wpc[v] \in Waits /\ wo'[v] = wo[v] /\ wo[v] \in live
          /\ \A g \in Folders : map[g] # wo[v]
          /\ \A u \in Workers \ {v} : wpc[u] \in Waits => wo[u] # wo[v]
      BY <2>2, <2>3, <2>10 DEF Held
    <3>2. \A g \in Folders : map'[g] # wo[v]
      BY <2>2, <3>1, NoneAssumption DEF TypeOK
    <3>3. \A u \in Workers \ {v} : wpc'[u] \in Waits => wo'[u] # wo[v]
      BY <2>2, <2>3, <3>1
    <3>. QED  BY <2>1, <3>1, <3>2, <3>3
  <2>11. \A v \in Workers : wpc'[v] # "idle" => wf'[v] \in Serves[v]
    BY <2>1, <2>3 DEF Held
  <2>. QED
    BY <2>1, <2>2, <2>3, <2>4, <2>6, <2>7, <2>8, <2>9, <2>10, <2>11 DEF Held
<1>. QED  BY <1>1, <1>2

LEMMA DestroyHeld ==
    ASSUME TypeOK, Held, NEW w \in Workers, Destroy(w)
    PROVE  Held'
<1>. USE DEF searchVars
<1>0. wop[w] \in {"none", "add", "cancel", "remove"} /\ wf[w] \in Folders \cup {None}
  BY DEF TypeOK
<1>1. /\ wpc[w] = "check" /\ Moved(w, "stop", wop[w], wf[w])
      /\ UNCHANGED <<map, free, spc>>
  BY <1>0, WGotoMoves DEF Destroy, Step, Labels
<1>2. wpc[w] \in Waits /\ wpc[w] # "idle" /\ "stop" \notin Waits
  BY <1>1 DEF Waits
<1>3. PICK o \in Objs : o = wo[w] /\ o \in live
  BY <1>2 DEF Held, TypeOK
<1>4. /\ live' = live \ {o} /\ spc[o] = "off"
      /\ \A q \in Objs \ {o} : of'[q] = of[q]
      /\ \A v \in Workers \ {w} : wo'[v] = wo[v]
  BY <1>3 DEF Destroy, Held, TypeOK
<1>5. /\ wpc'[w] = "stop" /\ wf'[w] = wf[w]
      /\ \A v \in Workers \ {w} : wpc'[v] = wpc[v] /\ wf'[v] = wf[v]
  BY <1>1 DEF Moved
<1>6. \A f \in Folders : map[f] # None => map[f] \in Objs \ {o}
  BY <1>2, <1>3 DEF Held, TypeOK
<1>7. \A f \in Folders : map'[f] # None => map'[f] \in live' /\ of'[map'[f]] = f
  BY <1>1, <1>4, <1>6 DEF Held
<1>8. \A q \in Objs : /\ free'[q] <=> spc'[q] = "off"
                      /\ q \notin live' => spc'[q] = "off"
                      /\ q \in live' => of'[q] \in Folders
  BY <1>1, <1>4 DEF Held
<1>9. ASSUME NEW v \in Workers, wpc'[v] \in Waits
      PROVE  /\ wo'[v] \in live' /\ \A f \in Folders : map'[f] # wo'[v]
             /\ \A u \in Workers \ {v} : wpc'[u] \in Waits => wo'[u] # wo'[v]
  <2>1. v # w
    BY <1>2, <1>5, <1>9
  <2>2. /\ wpc[v] \in Waits /\ wo'[v] = wo[v] /\ wo[v] \in live /\ wo[v] # o
        /\ \A f \in Folders : map[f] # wo[v]
        /\ \A u \in Workers \ {v} : wpc[u] \in Waits => wo[u] # wo[v]
    BY <1>2, <1>3, <1>4, <1>5, <1>9, <2>1 DEF Held
  <2>3. ASSUME NEW u \in Workers \ {v}, wpc'[u] \in Waits  PROVE wo'[u] # wo[v]
    <3>1. u # w /\ wpc[u] \in Waits /\ wo'[u] = wo[u]
      BY <1>2, <1>4, <1>5, <2>3
    <3>. QED  BY <2>2, <3>1
  <2>. QED  BY <1>1, <1>4, <2>2, <2>3
<1>10. \A v \in Workers : wpc'[v] # "idle" => wf'[v] \in Serves[v]
  BY <1>2, <1>5 DEF Held
<1>. QED  BY <1>7, <1>8, <1>9, <1>10 DEF Held

LEMMA InsertHeld ==
    ASSUME TypeOK, Held, NEW w \in Workers, NEW o \in Objs, Insert(w, o)
    PROVE  Held'
<1>0. /\ wpc[w] = "insert" /\ wpc[w] # "idle" /\ wpc[w] \notin Waits
      /\ o \notin live /\ o # None
      /\ Moved(w, "idle", "none", None) /\ UNCHANGED wo
  BY NoneAssumption, WGotoMoves DEF Insert, Return, Labels, Waits
<1>1. PICK f \in Folders : f = wf[w]
  BY <1>0, ServesAssumption DEF Held
<1>2. /\ live' = live \cup {o}
      /\ of'[o] = f /\ \A q \in Objs \ {o} : of'[q] = of[q]
      /\ map'[f] = IF map[f] = None THEN o ELSE map[f]
      /\ \A g \in Folders \ {f} : map'[g] = map[g]
      /\ ~free'[o] /\ \A q \in Objs \ {o} : free'[q] = free[q]
      /\ spc'[o] = "reset" /\ \A q \in Objs \ {o} : spc'[q] = spc[q]
  BY <1>1 DEF Insert, SGoto, TypeOK
<1>3. /\ wpc'[w] = "idle"
      /\ \A v \in Workers \ {w} : wpc'[v] = wpc[v] /\ wf'[v] = wf[v]
  BY <1>0 DEF Moved
<1>4. \A g \in Folders : map[g] # None => map[g] \in Objs \ {o}
  BY <1>0 DEF Held, TypeOK
<1>5. \A g \in Folders : map'[g] # None => map'[g] \in live' /\ of'[map'[g]] = g
  BY <1>2, <1>4 DEF Held
<1>6. \A q \in Objs : /\ free'[q] <=> spc'[q] = "off"
                      /\ q \notin live' => spc'[q] = "off"
                      /\ q \in live' => of'[q] \in Folders
  BY <1>2 DEF Held
<1>7. ASSUME NEW v \in Workers, wpc'[v] \in Waits
      PROVE  /\ wo'[v] \in live' /\ \A g \in Folders : map'[g] # wo'[v]
             /\ \A u \in Workers \ {v} : wpc'[u] \in Waits => wo'[u] # wo'[v]
  <2>1. /\ v # w /\ wpc[v] \in Waits /\ wo[v] \in live
        /\ \A g \in Folders : map[g] # wo[v]
        /\ \A u \in Workers \ {v} : wpc[u] \in Waits => wo[u] # wo[v]
    BY <1>3, <1>7 DEF Held, Waits
  <2>2. wo[v] # o
    BY <1>0, <2>1
  <2>3. \A g \in Folders : map'[g] # wo[v]
    BY <1>2, <2>1, <2>2
  <2>4. \A u \in Workers : wpc'[u] \in Waits => wpc[u] \in Waits
    BY <1>3 DEF Waits
  <2>. QED  BY <1>0, <1>2, <2>1, <2>3, <2>4
<1>8. \A v \in Workers : wpc'[v] # "idle" => wf'[v] \in Serves[v]
  BY <1>3 DEF Held
<1>. QED  BY <1>5, <1>6, <1>7, <1>8 DEF Held

LEMMA CallHeld ==
    ASSUME TypeOK, Held, NEW w \in Workers, Call(w)
    PROVE  Held'
<1>. USE DEF objVars, searchVars
<1>0. /\ wop[w] \in {"none", "add", "cancel", "remove"} /\ wf[w] \in Folders \cup {None}
      /\ wpc[w] # "idle" => wf[w] \in Serves[w] /\ wf[w] \in Folders
  BY ServesAssumption DEF TypeOK, Held
<1>1. CASE SignalExit(w) \/ SleepOn(w)
  <2>1. /\ wpc[w] \in {"signal", "check"}
        /\ \E l \in {"check", "asleep"} : Moved(w, l, wop[w], wf[w])
        /\ UNCHANGED <<map, live, of, free, spc, wo>>
    BY <1>0, <1>1, WGotoMoves DEF SignalExit, SleepOn, Step, Labels
  <2>. QED  BY <1>0, <2>1, HeldMoves DEF Waits
<1>2. CASE SetStopped(w)
  <2>1. /\ wpc[w] = "stop" /\ Goes(w, wop[w], wf[w])
        /\ UNCHANGED <<map, live, of, free, spc, wo>>
    BY <1>0, <1>2, ContinueGoes DEF SetStopped
  <2>. QED  BY <1>0, <2>1, HeldMoves DEF Goes, Waits
<1>3. CASE SetRebuild(w) \/ Reset(w)
  <2>1. /\ wpc[w] \in {"rebuild", "reset"}
        /\ \/ \E l \in {"reset", "insert"} : Moved(w, l, wop[w], wf[w])
           \/ Moved(w, "idle", "none", None)
        /\ UNCHANGED <<map, live, of, free, spc, wo>>
    BY <1>0, <1>3, WGotoMoves DEF SetRebuild, Reset, Step, Return, Labels
  <2>. QED  BY <1>0, <2>1, HeldMoves DEF Waits
<1>. QED
  BY <1>1, <1>2, <1>3, TakeHeld, DestroyHeld, InsertHeld DEF Call, Work

-----------------------------------------------------------------------------
(* Objects, the map and the workers. *)

\* Two workers are not at one search folder.
LEMMA OneWorker ==
    ASSUME Apart, Held, NEW v \in Workers, NEW w \in Workers,
           wpc[v] # "idle", wpc[w] # "idle", wf[v] = wf[w]
    PROVE  v = w
BY DEF Apart, Held

\* An object a worker waits for is not in the map, and no other waits for it.
LEMMA WaitedFor ==
    ASSUME TypeOK, Held, Works, NEW w \in Workers, wpc[w] \in Waits
    PROVE  /\ wo[w] \in live /\ wo[w] \in Objs /\ of[wo[w]] = wf[w]
           /\ wf[w] \in Folders /\ map[wf[w]] = None
           /\ \A f \in Folders : map[f] # wo[w]
           /\ \A v \in Workers \ {w} : wpc[v] \in Waits => wo[v] # wo[w]
BY ServesAssumption DEF Held, Works, TypeOK, Waits

\* An object with a search thread is in the map, or its folder is cancelled.
LEMMA Searched ==
    ASSUME TypeOK, Held, Threads, NEW o \in Objs, spc[o] # "off"
    PROVE  /\ o \in live /\ of[o] \in Folders /\ ~free[o] /\ Served(of[o])
           /\ \/ map[of[o]] = o
              \/ \E w \in Workers : /\ wpc[w] \in Waits /\ wo[w] = o
                                    /\ wf[w] = of[o] /\ map[of[o]] = None
<1>1. o \in live /\ of[o] \in Folders /\ ~free[o]
  BY DEF Held, TypeOK
<1>2. \/ map[of[o]] = o
      \/ \E w \in Workers : wpc[w] \in Waits /\ wo[w] = o
  BY <1>1 DEF Threads, Objects
<1>3. ASSUME NEW w \in Workers, wpc[w] \in Waits, wo[w] = o
      PROVE  wf[w] = of[o] /\ map[of[o]] = None
  BY <1>3, WaitedFor DEF Threads
<1>4. Served(of[o])
  BY <1>2, <1>3, NoneAssumption DEF Served, Changing
<1>. QED  BY <1>1, <1>2, <1>3, <1>4

\* A search folder has one search at a time.
LEMMA OneSearch ==
    ASSUME Apart, TypeOK, Held, Threads, NEW o \in Objs, NEW q \in Objs,
           spc[o] # "off", spc[q] # "off", of[o] = of[q]
    PROVE  o = q
<1>1. ASSUME NEW v \in Workers, NEW w \in Workers, wpc[v] \in Waits, wpc[w] \in Waits,
             wo[v] = o, wo[w] = q, wf[v] = of[o], wf[w] = of[o]
      PROVE  o = q
  BY <1>1, OneWorker DEF Waits
<1>. QED  BY <1>1, Searched, NoneAssumption

\* A worker that waits no more has its search folder without a search.
LEMMA NoSearch ==
    ASSUME Apart, TypeOK, Held, Threads, NEW w \in Workers, wpc[w] # "idle",
           wpc[w] \notin Waits
    PROVE  /\ wf[w] \in Folders /\ map[wf[w]] = None
           /\ \A o \in Objs : spc[o] # "off" => of[o] # wf[w]
<1>1. wf[w] \in Folders /\ map[wf[w]] = None
  BY ServesAssumption DEF Held, Threads, Works
<1>2. ASSUME NEW o \in Objs, spc[o] # "off", of[o] = wf[w]  PROVE FALSE
  <2>1. PICK v \in Workers : wpc[v] \in Waits /\ wf[v] = wf[w]
    BY <1>1, <1>2, Searched, NoneAssumption
  <2>2. wpc[v] # "idle"
    BY <2>1 DEF Waits
  <2>. QED  BY <2>1, <2>2, OneWorker
<1>. QED  BY <1>1, <1>2

\* What is said of f's status, when f's status and its searches stay.
LEMMA StatedFrame ==
    ASSUME NEW f \in Folders, Searching, status'[f] = status[f],
           f \in unset' <=> f \in unset, f \in broken' => f \in broken,
           Searches(f)' => Searches(f), Served(f)' => Served(f),
           map'[f] # None => map[f] # None,
           map'[f] = None => \/ Changing(f)'
                             \/ map[f] = None /\ ~Changing(f)
    PROVE  /\ Searches(f)' => f \notin broken'
           /\ f \notin unset' => Stated(f)'
<1>. USE DEF Searching, Stated
<1>1. Searches(f)' => f \notin broken'
  OBVIOUS
<1>2. ASSUME f \notin unset'  PROVE Stated(f)'
  <2>1. Stated(f)
    BY <1>2
  <2>. QED  BY <2>1
<1>. QED  BY <1>1, <1>2

LEMMA ThreadsFrame ==
    ASSUME Threads,
           UNCHANGED <<map, live, of, exit, spc, wpc, wop, wf, wo, status, unset, broken>>
    PROVE  Threads'
<1>1. Objects'
  BY DEF Threads, Objects
<1>2. Mapped' /\ Works'
  BY DEF Threads, Mapped, Works
<1>3. Searching'
  BY DEF Threads, Searching, Stated, Searches, Served, Changing
<1>. QED  BY <1>1, <1>2, <1>3 DEF Threads

\* The steps of a search before its last: the status is the only thing that
\* changes for others to see.
LEMMA SearchGoesOn ==
    ASSUME Apart, TypeOK, Held, Threads, NEW o \in Objs, spc[o] # "off",
           NEW l \in {"select", "leave"}, spc' = [spc EXCEPT ![o] = l],
           UNCHANGED <<map, live, of, exit, wpc, wop, wf, wo>>,
           \A g \in Folders \ {of[o]} : /\ status'[g] = status[g]
                                        /\ g \in unset' <=> g \in unset
                                        /\ g \in broken' <=> g \in broken,
           /\ Searches(of[o])' => of[o] \notin broken'
           /\ of[o] \notin unset' => Stated(of[o])'
    PROVE  Threads'
<1>0. /\ of[o] \in Folders
      /\ \/ map[of[o]] = o
         \/ map[of[o]] = None /\ \E w \in Workers : wpc[w] \in Waits /\ wf[w] = of[o]
  BY Searched
<1>1. Objects' /\ Mapped'
  BY DEF Threads, Objects, Mapped
<1>2. \A w \in Workers :
         wpc[w] \notin Waits /\ wpc[w] # "idle" => wf[w] \in Folders \ {of[o]}
  BY NoSearch
<1>3. Works'
  <2>1. ASSUME NEW w \in Workers, wpc[w] = "insert" \/ (wpc[w] = "reset" /\ wop[w] = "add")
        PROVE  status'[wf[w]] = "rebuild" \/ wf[w] \in unset'
    BY <1>2, <2>1 DEF Threads, Works, Waits
  <2>. QED  BY <2>1 DEF Threads, Works
<1>4. Searching'
  <2>1. ASSUME NEW f \in Folders \ {of[o]}
        PROVE  /\ Searches(f)' => f \notin broken'
               /\ f \notin unset' => Stated(f)'
    <3>1. Searches(f)' => Searches(f)
      BY DEF Searches, TypeOK
    <3>2. Served(f)' = Served(f) /\ Changing(f)' = Changing(f)
      BY DEF Served, Changing
    <3>. QED  BY <3>1, <3>2, StatedFrame DEF Threads
  <2>. QED  BY <1>0, <2>1 DEF Searching
<1>. QED  BY <1>1, <1>3, <1>4 DEF Threads

LEMMA SearchThreads ==
    ASSUME Apart, TypeOK, Held, Threads, NEW o \in Objs,
           \/ Search(o) \/ SearchFails(o) \/ \E p \in Places : SkipPlace(o, p)
    PROVE  Threads'
<1>. USE DEF msgVars, eventVars, procVars, objVars, workVars, errorVars, SGoto
<1>0. ASSUME spc[o] # "off", spc' = [spc EXCEPT ![o] = "leave"],
             UNCHANGED <<map, of, wpc, wf>>
      PROVE  /\ of[o] \in Folders /\ ~Searches(of[o])'
             /\ Served(of[o])' /\ (map'[of[o]] = None => Changing(of[o])')
  <2>1. of[o] \in Folders /\ Served(of[o])
    BY <1>0, Searched
  <2>2. \A q \in Objs \ {o} : spc[q] # "off" => of[q] # of[o]
    BY <1>0, OneSearch
  <2>3. ~Searches(of[o])'
    BY <1>0, <2>2 DEF Searches, TypeOK
  <2>4. Served(of[o])' = Served(of[o]) /\ Changing(of[o])' = Changing(of[o])
    BY <1>0 DEF Served, Changing
  <2>. QED  BY <1>0, <2>1, <2>3, <2>4 DEF Served
<1>1. CASE ResetSearch(o)
  <2>1. /\ spc[o] = "reset" /\ spc' = [spc EXCEPT ![o] = "select"]
        /\ UNCHANGED <<map, live, of, exit, wpc, wop, wf, wo, status, unset, broken>>
    BY <1>1 DEF ResetSearch
  <2>2. of[o] \in Folders
    BY <2>1, Searched
  <2>3. Searches(of[o]) /\ Served(of[o])' = Served(of[o])
        /\ Changing(of[o])' = Changing(of[o])
    BY <2>1 DEF Searches, Served, Changing
  <2>4. /\ Searches(of[o])' => of[o] \notin broken'
        /\ of[o] \notin unset' => Stated(of[o])'
    BY <2>1, <2>2, <2>3, StatedFrame DEF Threads
  <2>. QED  BY <2>1, <2>4, SearchGoesOn
<1>2. CASE SearchFails(o)
  <2>1. /\ spc[o] \in {"reset", "select"} /\ spc' = [spc EXCEPT ![o] = "leave"]
        /\ UNCHANGED <<map, live, of, exit, wpc, wop, wf, wo, status, unset>>
        /\ broken' = broken \cup {of[o]}
    BY <1>2 DEF SearchFails
  <2>2. Searches(of[o])
    BY <2>1 DEF Searches
  <2>3. of[o] \in Folders /\ ~Searches(of[o])' /\ Served(of[o])'
    BY <1>0, <2>1
  <2>4. of[o] \notin unset => status'[of[o]] = "rebuild"
    BY <2>1, <2>2, <2>3 DEF Threads, Searching, Stated
  <2>5. of[o] \notin unset' => Stated(of[o])'
    BY <2>1, <2>3, <2>4 DEF Stated
  <2>. QED  BY <2>1, <2>3, <2>5, SearchGoesOn
<1>3. CASE SetRunning(o)
  <2>1. /\ spc[o] = "select" /\ spc' = [spc EXCEPT ![o] = "leave"]
        /\ UNCHANGED <<map, live, of, exit, wpc, wop, wf, wo, broken>>
        /\ SetStatus(of[o], "running")
    BY <1>3 DEF SetRunning
  <2>2. Searches(of[o])
    BY <2>1 DEF Searches
  <2>3. /\ of[o] \in Folders /\ ~Searches(of[o])' /\ Served(of[o])'
        /\ map'[of[o]] = None => Changing(of[o])'
    BY <1>0, <2>1
  <2>4. /\ \A g \in Folders \ {of[o]} : /\ status'[g] = status[g]
                                        /\ g \in unset' <=> g \in unset
        /\ \/ status'[of[o]] = "running" /\ of[o] \notin unset'
           \/ /\ status'[of[o]] = status[of[o]]
              /\ of[o] \in unset' \/ of[o] \notin unset
    BY <2>1, <2>3 DEF SetStatus, TypeOK
  <2>5. of[o] \notin broken /\ (of[o] \notin unset => status[of[o]] = "rebuild")
    BY <2>2, <2>3 DEF Threads, Searching, Stated
  <2>6. of[o] \notin unset' => Stated(of[o])'
    BY <2>1, <2>3, <2>4, <2>5 DEF Stated
  <2>. QED  BY <2>1, <2>3, <2>4, <2>6, SearchGoesOn
<1>4. CASE Leave(o)
  <2>1. /\ spc[o] = "leave" /\ spc' = [spc EXCEPT ![o] = "off"]
        /\ UNCHANGED <<map, live, of, exit, wop, wf, wo, status, unset, broken>>
    BY <1>4 DEF Leave
  <2>2. \A w \in Workers : wpc'[w] = wpc[w] \/ (wpc[w] = "asleep" /\ wpc'[w] = "check")
    BY <1>4 DEF Leave, Asleep, TypeOK
  <2>3. \A w \in Workers :
           /\ wpc'[w] \in Waits <=> wpc[w] \in Waits
           /\ wpc'[w] = "stop" <=> wpc[w] = "stop"
           /\ wpc'[w] = "idle" <=> wpc[w] = "idle"
           /\ \A l \in {"insert", "reset", "rebuild"} : wpc'[w] = l <=> wpc[w] = l
    BY <2>2 DEF Waits
  <2>4. Objects' /\ Mapped'
    BY <2>1, <2>3 DEF Threads, Objects, Mapped
  <2>5. Works'
    BY <2>1, <2>3 DEF Threads, Works
  <2>6. ASSUME NEW f \in Folders
        PROVE  /\ Searches(f)' => f \notin broken'
               /\ f \notin unset' => Stated(f)'
    <3>1. Searches(f)' => Searches(f)
      BY <2>1 DEF Searches, TypeOK
    <3>2. Changing(f)' <=> Changing(f)
      BY <2>1, <2>3 DEF Changing
    <3>. QED  BY <2>1, <3>1, <3>2, StatedFrame DEF Threads, Served
  <2>. QED  BY <2>4, <2>5, <2>6 DEF Threads, Searching
<1>5. ASSUME NEW p \in Places, SelectRows(o, p) \/ SkipPlace(o, p)  PROVE Threads'
  BY <1>5, ThreadsFrame DEF SelectRows, SkipPlace
<1>6. ASSUME NEW m \in Messages, AddCandidate(o, m)  PROVE Threads'
  BY <1>6, ThreadsFrame DEF AddCandidate
<1>. QED  BY <1>1, <1>2, <1>3, <1>4, <1>5, <1>6 DEF Search

\* What holds of a worker, apart from what others do.
WorksOne(w) ==
    /\ wpc[w] # "idle" => map[wf[w]] = None
    /\ wpc[w] \in Waits => of[wo[w]] = wf[w]
    /\ wpc[w] = "insert" \/ (wpc[w] = "reset" /\ wop[w] = "add") =>
          status[wf[w]] = "rebuild" \/ wf[w] \in unset
    /\ wpc[w] \in {"rebuild", "insert"} => wop[w] = "add"

LEMMA TakeThreads ==
    ASSUME Apart, TypeOK, Held, Threads, NEW w \in Workers,
           NEW op \in {"add", "cancel", "remove"}, NEW f \in Folders, TakeFolder(w, op, f)
    PROVE  Threads'
<1>. USE DEF objVars, searchVars, errorVars
<1>0. /\ wpc[w] = "idle" /\ f \in Serves[w]
      /\ UNCHANGED <<live, of, free, exit, spc, status, unset, broken>>
  BY DEF TakeFolder
<1>a. \A g \in Folders : Searches(g)' <=> Searches(g)
  BY <1>0 DEF Searches
<1>1. CASE map[f] = None
  <2>1. Goes(w, op, f) /\ UNCHANGED <<map, wo>>
    BY <1>1, ContinueGoes DEF TakeFolder
  <2>2. /\ wpc'[w] \notin Waits \cup {"insert", "stop"}
        /\ wpc'[w] = "reset" => wop'[w] = "remove"
        /\ wpc'[w] = "rebuild" => wop'[w] = "add"
        /\ wpc'[w] # "idle" => wf'[w] = f
        /\ \A v \in Workers \ {w} :
              wpc'[v] = wpc[v] /\ wop'[v] = wop[v] /\ wf'[v] = wf[v]
    BY <2>1 DEF Goes, Moved, Waits
  <2>3. wpc[w] \notin Waits \cup {"stop"}
    BY <1>0 DEF Waits
  <2>4. Objects' /\ Mapped'
    BY <1>0, <2>1, <2>2, <2>3 DEF Threads, Objects, Mapped
  <2>5. Works'
    <3>1. WorksOne(w)'
      BY <1>0, <1>1, <2>1, <2>2 DEF WorksOne
    <3>2. \A v \in Workers \ {w} : WorksOne(v)'
      BY <1>0, <2>1, <2>2 DEF Threads, Works, WorksOne
    <3>. QED  BY <3>1, <3>2 DEF Works, WorksOne
  <2>6. Searching'
    <3>1. \A g \in Folders : Changing(g) <=> Changing(g)'
      BY <2>2, <2>3 DEF Changing
    <3>. QED  BY <1>0, <1>a, <2>1, <3>1, StatedFrame DEF Threads, Searching, Served
  <2>. QED  BY <2>4, <2>5, <2>6 DEF Threads
<1>2. CASE map[f] # None
  <2>1. /\ wo' = [wo EXCEPT ![w] = map[f]] /\ map' = [map EXCEPT ![f] = None]
        /\ Moved(w, "signal", op, f)
    BY <1>2, WGotoMoves DEF TakeFolder, Labels
  <2>2. /\ wo'[w] = map[f] /\ \A v \in Workers \ {w} : wo'[v] = wo[v]
        /\ map'[f] = None /\ \A g \in Folders \ {f} : map'[g] = map[g]
    BY <2>1 DEF TypeOK
  <2>3. /\ wpc'[w] = "signal" /\ wop'[w] = op /\ wf'[w] = f
        /\ \A v \in Workers \ {w} :
              wpc'[v] = wpc[v] /\ wop'[v] = wop[v] /\ wf'[v] = wf[v]
    BY <2>1 DEF Moved
  <2>4. wpc[w] \notin Waits \cup {"stop"} /\ "signal" \in Waits
    BY <1>0 DEF Waits
  <2>5. map[f] \in live /\ of[map[f]] = f
    BY <1>2 DEF Held
  <2>6. Objects'
    <3>1. SUFFICES ASSUME NEW o \in Objs, o \in live
                   PROVE  \/ map'[of[o]] = o
                          \/ \E v \in Workers : wpc'[v] \in Waits /\ wo'[v] = o
      BY <1>0 DEF Threads, Objects
    <3>2. /\ of[o] \in Folders
          /\ \/ map[of[o]] = o
             \/ \E v \in Workers : wpc[v] \in Waits /\ wo[v] = o
      BY <3>1 DEF Held, Threads, Objects
    <3>3. ASSUME NEW v \in Workers, wpc[v] \in Waits, wo[v] = o
          PROVE  wpc'[v] \in Waits /\ wo'[v] = o
      BY <2>2, <2>3, <2>4, <3>3
    <3>4. CASE of[o] = f /\ map[f] = o
      BY <2>2, <2>3, <2>4, <3>2, <3>4
    <3>. QED  BY <2>2, <3>2, <3>3, <3>4
  <2>7. Mapped'
    BY <1>0, <2>2 DEF Threads, Mapped
  <2>8. Works'
    <3>1. WorksOne(w)'
      BY <1>0, <2>2, <2>3, <2>5 DEF WorksOne
    <3>2. ASSUME NEW v \in Workers \ {w}  PROVE WorksOne(v)'
      <4>1. wpc[v] # "idle" => wf[v] \in Folders /\ map'[wf[v]] = None
        BY <2>2, ServesAssumption DEF Held, Threads, Works
      <4>. QED  BY <1>0, <2>2, <2>3, <4>1 DEF Threads, Works, WorksOne
    <3>. QED  BY <3>1, <3>2 DEF Works, WorksOne
  <2>9. Searching'
    <3>1. \A g \in Folders : Changing(g)' <=> Changing(g) \/ g = f
      BY <2>3, <2>4 DEF Changing
    <3>2. ASSUME NEW g \in Folders
          PROVE  /\ Searches(g)' => g \notin broken'
                 /\ g \notin unset' => Stated(g)'
      <4>1. Served(g)' => Served(g)
        BY <1>2, <2>2, <3>1 DEF Served
      <4>2. map'[g] # None => map[g] # None
        BY <2>2
      <4>3. map'[g] = None => Changing(g)' \/ (map[g] = None /\ ~Changing(g))
        BY <2>2, <3>1
      <4>. QED  BY <1>0, <1>a, <4>1, <4>2, <4>3, StatedFrame DEF Threads
    <3>. QED  BY <3>2 DEF Searching
  <2>. QED  BY <2>6, <2>7, <2>8, <2>9 DEF Threads
<1>. QED  BY <1>1, <1>2

\* A step of worker w in its own search folder leaves the others' alone.
LEMMA OthersKeep ==
    ASSUME Apart, TypeOK, Held, NEW w \in Workers, NEW l, NEW op, NEW f,
           Moved(w, l, op, f), wpc[w] # "idle"
    PROVE  \A v \in Workers \ {w} :
              /\ wpc'[v] = wpc[v] /\ wop'[v] = wop[v] /\ wf'[v] = wf[v]
              /\ wpc[v] # "idle" => wf[v] \in Folders /\ wf[v] # wf[w]
BY OneWorker, ServesAssumption DEF Moved, Held

LEMMA SignalThreads ==
    ASSUME TypeOK, Held, Threads, NEW w \in Workers, SignalExit(w) \/ SleepOn(w)
    PROVE  Threads'
<1>. USE DEF objVars, searchVars, errorVars
<1>0. wop[w] \in {"none", "add", "cancel", "remove"} /\ wf[w] \in Folders \cup {None}
  BY DEF TypeOK
<1>1. /\ wpc[w] \in {"signal", "check"} /\ wpc'[w] \in {"check", "asleep"}
      /\ wop'[w] = wop[w] /\ wf'[w] = wf[w]
      /\ \A v \in Workers \ {w} :
            wpc'[v] = wpc[v] /\ wop'[v] = wop[v] /\ wf'[v] = wf[v]
      /\ UNCHANGED <<map, live, of, free, spc, status, wo, unset, broken>>
      /\ exit' = exit \/ exit' = [exit EXCEPT ![wo[w]] = TRUE]
  BY <1>0, WGotoMoves DEF SignalExit, SleepOn, Step, Moved, Labels
<1>2. /\ \A v \in Workers : wpc'[v] \in Waits <=> wpc[v] \in Waits
      /\ \A v \in Workers : wpc'[v] = "stop" <=> wpc[v] = "stop"
      /\ \A v \in Workers : wop'[v] = wop[v] /\ wf'[v] = wf[v]
      /\ \A v \in Workers, l \in {"idle", "insert", "reset", "rebuild"} :
            wpc'[v] = l <=> wpc[v] = l
      /\ wpc[w] \in Waits
  BY <1>1 DEF Waits
<1>3. /\ wo[w] \in live /\ wo[w] \in Objs /\ \A f \in Folders : map[f] # wo[w]
  BY <1>2, WaitedFor DEF Threads
<1>4. \A o \in Objs : o # wo[w] => exit'[o] = exit[o]
  BY <1>1 DEF TypeOK
<1>5. Objects'
  BY <1>1, <1>2, <1>3, <1>4 DEF Threads, Objects
<1>6. Mapped'
  <2>1. \A f \in Folders : map[f] # None => map[f] \in Objs
    BY DEF TypeOK
  <2>. QED  BY <1>1, <1>3, <1>4, <2>1 DEF Threads, Mapped
<1>7. Works'
  BY <1>1, <1>2 DEF Threads, Works
<1>8. Searching'
  <2>1. \A f \in Folders : /\ Searches(f)' <=> Searches(f)
                           /\ Changing(f)' <=> Changing(f)
    BY <1>1, <1>2 DEF Searches, Changing
  <2>. QED  BY <1>1, <2>1, StatedFrame DEF Threads, Searching, Served
<1>. QED  BY <1>5, <1>6, <1>7, <1>8 DEF Threads

LEMMA DestroyThreads ==
    ASSUME TypeOK, Held, Threads, NEW w \in Workers, Destroy(w)
    PROVE  Threads'
<1>. USE DEF searchVars, errorVars
<1>0. wop[w] \in {"none", "add", "cancel", "remove"} /\ wf[w] \in Folders \cup {None}
  BY DEF TypeOK
<1>1. /\ wpc[w] = "check" /\ Moved(w, "stop", wop[w], wf[w])
      /\ UNCHANGED <<map, free, spc, status, unset, broken>>
  BY <1>0, WGotoMoves DEF Destroy, Step, Labels
<1>2. wpc[w] \in Waits /\ "stop" \notin Waits /\ wpc[w] # "idle"
  BY <1>1 DEF Waits
<1>3. PICK o \in Objs : o = wo[w] /\ o \in live
  BY <1>2, WaitedFor DEF Threads
<1>4. /\ wf[w] \in Folders /\ map[wf[w]] = None
      /\ \A f \in Folders : map[f] # o
      /\ \A v \in Workers \ {w} : wpc[v] \in Waits => wo[v] # o
  BY <1>2, <1>3, WaitedFor DEF Threads
<1>5. /\ live' = live \ {o} /\ ~exit'[o] /\ spc[o] = "off"
      /\ \A q \in Objs \ {o} : of'[q] = of[q] /\ exit'[q] = exit[q]
      /\ \A v \in Workers \ {w} : wo'[v] = wo[v]
  BY <1>3 DEF Destroy, Held, TypeOK
<1>6. /\ wpc'[w] = "stop" /\ wop'[w] = wop[w] /\ wf'[w] = wf[w]
      /\ \A v \in Workers \ {w} :
            wpc'[v] = wpc[v] /\ wop'[v] = wop[v] /\ wf'[v] = wf[v]
  BY <1>1 DEF Moved
<1>7. Objects'
  <2>1. ASSUME NEW q \in Objs \ {o}, q \in live
        PROVE  \/ map[of[q]] = q
               \/ \E v \in Workers : wpc'[v] \in Waits /\ wo'[v] = q
    BY <1>3, <1>5, <1>6, <2>1 DEF Threads, Objects
  <2>. QED  BY <1>1, <1>5, <2>1 DEF Threads, Objects
<1>8. Mapped'
  <2>1. \A f \in Folders : map[f] # None => map[f] \in Objs \ {o}
    BY <1>4 DEF TypeOK
  <2>. QED  BY <1>1, <1>5, <2>1 DEF Threads, Mapped
<1>9. Works'
  <2>1. WorksOne(w)'
    BY <1>0, <1>1, <1>2, <1>6 DEF Threads, Works, WorksOne
  <2>2. ASSUME NEW v \in Workers \ {w}  PROVE WorksOne(v)'
    <3>1. wpc[v] \in Waits => wo[v] \in Objs \ {o}
      BY <1>4, WaitedFor DEF Threads
    <3>. QED  BY <1>1, <1>5, <1>6, <3>1 DEF Threads, Works, WorksOne
  <2>. QED  BY <2>1, <2>2 DEF Works, WorksOne
<1>10. Searching'
  <2>1. \A g \in Folders : Changing(g)' <=> Changing(g)
    BY <1>1, <1>2, <1>6 DEF Changing
  <2>2. \A g \in Folders : Searches(g)' => Searches(g)
    BY <1>1, <1>5 DEF Searches
  <2>. QED  BY <1>1, <2>1, <2>2, StatedFrame DEF Threads, Searching, Served
<1>. QED  BY <1>7, <1>8, <1>9, <1>10 DEF Threads

LEMMA StatusThreads ==
    ASSUME Apart, TypeOK, Held, Threads, NEW w \in Workers, SetStopped(w) \/ SetRebuild(w)
    PROVE  Threads'
<1>. USE DEF objVars, searchVars
<1>0. /\ wop[w] \in {"none", "add", "cancel", "remove"} /\ wpc[w] \in {"stop", "rebuild"}
      /\ wpc[w] # "idle" /\ wpc[w] \notin Waits
  BY DEF TypeOK, SetStopped, SetRebuild, Waits
<1>1. PICK f \in Folders : /\ f = wf[w] /\ map[f] = None
                           /\ \A o \in Objs : spc[o] # "off" => of[o] # f
  BY <1>0, NoSearch
<1>2. UNCHANGED <<map, live, of, free, exit, spc, wo, broken>>
  BY DEF SetStopped, SetRebuild
<1>3. \/ wpc[w] = "stop" /\ SetStatus(f, "stopped") /\ Goes(w, wop[w], f)
      \/ wpc[w] = "rebuild" /\ SetStatus(f, "rebuild") /\ Moved(w, "reset", wop[w], f)
  BY <1>0, <1>1, ContinueGoes, WGotoMoves DEF SetStopped, SetRebuild, Step, Labels
<1>4. /\ f \notin unset' => status'[f] \in {"stopped", "rebuild"}
      /\ wpc[w] = "rebuild" => status'[f] = "rebuild" \/ f \in unset'
      /\ \A g \in Folders \ {f} : /\ status'[g] = status[g]
                                  /\ g \in unset' <=> g \in unset
  BY <1>3 DEF SetStatus, TypeOK
<1>5. /\ wpc'[w] \notin Waits \cup {"insert", "stop"}
      /\ wpc'[w] # "idle" => wf'[w] = f
      /\ wpc'[w] = "rebuild" => wop'[w] = "add"
      /\ wpc'[w] = "reset" /\ wop'[w] = "add" => wpc[w] = "rebuild"
  BY <1>3 DEF Goes, Moved, Waits
<1>6. \A v \in Workers \ {w} :
         /\ wpc'[v] = wpc[v] /\ wop'[v] = wop[v] /\ wf'[v] = wf[v]
         /\ wpc[v] # "idle" => wf[v] \in Folders \ {f}
  BY <1>0, <1>1, <1>3, OthersKeep DEF Goes
<1>7. Objects'
  BY <1>0, <1>2, <1>6 DEF Threads, Objects
<1>8. Mapped'
  BY <1>2 DEF Threads, Mapped
<1>9. Works'
  <2>1. WorksOne(w)'
    BY <1>1, <1>2, <1>4, <1>5 DEF WorksOne
  <2>2. ASSUME NEW v \in Workers \ {w}  PROVE WorksOne(v)'
    <3>1. wpc[v] # "idle" => /\ status'[wf[v]] = status[wf[v]]
                             /\ wf[v] \in unset' <=> wf[v] \in unset
      BY <1>4, <1>6
    <3>. QED  BY <1>2, <1>6, <3>1 DEF Threads, Works, WorksOne
  <2>. QED  BY <2>1, <2>2 DEF Works, WorksOne
<1>10. Searching'
  <2>1. ~Changing(f)'
    BY <1>0, <1>5, <1>6 DEF Changing, Waits
  <2>2. ~Searches(f)'
    BY <1>1, <1>2 DEF Searches
  <2>3. f \notin unset' => Stated(f)'
    BY <1>1, <1>2, <1>4, <2>1, <2>2 DEF Stated, Served
  <2>4. ASSUME NEW g \in Folders \ {f}
        PROVE  /\ Searches(g)' => g \notin broken'
               /\ g \notin unset' => Stated(g)'
    <3>1. Searches(g)' <=> Searches(g)
      BY <1>2 DEF Searches
    <3>2. Changing(g)' <=> Changing(g)
      BY <1>1, <1>5, <1>6 DEF Changing
    <3>. QED  BY <1>2, <1>4, <3>1, <3>2, StatedFrame DEF Threads, Served
  <2>. QED  BY <2>2, <2>3, <2>4 DEF Searching
<1>. QED  BY <1>7, <1>8, <1>9, <1>10 DEF Threads

LEMMA ResetThreads ==
    ASSUME TypeOK, Held, Threads, NEW w \in Workers, Reset(w)
    PROVE  Threads'
<1>. USE DEF objVars, searchVars
<1>0. /\ wop[w] \in {"none", "add", "cancel", "remove"} /\ wpc[w] = "reset"
      /\ wf[w] \in Folders \cup {None}
      /\ UNCHANGED <<map, live, of, free, exit, spc, status, wo, unset, broken>>
  BY DEF TypeOK, Reset
<1>1. \/ wop[w] = "add" /\ Moved(w, "insert", wop[w], wf[w])
      \/ Moved(w, "idle", "none", None)
  BY <1>0, WGotoMoves DEF Reset, Step, Return, Labels
<1>2. \A v \in Workers \ {w} :
         wpc'[v] = wpc[v] /\ wop'[v] = wop[v] /\ wf'[v] = wf[v]
  BY <1>1 DEF Moved
<1>3. /\ wpc[w] \notin Waits \cup {"stop"}
      /\ wpc'[w] \notin Waits \cup {"stop"}
      /\ wpc'[w] = "idle" \/ (wop[w] = "add" /\ wpc'[w] = "insert" /\ wop'[w] = wop[w]
                                /\ wf'[w] = wf[w])
  BY <1>0, <1>1 DEF Moved, Waits
<1>4. Objects' /\ Mapped'
  BY <1>0, <1>2, <1>3 DEF Threads, Objects, Mapped
<1>6. Works'
  <2>1. WorksOne(w)'
    BY <1>0, <1>3 DEF Threads, Works, WorksOne, Waits
  <2>2. \A v \in Workers \ {w} : WorksOne(v)'
    BY <1>0, <1>2 DEF Threads, Works, WorksOne
  <2>. QED  BY <2>1, <2>2 DEF Works, WorksOne
<1>7. Searching'
  <2>1. \A g \in Folders : /\ Searches(g)' <=> Searches(g)
                           /\ Changing(g)' <=> Changing(g)
    BY <1>0, <1>2, <1>3 DEF Searches, Changing
  <2>. QED  BY <1>0, <2>1, StatedFrame DEF Threads, Searching, Served
<1>. QED  BY <1>4, <1>6, <1>7 DEF Threads

LEMMA InsertThreads ==
    ASSUME Apart, TypeOK, Held, Threads, NEW w \in Workers, NEW o \in Objs, Insert(w, o)
    PROVE  Threads'
<1>0. /\ wpc[w] = "insert" /\ wpc[w] # "idle" /\ wpc[w] \notin Waits \cup {"stop"}
      /\ o \notin live /\ o # None
      /\ Moved(w, "idle", "none", None) /\ UNCHANGED <<exit, status, wo, unset>>
  BY NoneAssumption, WGotoMoves DEF Insert, Return, Labels, Waits
<1>1. PICK f \in Folders : /\ f = wf[w] /\ map[f] = None
                           /\ status[f] = "rebuild" \/ f \in unset
                           /\ \A q \in Objs : spc[q] # "off" => of[q] # f
  BY <1>0, NoSearch DEF Threads, Works
<1>2. /\ live' = live \cup {o}
      /\ of'[o] = f /\ \A q \in Objs \ {o} : of'[q] = of[q]
      /\ map'[f] = o /\ \A g \in Folders \ {f} : map'[g] = map[g]
      /\ spc'[o] = "reset" /\ \A q \in Objs \ {o} : spc'[q] = spc[q]
      /\ broken' = broken \ {f}
  BY <1>1 DEF Insert, SGoto, TypeOK
<1>3. /\ wpc'[w] = "idle"
      /\ \A v \in Workers \ {w} :
            /\ wpc'[v] = wpc[v] /\ wop'[v] = wop[v] /\ wf'[v] = wf[v]
            /\ wpc[v] # "idle" => wf[v] \in Folders \ {f}
  BY <1>0, <1>1, OthersKeep DEF Moved
<1>4. ~exit[o] /\ spc[o] = "off" /\ \A g \in Folders : map[g] # o
  BY <1>0 DEF Held, Threads, Objects
<1>5. Objects'
  <2>1. ASSUME NEW q \in Objs \ {o}, q \in live
        PROVE  \/ map'[of'[q]] = q
               \/ \E v \in Workers : wpc'[v] \in Waits /\ wo'[v] = q
    <3>1. /\ of[q] \in Folders
          /\ \/ map[of[q]] = q
             \/ \E v \in Workers : wpc[v] \in Waits /\ wo[v] = q
      BY <2>1 DEF Held, Threads, Objects
    <3>2. ASSUME NEW v \in Workers, wpc[v] \in Waits, wo[v] = q
          PROVE  wpc'[v] \in Waits /\ wo'[v] = q
      BY <1>0, <1>3, <3>2
    <3>3. map[of[q]] = q => of[q] # f
      BY <1>1, NoneAssumption
    <3>. QED  BY <1>2, <3>1, <3>2, <3>3
  <2>2. o \in live' /\ map'[of'[o]] = o
    BY <1>2
  <2>. QED  BY <1>0, <1>2, <2>1, <2>2 DEF Threads, Objects
<1>6. Mapped'
  <2>1. \A g \in Folders \ {f} : map[g] # None => map[g] \in Objs \ {o}
    BY <1>4 DEF TypeOK
  <2>. QED  BY <1>0, <1>2, <1>4, <2>1 DEF Threads, Mapped
<1>7. Works'
  <2>1. WorksOne(w)'
    BY <1>3 DEF WorksOne, Waits
  <2>2. ASSUME NEW v \in Workers \ {w}  PROVE WorksOne(v)'
    <3>1. wpc[v] \in Waits => wo[v] \in Objs \ {o}
      BY <1>0, WaitedFor DEF Threads
    <3>2. wpc[v] # "idle" => map'[wf[v]] = map[wf[v]]
      BY <1>2, <1>3
    <3>. QED  BY <1>0, <1>2, <1>3, <3>1, <3>2 DEF Threads, Works, WorksOne
  <2>. QED  BY <2>1, <2>2 DEF Works, WorksOne
<1>8. Searching'
  <2>1. \A g \in Folders : Changing(g)' <=> Changing(g)
    BY <1>0, <1>3 DEF Changing, Waits
  <2>2. f \notin broken' /\ (f \notin unset' => Stated(f)')
    BY <1>0, <1>1, <1>2 DEF Stated
  <2>3. ASSUME NEW g \in Folders \ {f}
        PROVE  /\ Searches(g)' => g \notin broken'
               /\ g \notin unset' => Stated(g)'
    <3>1. Searches(g)' => Searches(g)
      BY <1>2 DEF Searches
    <3>. QED  BY <1>0, <1>2, <2>1, <3>1, StatedFrame DEF Threads, Served
  <2>. QED  BY <2>2, <2>3 DEF Searching
<1>. QED  BY <1>5, <1>6, <1>7, <1>8 DEF Threads

LEMMA WorkThreads ==
    ASSUME Apart, TypeOK, Held, Threads, NEW w \in Workers, Call(w)
    PROVE  Threads'
BY TakeThreads, SignalThreads, DestroyThreads, StatusThreads, ResetThreads, InsertThreads
   DEF Call, Work

-----------------------------------------------------------------------------
(* Events, and what has been selected. *)

LEMMA ProcessingFrame ==
    ASSUME Processing, UNCHANGED <<group, left, events, batch, told>>,
           \A f \in left : map'[f] # None
    PROVE  Processing'
BY DEF Processing

LEMMA WorkProcessing ==
    ASSUME TypeOK, Processing, NEW w \in Workers, Call(w)
    PROVE  Processing'
<1>1. UNCHANGED <<group, left, events, batch, told>>
  BY DEF Call, TakeFolder, Work, SignalExit, SleepOn, Destroy, SetStopped, SetRebuild,
         Reset, Insert, eventVars, procVars
<1>2. map' = map \/ left = {}
  BY DEF Call, TakeFolder, Work, SignalExit, SleepOn, Destroy, SetStopped, SetRebuild,
         Reset, Insert, MapFree, Processing
<1>. QED  BY <1>1, <1>2, ProcessingFrame DEF Processing

LEMMA NotifyProcessing ==
    ASSUME TypeOK, Processing, NEW c \in unsent, Notify(c)
    PROVE  Processing'
<1>1. UNCHANGED <<batch, group, left, map>> /\ told \in Nat /\ c \in Event
  BY DEF Notify, procVars, TypeOK
<1>2. CASE events' = events /\ told' = told
  BY <1>1, <1>2, ProcessingFrame DEF Processing
<1>3. ASSUME NEW p \in Places, events' = events \cup {Numbered(c, p)},
             told' = told + 1
      PROVE  Processing'
  <2>1. Numbered(c, p).n = told
    BY <1>1, NumberedEvent
  <2>2. \A e \in events \cup batch : e.n < told /\ e.n \in Nat
    BY DEF Processing, TypeOK, Event
  <2>3. \A e \in events' \cup batch' : e = Numbered(c, p) \/ e \in events \cup batch
    BY <1>1, <1>3
  <2>4. \A e \in events' \cup batch' : e.n < told'
    BY <1>1, <1>3, <2>1, <2>2, <2>3
  <2>5. \A d, e \in events' \cup batch' : d.n = e.n => d = e
    BY <1>1, <2>1, <2>2, <2>3 DEF Processing
  <2>. QED  BY <1>1, <2>4, <2>5 DEF Processing
<1>. QED  BY <1>2, <1>3, NotifyQueues

LEMMA ProcessProcessing ==
    ASSUME TypeOK, Processing, Process \/ \E F \in SUBSET Folders : GiveUp(F)
    PROVE  Processing'
<1>. USE DEF eventVars
<1>1. CASE TakeEvents
  <2>1. /\ events' \cup batch' \subseteq events \cup batch
        /\ UNCHANGED <<group, left, map, told>>
    BY <1>1 DEF TakeEvents
  <2>. QED  BY <2>1 DEF Processing
<1>2. CASE ChangeGroup
  <2>1. /\ batch' \subseteq batch /\ UNCHANGED <<events, map, told>>
        /\ group' = FirstGroup /\ left' = {f \in Folders : map[f] # None}
        /\ batch \in SUBSET Event /\ batch # {}
    BY <1>2 DEF ChangeGroup, TypeOK
  <2>2. group' # {}
    BY <2>1, GroupThere DEF Processing
  <2>. QED  BY <2>1, <2>2 DEF Processing
<1>3. CASE EndGroup
  BY <1>3 DEF EndGroup, Processing
<1>4. ASSUME NEW f \in Folders, ChangeFolder(f)  PROVE Processing'
  BY <1>4 DEF ChangeFolder, Processing
<1>5. ASSUME NEW F \in SUBSET Folders, GiveUp(F)  PROVE Processing'
  BY <1>5 DEF GiveUp, Processing
<1>. QED  BY <1>1, <1>2, <1>3, <1>4, <1>5 DEF Process

\* Events are about messages.
LEMMA EventMsg ==
    ASSUME TypeOK
    PROVE  \A e \in unsent \cup Told : e \in Event /\ e.msg \in Messages
BY DEF TypeOK, Told, Event

\* A step that brings no event and changes no message keeps Events.
LEMMA EventsFrame ==
    ASSUME Events, UNCHANGED <<life, loc, overtaken>>,
           unsent' \subseteq unsent, Told' \subseteq Told
    PROVE  Events'
BY DEF Events

\* What is in hand of a message is marked when the message goes elsewhere.
LEMMA InHandEvents ==
    ASSUME NEW m \in Messages,
           (\E e \in unsent \cup Told : e.msg = m) \/ (\E o \in Objs : m \in ids[o])
    PROVE  InHand(m)
BY DEF InHand, Msgs, Told

LEMMA ChangeEvents ==
    ASSUME TypeOK, Events, Selected, Change
    PROVE  Events' /\ Selected'
<1>. USE DEF eventVars, procVars, searchVars
<1>1. PICK m \in Messages : \/ Create(m) \/ Modify(m)
                            \/ \E p \in Places : Move(m, p)
                            \/ \E how \in {"trash", "gone"} : Delete(m, how)
  BY DEF Change
<1>2. /\ \A e \in unsent' \cup Told' :
            \/ e \in unsent \cup Told
            \/ e \in unsent' /\ e.msg = m
                 /\ IF life[m] = "there" /\ life'[m] # "there" THEN e.type = "DELETE"
                    ELSE e.type # "DELETE"
      /\ UNCHANGED <<Told, ids, places>>
  BY <1>1 DEF Commit, Create, Modify, Move, Delete, Told, TypeOK
<1>3. /\ \A k \in Messages \ {m} : life'[k] = life[k] /\ loc'[k] = loc[k]
      /\ overtaken \subseteq overtaken'
      /\ life[m] \in {"none", "there"}
      /\ life'[m] \in {"trash", "gone", "there"}
      /\ \/ life'[m] = "there" /\ loc'[m] = loc[m]
         \/ life'[m] = "there" /\ (InHand(m) => m \in overtaken')
         \/ life[m] = "there" /\ life'[m] # "there" /\ (InHand(m) => m \in overtaken')
  BY <1>1 DEF Create, Modify, Move, Delete, Overtake, TypeOK
<1>4. ASSUME NEW e \in unsent' \cup Told'
      PROVE  /\ e.type = "DELETE" => life'[e.msg] \in {"trash", "gone"}
             /\ e.type # "DELETE" /\ e.msg \notin overtaken' => life'[e.msg] = "there"
  <2>1. CASE e \in unsent \cup Told /\ e.msg # m
    BY <1>3, <2>1, EventMsg DEF Events
  <2>2. CASE e \in unsent \cup Told /\ e.msg = m
    <3>1. InHand(m) /\ (e.type = "DELETE" => life[m] \in {"trash", "gone"})
      BY <2>2, InHandEvents DEF Events
    <3>. QED  BY <1>3, <2>2, <3>1
  <2>3. CASE e \notin unsent \cup Told
    BY <1>2, <1>3, <2>3
  <2>. QED  BY <2>1, <2>2, <2>3
<1>5. ASSUME NEW e \in Told', e.type # "DELETE", e.msg \notin overtaken'
      PROVE  e.place = loc'[e.msg]
  <2>1. e \in Told /\ e.msg \in Messages /\ e.place = loc[e.msg]
    BY <1>2, <1>3, <1>5, EventMsg DEF Events
  <2>2. e.msg = m => InHand(m)
    BY <2>1, InHandEvents
  <2>. QED  BY <1>3, <1>5, <2>1, <2>2
<1>6. Events'
  BY <1>4, <1>5 DEF Events
<1>7. ASSUME NEW o \in Objs, NEW k \in ids[o] \ overtaken'
      PROVE  life'[k] = "there" /\ loc'[k] \in Target
  <2>1. k \in Messages /\ life[k] = "there" /\ loc[k] \in Target
    BY <1>3 DEF Selected, TypeOK
  <2>2. k = m => InHand(m)
    BY InHandEvents
  <2>. QED  BY <1>3, <2>1, <2>2
<1>. QED  BY <1>2, <1>6, <1>7 DEF Selected

LEMMA SelectedFrame ==
    ASSUME Selected, UNCHANGED <<life, loc, overtaken, places, ids>>
    PROVE  Selected'
BY DEF Selected

LEMMA NotifyEvents ==
    ASSUME TypeOK, Events, Selected, NEW c \in unsent, Notify(c)
    PROVE  Events' /\ Selected'
<1>0. UNCHANGED <<life, loc, overtaken, batch, group, places, ids>> /\ c \in Event
  BY DEF Notify, msgVars, procVars, searchVars, TypeOK
<1>1. unsent' \subseteq unsent
  BY DEF Notify
<1>2. CASE events' = events
  <2>1. Told' = Told
    BY <1>0, <1>2 DEF Told
  <2>. QED  BY <1>0, <1>1, <2>1, EventsFrame, SelectedFrame
<1>3. ASSUME NEW p \in Places, events' = events \cup {Numbered(c, p)},
             c.type = "DELETE" \/ (life[c.msg] = "there" /\ p = loc[c.msg])
      PROVE  Events' /\ Selected'
  <2>1. Told' = Told \cup {Numbered(c, p)}
    BY <1>0, <1>3 DEF Told
  <2>2. /\ Numbered(c, p).type = c.type /\ Numbered(c, p).msg = c.msg
        /\ Numbered(c, p).place = p
    BY <1>0, NumberedEvent
  <2>3. c.type = "DELETE" => life[c.msg] \in {"trash", "gone"}
    BY DEF Events
  <2>4. \A e \in Told' : e \in Told \/ e = Numbered(c, p)
    BY <2>1
  <2>5. \A e \in unsent' \cup Told' :
           /\ e.type = "DELETE" => life[e.msg] \in {"trash", "gone"}
           /\ e.type # "DELETE" /\ e.msg \notin overtaken => life[e.msg] = "there"
    BY <1>1, <1>3, <2>2, <2>3, <2>4 DEF Events
  <2>6. \A e \in Told' :
           e.type # "DELETE" /\ e.msg \notin overtaken => e.place = loc[e.msg]
    BY <1>3, <2>2, <2>4 DEF Events
  <2>. QED  BY <1>0, <2>5, <2>6, SelectedFrame DEF Events
<1>. QED  BY <1>2, <1>3, NotifyQueues

LEMMA ProcessEvents ==
    ASSUME TypeOK, Events, Selected, Process \/ \E F \in SUBSET Folders : GiveUp(F)
    PROVE  Events' /\ Selected'
<1>1. UNCHANGED <<life, loc, overtaken, unsent, places, ids>>
  BY DEF Process, TakeEvents, ChangeGroup, ChangeFolder, EndGroup, GiveUp,
         msgVars, eventVars, searchVars
<1>2. Told' \subseteq Told
  BY DEF Process, TakeEvents, ChangeGroup, FirstGroup, ChangeFolder, EndGroup,
         GiveUp, eventVars, Told
<1>. QED  BY <1>1, <1>2, EventsFrame, SelectedFrame

LEMMA WorkEvents ==
    ASSUME TypeOK, Events, Selected, NEW w \in Workers, Call(w)
    PROVE  Events' /\ Selected'
<1>1. UNCHANGED <<life, loc, overtaken, unsent, events, batch, group, places, ids>>
  BY DEF Call, TakeFolder, Work, SignalExit, SleepOn, Destroy, SetStopped, SetRebuild,
         Reset, Insert, msgVars, eventVars, procVars, searchVars
<1>. QED  BY <1>1, EventsFrame, SelectedFrame DEF Told

LEMMA SearchProcessing ==
    ASSUME TypeOK, Processing, NEW o \in Objs,
           \/ Search(o) \/ SearchFails(o) \/ \E p \in Places : SkipPlace(o, p)
    PROVE  Processing'
<1>1. UNCHANGED <<told, events, batch, group, left, map>>
  BY DEF Search, ResetSearch, SetRunning, Leave, SelectRows, AddCandidate,
         SearchFails, SkipPlace, eventVars, procVars
<1>. QED  BY <1>1, ProcessingFrame DEF Processing

LEMMA SearchEvents ==
    ASSUME TypeOK, Events, Selected, NEW o \in Objs,
           \/ Search(o) \/ SearchFails(o) \/ \E p \in Places : SkipPlace(o, p)
    PROVE  Events' /\ Selected'
<1>1. UNCHANGED <<life, loc, overtaken, unsent, events, batch, group>>
  BY DEF Search, ResetSearch, SetRunning, Leave, SelectRows, AddCandidate,
         SearchFails, SkipPlace, msgVars, eventVars, procVars
<1>2. Events'
  BY <1>1, EventsFrame DEF Told
<1>3. \A q \in Objs : /\ places'[q] \subseteq places[q] \cup Target
                      /\ \A m \in ids'[q] : \/ m \in ids[q]
                                            \/ life[m] = "there" /\ loc[m] \in Target
  BY DEF Search, ResetSearch, SetRunning, Leave, SelectRows, AddCandidate,
         SearchFails, SkipPlace, Selected, TypeOK
<1>. QED  BY <1>1, <1>2, <1>3 DEF Selected

-----------------------------------------------------------------------------
(* The results. *)

LEMMA EmptiedStep ==
    ASSUME Apart, TypeOK, Held, Threads, Processing, Emptied, [Next]_vars
    PROVE  Emptied'
<1>. USE DEF msgVars, eventVars, procVars, objVars, searchVars, workVars, errorVars
<1>f. ASSUME NEW w \in Workers, wpc[w] = "insert"
      PROVE  wf[w] \in Folders /\ map[wf[w]] = None /\ results[wf[w]] = {}
  BY <1>f, ServesAssumption DEF Held, Threads, Works, Emptied
<1>1. ASSUME UNCHANGED <<wpc, wf>>,
             \A f \in Folders : map[f] = None /\ results[f] = {} /\ results'[f] # {} =>
                \A w \in Workers : wpc[w] = "insert" => wf[w] # f
      PROVE  Emptied'
  BY <1>1, <1>f DEF Emptied
<1>2. CASE Change \/ (\E c \in unsent : Notify(c)) \/ UNCHANGED vars
  <2>1. UNCHANGED <<wpc, wf, results>>
    BY <1>2 DEF Change, Create, Modify, Move, Delete, Commit, Notify, vars
  <2>. QED  BY <1>1, <2>1
<1>3. CASE Process \/ \E F \in SUBSET Folders : GiveUp(F)
  <2>1. CASE UNCHANGED <<wpc, wf, results>>
    BY <1>1, <2>1
  <2>2. ASSUME NEW f \in Folders, ChangeFolder(f)  PROVE Emptied'
    <3>1. map[f] # None /\ UNCHANGED <<wpc, wf>>
      BY <2>2 DEF ChangeFolder, Processing
    <3>2. \A g \in Folders \ {f} : results'[g] = results[g]
      BY <2>2 DEF ChangeFolder, TypeOK
    <3>. QED  BY <1>1, <3>1, <3>2
  <2>. QED
    BY <1>3, <2>1, <2>2 DEF Process, TakeEvents, ChangeGroup, EndGroup, GiveUp
<1>4. ASSUME NEW o \in Objs,
             \/ Search(o) \/ SearchFails(o) \/ \E p \in Places : SkipPlace(o, p)
      PROVE  Emptied'
  <2>1. CASE UNCHANGED <<wpc, wf, results>>
    BY <1>1, <2>1
  <2>2. CASE Leave(o)
    BY <2>2, <1>f DEF Leave, Asleep, Emptied, TypeOK
  <2>3. CASE ResetSearch(o)
    <3>1. \A g \in Folders : results[g] = {} => results'[g] = {}
      BY <2>3 DEF ResetSearch, TypeOK
    <3>. QED  BY <1>1, <2>3, <3>1 DEF ResetSearch
  <2>4. ASSUME NEW m \in Messages, AddCandidate(o, m)  PROVE Emptied'
    <3>1. spc[o] # "off" /\ UNCHANGED <<wpc, wf>>
      BY <2>4 DEF AddCandidate
    <3>2. \A g \in Folders : g # of[o] => results'[g] = results[g]
      BY <2>4 DEF AddCandidate, TypeOK
    <3>3. ASSUME NEW w \in Workers, wpc[w] = "insert", wf[w] = of[o]  PROVE FALSE
      <4>1. PICK v \in Workers : wpc[v] \in Waits /\ wf[v] = of[o]
        BY <3>1, <3>3, <1>f, Searched, NoneAssumption
      <4>2. wpc[v] # "idle" /\ wpc[v] # "insert"
        BY <4>1 DEF Waits
      <4>. QED  BY <3>3, <4>1, <4>2, OneWorker
    <3>. QED  BY <1>1, <3>1, <3>2, <3>3
  <2>. QED
    BY <1>4, <2>1, <2>2, <2>3, <2>4
    DEF Search, SetRunning, SelectRows, SearchFails, SkipPlace
<1>5. ASSUME NEW w \in Workers, Call(w)
      PROVE  Emptied'
  <2>0. wop[w] \in {"none", "add", "cancel", "remove"} /\ wf[w] \in Folders \cup {None}
        /\ (wpc[w] # "idle" => wf[w] \in Folders)
    BY ServesAssumption DEF TypeOK, Held
  <2>1. ASSUME NEW l, NEW op2, NEW f, Moved(w, l, op2, f), l # "insert",
               results' = results
        PROVE  Emptied'
    BY <2>1 DEF Moved, Emptied
  <2>2. CASE Reset(w)
    <3>1. \/ /\ Moved(w, "insert", wop[w], wf[w]) /\ wpc[w] = "reset"
             /\ results' = [results EXCEPT ![wf[w]] = {}]
          \/ /\ Moved(w, "idle", "none", None) /\ wpc[w] = "reset"
             /\ results' = results \/ results' = [results EXCEPT ![wf[w]] = {}]
      BY <2>0, <2>2, WGotoMoves DEF Reset, Step, Return, Labels
    <3>2. \A g2 \in Folders : results[g2] = {} => results'[g2] = {}
      BY <2>0, <3>1 DEF TypeOK
    <3>3. wpc'[w] = "insert" => wf'[w] \in Folders /\ results'[wf'[w]] = {}
      BY <2>0, <3>1 DEF Moved, TypeOK
    <3>4. \A v \in Workers \ {w} : wpc'[v] = wpc[v] /\ wf'[v] = wf[v]
      BY <3>1 DEF Moved
    <3>. QED  BY <1>f, <3>2, <3>3, <3>4 DEF Emptied
  <2>3. ASSUME NEW op \in {"add", "cancel", "remove"}, NEW g \in Folders,
               TakeFolder(w, op, g)
        PROVE  Emptied'
    <3>1. Goes(w, op, g) \/ Moved(w, "signal", op, g)
      BY <2>3, ContinueGoes, WGotoMoves DEF TakeFolder, Labels
    <3>. QED  BY <2>1, <2>3, <3>1 DEF TakeFolder, Goes
  <2>4. CASE SetStopped(w)
    <3>1. Goes(w, wop[w], wf[w])
      BY <2>0, <2>4, ContinueGoes DEF SetStopped
    <3>. QED  BY <2>1, <2>4, <3>1 DEF SetStopped, Goes
  <2>5. CASE SignalExit(w) \/ SleepOn(w) \/ Destroy(w) \/ SetRebuild(w)
    <3>1. \E l \in Labels \ {"insert"} : Moved(w, l, wop[w], wf[w])
      BY <2>0, <2>5, WGotoMoves DEF SignalExit, SleepOn, Destroy, SetRebuild, Step, Labels
    <3>. QED  BY <2>1, <2>5, <3>1 DEF SignalExit, SleepOn, Destroy, SetRebuild
  <2>6. ASSUME NEW o \in Objs, Insert(w, o)  PROVE Emptied'
    <3>1. Moved(w, "idle", "none", None)
      BY <2>6, WGotoMoves DEF Insert, Return, Labels
    <3>. QED  BY <2>1, <2>6, <3>1 DEF Insert
  <2>. QED  BY <1>5, <2>2, <2>3, <2>4, <2>5, <2>6 DEF Call, Work
<1>. QED  BY <1>2, <1>3, <1>4, <1>5 DEF Next, Call

\* What is said of search folder f, when nothing becomes of it.
Right(f) == Complete(f) /\ Clean(f) /\ Whole(f)

LEMMA FolderKept ==
    ASSUME NEW f \in Folders, Right(f), UNCHANGED <<life, hit, loc, overtaken>>,
           results'[f] = results[f],
           Served(f)' => Served(f), map'[f] # None => map[f] # None,
           f \in dropped => f \in dropped',
           f \in broken => f \in broken', f \in cut => f \in cut',
           map'[f] # None /\ f \in cut' => f \in cut,
           \A m : Pending(f, m) => Pending(f, m)',
           \A m : Fixing(f, m) => Fixing(f, m)',
           \A m : ToSearch(f, m) => f \in broken' \cup cut' \/ ToSearch(f, m)'
    PROVE  Right(f)'
<1>1. ASSUME Served(f)', f \notin dropped' \cup broken' \cup cut',
             NEW m \in Messages, Wanted(m)'
      PROVE  m \in results'[f] \/ Pending(f, m)' \/ ToSearch(f, m)'
  <2>1. Wanted(m)
    BY <1>1 DEF Wanted, Fits
  <2>2. m \in results[f] \/ Pending(f, m) \/ ToSearch(f, m)
    BY <1>1, <2>1 DEF Right, Complete
  <2>. QED  BY <1>1, <2>2
<1>2. ASSUME map'[f] # None, f \notin dropped', NEW m \in results[f] \ overtaken
      PROVE  Fits(m)' \/ Fixing(f, m)'
  BY <1>2 DEF Right, Clean, Fits
<1>. QED  BY <1>1, <1>2 DEF Right, Complete, Clean, Whole

\* The updates on their way, when no event comes, goes or is taken.
LEMMA UpdatesKept ==
    ASSUME UNCHANGED <<unsent, events, batch, group, left>>, NEW f \in Folders, NEW m
    PROVE  (Pending(f, m) => Pending(f, m)') /\ (Fixing(f, m) => Fixing(f, m)')
BY DEF Pending, Fixing

\* What is to be searched, and whether it is in the map or to be said stopped.
LEMMA SearchKept ==
    ASSUME UNCHANGED <<loc, of, spc, places, ids>>, NEW f \in Folders, NEW m
    PROVE  ToSearch(f, m)' <=> ToSearch(f, m)
BY DEF ToSearch

LEMMA ServedKept ==
    ASSUME UNCHANGED <<map, wpc, wf>>, NEW f \in Folders
    PROVE  Served(f)' <=> Served(f)
BY DEF Served, Changing

\* A change of a message sends an update for it.
LEMMA ChangeResults ==
    ASSUME TypeOK, Results, Change
    PROVE  Results'
<1>. USE DEF eventVars, procVars, objVars, searchVars, workVars, errorVars
<1>1. PICK m \in Messages : \/ Create(m) \/ Modify(m)
                            \/ \E p \in Places : Move(m, p)
                            \/ \E how \in {"trash", "gone"} : Delete(m, how)
  BY DEF Change
<1>2. UNCHANGED <<results, events, batch, group, left, map, of, spc, places, ids,
                  wpc, wf, dropped, broken, cut>>
  BY <1>1 DEF Commit, Create, Modify, Move, Delete
<1>b. /\ unsent \subseteq unsent'
      /\ \E e \in unsent' : e.msg = m /\ (life[m] = "there" => e.type # "ADD")
  <2>1. ASSUME NEW type \in Types, NEW place, Commit(m, type, place),
               life[m] = "there" => type # "ADD"
        PROVE  /\ unsent \subseteq unsent'
               /\ \E e \in unsent' : e.msg = m /\ (life[m] = "there" => e.type # "ADD")
    <3>. DEFINE e == [n |-> changes, place |-> place, msg |-> m, type |-> type]
    <3>1. unsent' = unsent \cup {e} /\ e.msg = m /\ e.type = type
      BY <2>1 DEF Commit
    <3>. QED  BY <2>1, <3>1
  <2>. QED  BY <1>1, <2>1 DEF Create, Modify, Move, Delete, Types
<1>c. /\ life[m] # "there" => life[m] = "none"
      /\ \A k \in Messages \ {m} : /\ life'[k] = life[k] /\ loc'[k] = loc[k]
                                   /\ hit'[k] = hit[k]
      /\ overtaken \subseteq overtaken'
  BY <1>1 DEF Create, Modify, Move, Delete, Overtake, TypeOK
<1>3. \A f \in Folders : \A k : /\ Pending(f, k) => Pending(f, k)'
                                /\ Fixing(f, k) => Fixing(f, k)'
  BY <1>2, <1>b DEF Pending, Fixing, Msgs
<1>4. SUFFICES ASSUME NEW f \in Folders  PROVE Right(f)'
  BY DEF Results, Right
<1>5. Complete(f) /\ Clean(f) /\ Whole(f) /\ (Served(f)' <=> Served(f))
  BY <1>2, ServedKept DEF Results
<1>6. ASSUME Served(f), f \notin dropped \cup broken \cup cut,
             NEW k \in Messages, Wanted(k)'
      PROVE  k \in results[f] \/ Pending(f, k)' \/ ToSearch(f, k)'
  <2>1. CASE k = m
    BY <1>b, <2>1 DEF Pending, Msgs
  <2>2. CASE k # m
    <3>1. Wanted(k) /\ (ToSearch(f, k) => ToSearch(f, k)')
      BY <1>2, <1>c, <1>6, <2>2 DEF Wanted, Fits, ToSearch
    <3>. QED  BY <1>3, <1>5, <1>6, <3>1 DEF Complete
  <2>. QED  BY <2>1, <2>2
<1>7. ASSUME map[f] # None, f \notin dropped, NEW k \in results[f] \ overtaken'
      PROVE  Fits(k)' \/ Fixing(f, k)'
  <2>1. k \in Messages /\ (Fits(k) \/ Fixing(f, k))
    BY <1>c, <1>5, <1>7 DEF Clean, TypeOK
  <2>2. CASE k = m
    <3>1. life[m] = "there" => Fixing(f, m)'
      BY <1>b DEF Fixing
    <3>2. life[m] # "there" => ~Fits(m)
      BY DEF Fits
    <3>. QED  BY <1>3, <2>1, <2>2, <3>1, <3>2
  <2>3. CASE k # m
    BY <1>c, <1>3, <2>1, <2>3 DEF Fits
  <2>. QED  BY <2>2, <2>3
<1>. QED  BY <1>2, <1>5, <1>6, <1>7 DEF Right, Complete, Clean, Whole

\* An event that is not queued is of a message that is not there.
LEMMA NotifyResults ==
    ASSUME TypeOK, Events, Results, NEW c \in unsent, Notify(c)
    PROVE  Results'
<1>1. UNCHANGED <<life, hit, loc, overtaken, results, batch, group, left, map, of,
                  spc, places, ids, wpc, wf, dropped, broken, cut>>
      /\ c \in Event /\ unsent' = unsent \ {c}
  BY DEF Notify, msgVars, procVars, objVars, searchVars, workVars, errorVars, TypeOK
<1>. SUFFICES ASSUME NEW f \in Folders  PROVE Right(f)'
  BY DEF Results, Right
<1>2. Right(f) /\ (Served(f)' <=> Served(f)) /\ \A m : ToSearch(f, m)' <=> ToSearch(f, m)
  BY <1>1, ServedKept, SearchKept DEF Results, Right
<1>3. ASSUME NEW p \in Places, events' = events \cup {Numbered(c, p)}
      PROVE  Right(f)'
  <2>1. /\ Numbered(c, p).msg = c.msg /\ Numbered(c, p).type = c.type
        /\ Numbered(c, p) \in events'
    BY <1>1, <1>3, NumberedEvent
  <2>2. \A e \in unsent \cup events \cup batch :
           \E d \in unsent' \cup events' \cup batch : d.msg = e.msg /\ d.type = e.type
    BY <1>1, <1>3, <2>1
  <2>3. \A m : Pending(f, m) => Pending(f, m)'
    BY <1>1, <2>2 DEF Pending, Msgs
  <2>4. \A m : Fixing(f, m) => Fixing(f, m)'
    BY <1>1, <2>2 DEF Fixing
  <2>. QED  BY <1>1, <1>2, <2>3, <2>4, FolderKept
<1>4. CASE events' = events /\ c.type # "DELETE" /\ life[c.msg] # "there"
  <2>1. c.msg \in overtaken
    BY <1>4 DEF Events
  <2>2. \A m : m # c.msg =>
           (Pending(f, m) => Pending(f, m)') /\ (Fixing(f, m) => Fixing(f, m)')
    BY <1>1, <1>4 DEF Pending, Fixing, Msgs
  <2>3. \A m : Wanted(m)' = Wanted(m) /\ Fits(m)' = Fits(m)
    BY <1>1 DEF Wanted, Fits
  <2>4. Wanted(c.msg) = FALSE
    BY <2>1 DEF Wanted
  <2>5. Complete(f)'
    BY <1>1, <1>2, <2>2, <2>3, <2>4 DEF Right, Complete
  <2>6. Clean(f)' /\ Whole(f)'
    BY <1>1, <1>2, <2>1, <2>2, <2>3 DEF Right, Clean, Whole
  <2>. QED  BY <2>5, <2>6 DEF Right
<1>. QED  BY <1>3, <1>4, NotifyQueues

\* A group of events, applied to a search folder, leaves it right: it adds what
\* it should and removes what it should.
LEMMA GroupApplied ==
    ASSUME TypeOK, Events, NEW R \in SUBSET Messages, NEW m \in Messages,
           m \notin overtaken
    PROVE  /\ Fits(m) /\ (m \in R \/ m \in Msgs(group)) => m \in Updated(R)
           /\ m \in Updated(R) =>
                 Fits(m) \/ (m \in R /\ ~ \E e \in group : e.msg = m /\ e.type # "ADD")
<1>. DEFINE off == {e.msg : e \in {d \in group : d.type = "DELETE" \/ d.place \notin Target}}
            mod == {e.msg : e \in {d \in group : d.type = "MODIFY"}}
            ms  == Msgs(group) \ off
<1>0. Updated(R) = (R \ (off \cup {k \in ms \cap mod : ~Matches(k)})) \cup {k \in ms : Matches(k)}
  BY DEF Updated
<1>1. \A e \in group : /\ e.type \in {"ADD", "MODIFY", "DELETE"}
                       /\ e.type = "DELETE" => life[e.msg] \in {"trash", "gone"}
                       /\ e.type # "DELETE" /\ e.msg \notin overtaken =>
                             life[e.msg] = "there" /\ e.place = loc[e.msg]
  BY DEF Events, Told, TypeOK, Event, Types
<1>2. ASSUME Fits(m)  PROVE m \notin off /\ Matches(m)
  BY <1>1, <1>2 DEF Fits, Matches
<1>3. ASSUME m \in ms  PROVE life[m] = "there" /\ loc[m] \in Target
  <2>1. PICK e \in group : e.msg = m
    BY <1>3 DEF Msgs
  <2>2. e.type # "DELETE" /\ e.place \in Target
    BY <1>3, <2>1
  <2>. QED  BY <1>1, <2>1, <2>2
<1>4. ASSUME m \in ms, Matches(m)  PROVE Fits(m)
  BY <1>3, <1>4 DEF Matches, Fits
<1>5. Fits(m) /\ (m \in R \/ m \in Msgs(group)) => m \in Updated(R)
  BY <1>0, <1>2
<1>6. ASSUME m \in Updated(R), ~Fits(m), NEW e \in group, e.msg = m, e.type # "ADD"
      PROVE  FALSE
  <2>1. m \in R /\ m \notin off /\ ~ (m \in ms /\ Matches(m))
    BY <1>0, <1>4, <1>6
  <2>2. m \in ms /\ m \in mod
    BY <1>1, <1>6, <2>1 DEF Msgs
  <2>. QED  BY <1>0, <1>6, <2>1, <2>2
<1>7. m \in Updated(R) /\ ~Fits(m) => m \in R
  BY <1>0, <1>4
<1>. QED  BY <1>5, <1>6, <1>7

\* An update is applied to the search folders in the map; one out of the map
\* is marked.
LEMMA ProcessResults ==
    ASSUME TypeOK, Processing, Events, Results,
           Process \/ \E F \in SUBSET Folders : GiveUp(F)
    PROVE  Results'
<1>. USE DEF msgVars, eventVars, objVars, searchVars, workVars, errorVars
<1>. SUFFICES ASSUME NEW f \in Folders  PROVE Right(f)'
  BY DEF Results, Right
<1>0. UNCHANGED <<life, hit, loc, overtaken, map, unsent, of, spc, places, ids,
                  wpc, wf, broken>>
  BY DEF Process, TakeEvents, ChangeGroup, EndGroup, ChangeFolder, GiveUp
<1>1. Right(f) /\ (Served(f)' <=> Served(f)) /\ \A m : ToSearch(f, m)' <=> ToSearch(f, m)
  BY <1>0, ServedKept, SearchKept DEF Results, Right
<1>2. ASSUME results'[f] = results[f], f \in dropped => f \in dropped', cut' = cut,
             \A m : Pending(f, m) => Pending(f, m)',
             \A m : Fixing(f, m) => Fixing(f, m)'
      PROVE  Right(f)'
  BY <1>0, <1>1, <1>2, FolderKept
<1>3. CASE TakeEvents
  <2>1. /\ events \cup batch \subseteq events' \cup batch'
        /\ UNCHANGED <<unsent, group, left, results, dropped, cut>>
    BY <1>3 DEF TakeEvents
  <2>. QED  BY <1>2, <2>1 DEF Pending, Fixing, Msgs
<1>4. CASE ChangeGroup
  <2>1. /\ batch \subseteq batch' \cup group' /\ group = {}
        /\ map[f] # None => f \in left'
        /\ cut' = cut \cup {g \in Folders : map[g] = None}
        /\ UNCHANGED <<unsent, events, results, dropped>>
    BY <1>4 DEF ChangeGroup
  <2>2. CASE map[f] # None
    <3>1. \A m : /\ Pending(f, m) => Pending(f, m)'
                 /\ Fixing(f, m) => Fixing(f, m)'
      BY <1>0, <2>1, <2>2 DEF Pending, Fixing, Msgs
    <3>2. f \in cut' <=> f \in cut
      BY <2>1, <2>2
    <3>. QED  BY <1>0, <1>1, <2>1, <3>1, <3>2, FolderKept
  <2>3. CASE map[f] = None
    <3>1. f \in cut' /\ map'[f] = None
      BY <1>0, <2>1, <2>3
    <3>. QED  BY <3>1 DEF Right, Complete, Clean, Whole
  <2>. QED  BY <2>2, <2>3
<1>5. CASE EndGroup
  <2>1. left = {} /\ UNCHANGED <<unsent, events, batch, left, results, dropped, cut>>
    BY <1>5 DEF EndGroup
  <2>. QED  BY <1>2, <2>1 DEF Pending, Fixing, Msgs
<1>6. ASSUME NEW F \in SUBSET Folders, GiveUp(F)  PROVE Right(f)'
  <2>1. /\ left' = left \ F /\ dropped' = dropped \cup F
        /\ UNCHANGED <<unsent, events, batch, group, results, cut>>
    BY <1>6 DEF GiveUp
  <2>2. CASE f \in F
    BY <1>0, <1>1, <2>1, <2>2 DEF Right, Complete, Clean, Whole
  <2>3. CASE f \notin F
    BY <1>2, <2>1, <2>3 DEF Pending, Fixing
  <2>. QED  BY <2>2, <2>3
<1>7. ASSUME NEW g \in Folders, ChangeFolder(g)  PROVE Right(f)'
  <2>1. /\ left' = left \ {g} /\ results' = [results EXCEPT ![g] = Updated(results[g])]
        /\ map[g] # None
        /\ UNCHANGED <<unsent, events, batch, group, dropped, cut>>
    BY <1>7 DEF ChangeFolder, Processing
  <2>2. CASE f # g
    BY <1>2, <2>1, <2>2 DEF Pending, Fixing, TypeOK
  <2>3. CASE f = g
    <3>1. results'[f] = Updated(results[f]) /\ results[f] \in SUBSET Messages
      BY <2>1, <2>3 DEF TypeOK
    <3>2. \A m : Wanted(m)' = Wanted(m) /\ Fits(m)' = Fits(m)
      BY <1>0 DEF Wanted, Fits
    <3>3. \A m : Pending(f, m) => Pending(f, m)' \/ m \in Msgs(group)
      BY <1>0, <2>1 DEF Pending, Msgs
    <3>4. \A m : Fixing(f, m) =>
                    Fixing(f, m)' \/ \E e \in group : e.msg = m /\ e.type # "ADD"
      BY <1>0, <2>1 DEF Fixing
    <3>5. ASSUME Served(f), f \notin dropped \cup broken \cup cut,
                 NEW m \in Messages, Wanted(m)
          PROVE  m \in Updated(results[f]) \/ Pending(f, m)' \/ ToSearch(f, m)
      <4>1. m \in results[f] \/ Pending(f, m) \/ ToSearch(f, m)
        BY <1>1, <3>5 DEF Right, Complete
      <4>2. Fits(m) /\ m \notin overtaken
        BY <3>5 DEF Wanted
      <4>3. m \in results[f] \/ m \in Msgs(group) => m \in Updated(results[f])
        BY <3>1, <4>2, GroupApplied
      <4>. QED  BY <3>3, <4>1, <4>3
    <3>6. ASSUME f \notin dropped, NEW m \in Updated(results[f]) \ overtaken
          PROVE  Fits(m) \/ Fixing(f, m)'
      <4>1. m \in Messages
        BY <3>1 DEF Updated, Msgs, TypeOK, Event
      <4>2. \/ Fits(m)
            \/ m \in results[f] /\ ~ \E e \in group : e.msg = m /\ e.type # "ADD"
        BY <3>1, <3>6, <4>1, GroupApplied
      <4>3. m \in results[f] => Fits(m) \/ Fixing(f, m)
        BY <1>1, <2>1, <2>3, <3>6 DEF Right, Clean
      <4>. QED  BY <3>4, <4>2, <4>3
    <3>7. Complete(f)'
      BY <1>0, <1>1, <2>1, <3>1, <3>2, <3>5 DEF Complete
    <3>8. Clean(f)' /\ Whole(f)'
      BY <1>0, <1>1, <2>1, <3>1, <3>2, <3>6 DEF Right, Clean, Whole
    <3>. QED  BY <3>7, <3>8 DEF Right
  <2>. QED  BY <2>2, <2>3
<1>. QED  BY <1>3, <1>4, <1>5, <1>6, <1>7 DEF Process

\* A search works on one search folder, and no other search on that.
LEMMA SearchResults ==
    ASSUME Apart, TypeOK, Held, Threads, Selected, Results, NEW o \in Objs,
           \/ Search(o) \/ SearchFails(o) \/ \E p \in Places : SkipPlace(o, p)
    PROVE  Results'
<1>. USE DEF msgVars, eventVars, procVars, objVars, SGoto
<1>. SUFFICES ASSUME NEW f \in Folders  PROVE Right(f)'
  BY DEF Results, Right
<1>0. Right(f) /\ results[f] \in SUBSET Messages
  BY DEF Results, Right, TypeOK
<1>1. /\ UNCHANGED <<life, hit, loc, overtaken, unsent, events, batch, group, left,
                     map, of, wf>>
      /\ spc[o] # "off"
  BY DEF Search, ResetSearch, SetRunning, Leave, SelectRows, AddCandidate,
         SearchFails, SkipPlace, workVars
<1>2. \A m : /\ Pending(f, m) => Pending(f, m)'
             /\ Fixing(f, m) => Fixing(f, m)'
             /\ Wanted(m)' = Wanted(m) /\ Fits(m)' = Fits(m)
  BY <1>1, UpdatesKept DEF Wanted, Fits
<1>3. Served(f)' <=> Served(f)
  <2>1. \A w \in Workers : wpc'[w] = wpc[w] \/ (wpc[w] = "asleep" /\ wpc'[w] = "check")
    BY DEF Search, ResetSearch, SetRunning, Leave, Asleep, SelectRows, AddCandidate,
           SearchFails, SkipPlace, workVars, TypeOK
  <2>2. \A w \in Workers : /\ wpc'[w] \in Waits <=> wpc[w] \in Waits
                           /\ wpc'[w] = "stop" <=> wpc[w] = "stop"
    BY <2>1 DEF Waits
  <2>. QED  BY <1>1, <2>2 DEF Served, Changing
<1>4. /\ of[o] \in Folders /\ Served(of[o])
      /\ \A q \in Objs \ {o} : spc[q] # "off" => of[q] # of[o]
      /\ exit[o] => map[of[o]] = None
  BY <1>1, Searched, OneSearch DEF Threads, Mapped
<1>5. \A q \in Objs \ {o} : spc'[q] = spc[q] /\ places'[q] = places[q] /\ ids'[q] = ids[q]
  BY DEF Search, ResetSearch, SetRunning, Leave, SelectRows, AddCandidate,
         SearchFails, SkipPlace, TypeOK
<1>6. CASE of[o] # f
  <2>1. /\ results'[f] = results[f]
        /\ f \in dropped' <=> f \in dropped
        /\ f \in broken' <=> f \in broken
        /\ f \in cut' <=> f \in cut
    BY <1>4, <1>6
    DEF Search, ResetSearch, SetRunning, Leave, SelectRows, AddCandidate,
        SearchFails, SkipPlace, errorVars, TypeOK
  <2>2. \A m : ToSearch(f, m) => ToSearch(f, m)'
    BY <1>1, <1>5, <1>6 DEF ToSearch
  <2>. QED  BY <1>0, <1>1, <1>2, <1>3, <2>1, <2>2, FolderKept
<1>7. CASE of[o] = f
  <2>0. \A m : ToSearch(f, m) =>
           \/ spc[o] = "reset"
           \/ spc[o] = "select" /\ (loc[m] \in places[o] \/ m \in ids[o])
    BY <1>4, <1>7 DEF ToSearch
  <2>1. CASE ResetSearch(o)
    <3>1. /\ results'[f] = {} /\ spc'[o] = "select" /\ places'[o] = Target
          /\ UNCHANGED <<broken, cut>>
      BY <1>4, <1>7, <2>1 DEF ResetSearch, TypeOK
    <3>2. \A m : Wanted(m) => ToSearch(f, m)'
      BY <1>1, <1>7, <3>1 DEF Wanted, Fits, ToSearch
    <3>. QED  BY <1>0, <1>1, <1>2, <3>1, <3>2 DEF Right, Complete, Clean, Whole
  <2>2. ASSUME NEW p \in Places, SelectRows(o, p)  PROVE Right(f)'
    <3>1. /\ spc[o] = "select" /\ ids[o] = {} /\ places'[o] = places[o] \ {p}
          /\ ids'[o] = {m \in Messages : life[m] = "there" /\ loc[m] = p}
          /\ UNCHANGED <<results, spc, dropped, broken, cut>>
      BY <2>2 DEF SelectRows, errorVars, TypeOK
    <3>2. \A m \in Messages : Wanted(m) /\ ToSearch(f, m) => ToSearch(f, m)'
      BY <1>1, <1>7, <2>0, <3>1 DEF Wanted, Fits, ToSearch
    <3>3. Complete(f)'
      BY <1>0, <1>2, <1>3, <3>1, <3>2 DEF Right, Complete
    <3>4. Clean(f)' /\ Whole(f)'
      BY <1>0, <1>1, <1>2, <3>1 DEF Right, Clean, Whole
    <3>. QED  BY <3>3, <3>4 DEF Right
  <2>3. ASSUME NEW p \in Places, SkipPlace(o, p)  PROVE Right(f)'
    <3>1. f \in dropped' /\ cut' = cut
      BY <1>7, <2>3 DEF SkipPlace
    <3>. QED  BY <1>0, <1>1, <3>1 DEF Right, Complete, Clean, Whole
  <2>4. ASSUME NEW m \in Messages, AddCandidate(o, m)  PROVE Right(f)'
    <3>1. /\ m \in ids[o] /\ ids'[o] = ids[o] \ {m}
          /\ results'[f] = results[f] \cup {x \in {m} : Matches(x)}
          /\ UNCHANGED <<spc, places, dropped, broken, cut>>
      BY <1>7, <2>4 DEF AddCandidate, errorVars, TypeOK
    <3>2. Wanted(m) => m \in results'[f]
      BY <3>1 DEF Wanted, Fits, Matches
    <3>3. \A k \in Messages \ {m} : ToSearch(f, k) => ToSearch(f, k)'
      BY <1>1, <1>7, <2>0, <3>1 DEF ToSearch
    <3>4. Complete(f)'
      BY <1>0, <1>2, <1>3, <3>1, <3>2, <3>3 DEF Right, Complete
    <3>5. m \in results'[f] \ overtaken => m \in results[f] \/ Fits(m)
      BY <3>1 DEF Selected, Matches, Fits
    <3>6. \A k \in results'[f] : k = m \/ k \in results[f]
      BY <3>1
    <3>7. Clean(f)' /\ Whole(f)'
      BY <1>0, <1>1, <1>2, <3>1, <3>5, <3>6 DEF Right, Clean, Whole
    <3>. QED  BY <3>4, <3>7 DEF Right
  <2>5. CASE SetRunning(o)
    <3>1. /\ spc[o] = "select" /\ UNCHANGED <<results, dropped, broken>>
          /\ \/ ids[o] = {} /\ places[o] = {} /\ cut' = cut
             \/ exit[o] /\ cut' = cut \cup {f}
      BY <1>7, <2>5 DEF SetRunning
    <3>2. \A m : ToSearch(f, m) => f \in cut'
      BY <2>0, <3>1
    <3>3. map'[f] # None => cut' = cut
      BY <1>1, <1>4, <1>7, <3>1
    <3>4. f \in cut => f \in cut'
      BY <3>1
    <3>. QED  BY <1>0, <1>1, <1>2, <1>3, <3>1, <3>2, <3>3, <3>4, FolderKept
  <2>6. CASE SearchFails(o)
    <3>1. UNCHANGED <<results, dropped, cut>> /\ f \in broken'
      BY <1>7, <2>6 DEF SearchFails
    <3>. QED  BY <1>0, <1>1, <1>2, <1>3, <3>1, FolderKept
  <2>7. CASE Leave(o)
    <3>1. spc[o] = "leave" /\ UNCHANGED <<results, dropped, broken, cut>>
      BY <2>7 DEF Leave, errorVars
    <3>2. \A m : ~ToSearch(f, m)
      BY <2>0, <3>1
    <3>. QED  BY <1>0, <1>1, <1>2, <1>3, <3>1, <3>2, FolderKept
  <2>. QED  BY <2>1, <2>2, <2>3, <2>4, <2>5, <2>6, <2>7 DEF Search
<1>. QED  BY <1>6, <1>7

\* A call empties a search folder that is not served; what it puts into the map
\* is empty and still to be searched.
LEMMA WorkResults ==
    ASSUME Apart, TypeOK, Held, Threads, Emptied, Results, NEW w \in Workers, Call(w)
    PROVE  Results'
<1>. USE DEF msgVars, eventVars, procVars, objVars, searchVars, errorVars
<1>. SUFFICES ASSUME NEW f \in Folders  PROVE Right(f)'
  BY DEF Results, Right
<1>0. Right(f) /\ wop[w] \in {"none", "add", "cancel", "remove"}
      /\ (wpc[w] # "idle" => wf[w] \in Folders /\ map[wf[w]] = None)
      /\ wf[w] \in Folders \cup {None}
  BY ServesAssumption DEF Results, Right, Held, Threads, Works, TypeOK
<1>1. UNCHANGED <<life, hit, loc, overtaken, unsent, events, batch, group, left,
                  places, ids, dropped>>
  BY DEF Call, TakeFolder, Work, SignalExit, SleepOn, Destroy, SetStopped,
         SetRebuild, Reset, Insert
<1>2. \A m : (Pending(f, m) => Pending(f, m)') /\ (Fixing(f, m) => Fixing(f, m)')
  BY <1>1, UpdatesKept
<1>3. ASSUME Served(f)' => Served(f), map'[f] # None => map[f] # None,
             results'[f] = results[f], UNCHANGED <<of, spc, broken, cut>>
      PROVE  Right(f)'
  <2>1. \A m : ToSearch(f, m) => ToSearch(f, m)'
    BY <1>1, <1>3, SearchKept
  <2>. QED  BY <1>0, <1>1, <1>2, <1>3, <2>1, FolderKept
<1>4. ASSUME NEW op \in {"add", "cancel", "remove"}, NEW g \in Folders,
             TakeFolder(w, op, g)
      PROVE  Right(f)'
  <2>1. /\ UNCHANGED <<of, spc, results, broken, cut>> /\ wpc[w] = "idle"
        /\ wpc[w] \notin Waits \cup {"stop"}
    BY <1>4 DEF TakeFolder, Waits
  <2>2. CASE map[g] = None
    <3>1. Goes(w, op, g) /\ map' = map
      BY <1>4, <2>2, ContinueGoes DEF TakeFolder
    <3>2. Served(f)' => Served(f)
      BY <3>1 DEF Served, Changing, Goes, Moved, Waits
    <3>. QED  BY <1>3, <2>1, <3>1, <3>2
  <2>3. CASE map[g] # None
    <3>1. Moved(w, "signal", op, g) /\ map' = [map EXCEPT ![g] = None]
      BY <1>4, <2>3, WGotoMoves DEF TakeFolder, Labels
    <3>2. /\ map'[f] # None => map[f] # None
          /\ f # g => map'[f] = map[f]
      BY <3>1 DEF TypeOK
    <3>3. wf'[w] = g /\ \A v \in Workers \ {w} : wpc'[v] = wpc[v] /\ wf'[v] = wf[v]
      BY <3>1 DEF Moved
    <3>4. Served(f)' => Served(f)
      BY <2>3, <3>2, <3>3 DEF Served, Changing
    <3>. QED  BY <1>3, <2>1, <3>2, <3>4
  <2>. QED  BY <2>2, <2>3
<1>5. CASE SignalExit(w) \/ SleepOn(w)
  <2>1. /\ UNCHANGED <<of, spc, map, results, broken, cut>>
        /\ wpc[w] \in Waits /\ \E l \in Labels : Moved(w, l, wop[w], wf[w])
    BY <1>0, <1>5, WGotoMoves DEF SignalExit, SleepOn, Step, Labels, Waits
  <2>2. Served(f)' => Served(f)
    BY <2>1 DEF Served, Changing, Moved
  <2>. QED  BY <1>3, <2>1, <2>2
<1>6. CASE Destroy(w)
  <2>1. /\ UNCHANGED <<spc, map, results, broken, cut>>
        /\ wpc[w] \in Waits /\ Moved(w, "stop", wop[w], wf[w])
        /\ of' = [of EXCEPT ![wo[w]] = None] /\ free[wo[w]]
    BY <1>0, <1>6, WGotoMoves DEF Destroy, Step, Labels, Waits
  <2>2. Served(f)' => Served(f)
    BY <2>1 DEF Served, Changing, Moved
  <2>3. \A q \in Objs : spc[q] # "off" => of'[q] = of[q]
    BY <2>1 DEF Held, TypeOK
  <2>4. \A m : ToSearch(f, m) => ToSearch(f, m)'
    BY <1>1, <2>1, <2>3 DEF ToSearch
  <2>. QED  BY <1>0, <1>1, <1>2, <2>1, <2>2, <2>4, FolderKept
<1>7. CASE SetStopped(w) \/ SetRebuild(w) \/ Reset(w)
  <2>1. /\ UNCHANGED <<of, spc, map, broken, cut>> /\ wpc[w] \in {"stop", "rebuild", "reset"}
        /\ wpc[w] # "idle" /\ wpc[w] \notin Waits
        /\ \A g \in Folders : results'[g] = results[g] \/ (g = wf[w] /\ wpc[w] = "reset")
    BY <1>7 DEF SetStopped, SetRebuild, Reset, Waits, TypeOK
  <2>2. \E l \in Labels \ (Waits \cup {"stop"}) : \E op2, f2 : Moved(w, l, op2, f2)
    <3>1. CASE SetStopped(w)
      <4>1. Goes(w, wop[w], wf[w])
        BY <1>0, <2>1, <3>1, ContinueGoes DEF SetStopped
      <4>. QED  BY <4>1 DEF Goes, Labels, Waits
    <3>2. CASE SetRebuild(w) \/ Reset(w)
      <4>1. \/ \E l \in {"reset", "insert"} : Moved(w, l, wop[w], wf[w])
            \/ Moved(w, "idle", "none", None)
        BY <1>0, <3>2, WGotoMoves DEF SetRebuild, Reset, Step, Return, Labels
      <4>. QED  BY <4>1 DEF Labels, Waits
    <3>. QED  BY <1>7, <3>1, <3>2
  <2>3. Served(f)' => Served(f)
    BY <2>1, <2>2 DEF Served, Changing, Moved
  <2>4. CASE results'[f] = results[f]
    BY <1>3, <2>1, <2>3, <2>4
  <2>5. CASE f = wf[w] /\ wpc[w] = "reset"
    <3>1. ~Served(f)
      BY <1>0, <2>1, <2>5, OneWorker DEF Served, Changing, Waits
    <3>2. map'[f] = None
      BY <2>1, <3>1 DEF Served
    <3>. QED  BY <2>3, <3>1, <3>2 DEF Right, Complete, Clean, Whole
  <2>. QED  BY <2>1, <2>4, <2>5
<1>8. ASSUME NEW o \in Objs, Insert(w, o)  PROVE Right(f)'
  <2>1. /\ wpc[w] = "insert" /\ wpc[w] # "idle" /\ wpc[w] \notin Waits \cup {"stop"}
        /\ o # None /\ o \notin live
        /\ results' = results /\ Moved(w, "idle", "none", None)
        /\ map' = [map EXCEPT ![wf[w]] = IF map[wf[w]] = None THEN o ELSE map[wf[w]]]
        /\ spc' = [spc EXCEPT ![o] = "reset"] /\ of' = [of EXCEPT ![o] = wf[w]]
        /\ broken' = broken \ {wf[w]} /\ cut' = cut \ {wf[w]}
    BY <1>8, NoneAssumption, WGotoMoves DEF Insert, SGoto, Return, Labels, Waits
  <2>2. wf[w] \in Folders /\ map[wf[w]] = None /\ results[wf[w]] = {}
    BY <1>0, <2>1 DEF Emptied
  <2>3. spc'[o] = "reset" /\ of'[o] = wf[w]
        /\ \A q \in Objs \ {o} : spc'[q] = spc[q] /\ of'[q] = of[q]
    BY <2>1 DEF TypeOK
  <2>4. CASE f = wf[w]
    <3>1. results'[f] = {} /\ f \notin cut'
      BY <2>1, <2>2, <2>4
    <3>2. \A m : ToSearch(f, m)'
      BY <2>3, <2>4 DEF ToSearch
    <3>. QED  BY <3>1, <3>2 DEF Right, Complete, Clean, Whole
  <2>5. CASE f # wf[w]
    <3>1. map'[f] = map[f] /\ (f \in broken' <=> f \in broken) /\ (f \in cut' <=> f \in cut)
      BY <2>1, <2>2, <2>5 DEF TypeOK
    <3>2. spc[o] = "off"
      BY <2>1 DEF Held
    <3>3. \A m : ToSearch(f, m) => ToSearch(f, m)'
      BY <1>1, <2>3, <3>2 DEF ToSearch
    <3>4. Served(f)' => Served(f)
      BY <2>1, <3>1 DEF Served, Changing, Moved, Waits
    <3>. QED  BY <1>0, <1>1, <1>2, <2>1, <3>1, <3>3, <3>4, FolderKept
  <2>. QED  BY <2>4, <2>5
<1>. QED  BY <1>4, <1>5, <1>6, <1>7, <1>8 DEF Call, Work

-----------------------------------------------------------------------------
(* The theorems. *)

LEMMA InitInv == Init => IInv
<1>. SUFFICES ASSUME Init  PROVE IInv
  OBVIOUS
<1>1. TypeOK
  BY InitType
<1>2. Held /\ Processing
  BY NoneAssumption DEF Init, Held, Processing, Waits
<1>3. Objects /\ Mapped /\ Works
  BY DEF Init, Objects, Mapped, Works, Waits
<1>4. Searching
  BY DEF Init, Searching, Searches, Served, Changing, Stated, Waits
<1>5. Events /\ Selected /\ Emptied
  BY DEF Init, Events, Told, Selected, Emptied
<1>6. Results
  BY DEF Init, Results, Complete, Clean, Whole, Served, Changing, Waits
<1>. QED  BY <1>1, <1>2, <1>3, <1>4, <1>5, <1>6 DEF IInv, SInv, Threads

\* Objects stay safe, whatever calls come at the same time.
LEMMA NextSafe == SInv /\ [Next]_vars => SInv'
<1>. SUFFICES ASSUME SInv, [Next]_vars  PROVE SInv'
  OBVIOUS
<1>. USE DEF SInv
<1>1. ASSUME UNCHANGED <<map, live, of, free, spc, wpc, wf, wo>>  PROVE Held'
  BY <1>1, HeldFrame
<1>2. CASE Change
  <2>1. UNCHANGED <<map, live, of, free, spc, wpc, wf, wo, group, left, events, batch, told>>
    BY <1>2 DEF Change, Create, Modify, Move, Delete, Commit, procVars,
                objVars, searchVars, workVars
  <2>2. Processing'
    BY <2>1, ProcessingFrame DEF Processing
  <2>. QED  BY <1>1, <1>2, <2>1, <2>2, ChangeType
<1>3. ASSUME NEW c \in unsent, Notify(c)  PROVE SInv'
  <2>1. UNCHANGED <<map, live, of, free, spc, wpc, wf, wo>>
    BY <1>3 DEF Notify, objVars, searchVars, workVars
  <2>. QED  BY <1>1, <1>3, <2>1, NotifyType, NotifyProcessing
<1>4. CASE Process \/ \E F \in SUBSET Folders : GiveUp(F)
  <2>1. UNCHANGED <<map, live, of, free, spc, wpc, wf, wo>>
    BY <1>4 DEF Process, TakeEvents, ChangeGroup, EndGroup, ChangeFolder, GiveUp,
                objVars, searchVars, workVars
  <2>. QED  BY <1>1, <1>4, <2>1, ProcessType, ProcessProcessing
<1>5. ASSUME NEW o \in Objs,
             \/ Search(o) \/ SearchFails(o) \/ \E p \in Places : SkipPlace(o, p)
      PROVE  SInv'
  <2>1. TypeOK'
    BY <1>5, SearchType
  <2>2. Held'
    BY <1>5, SearchHeld
  <2>3. Processing'
    BY <1>5, SearchProcessing
  <2>. QED  BY <2>1, <2>2, <2>3
<1>6. ASSUME NEW w \in Workers, Call(w)  PROVE SInv'
  BY <1>6, WorkType, CallHeld, WorkProcessing
<1>7. CASE UNCHANGED vars
  <2>. USE <1>7 DEF vars, msgVars, eventVars, procVars, objVars, searchVars, workVars,
               errorVars
  <2>1. TypeOK'
    BY DEF TypeOK
  <2>2. Held' /\ Processing'
    BY HeldFrame, ProcessingFrame DEF Processing
  <2>. QED  BY <2>1, <2>2
<1>. QED  BY <1>2, <1>3, <1>4, <1>5, <1>6, <1>7 DEF Next, Call

LEMMA NextInv == Apart /\ IInv /\ [Next]_vars => IInv'
<1>. SUFFICES ASSUME Apart, IInv, [Next]_vars  PROVE IInv'
  OBVIOUS
<1>0. SInv' /\ TypeOK /\ Held /\ Processing
  BY NextSafe DEF IInv, SInv
<1>. USE DEF IInv
<1>1. Emptied'
  BY <1>0, EmptiedStep
<1>a. ASSUME UNCHANGED <<map, live, of, exit, spc, wpc, wop, wf, wo, status, unset, broken>>
      PROVE  Threads'
  BY <1>a, ThreadsFrame
<1>2. CASE Change
  <2>1. UNCHANGED <<map, live, of, exit, spc, wpc, wop, wf, wo, status, unset, broken>>
    BY <1>2 DEF Change, Create, Modify, Move, Delete, Commit, objVars, searchVars,
                workVars, errorVars
  <2>. QED  BY <1>0, <1>1, <1>2, <1>a, <2>1, ChangeEvents, ChangeResults
<1>3. ASSUME NEW c \in unsent, Notify(c)  PROVE IInv'
  <2>1. UNCHANGED <<map, live, of, exit, spc, wpc, wop, wf, wo, status, unset, broken>>
    BY <1>3 DEF Notify, objVars, searchVars, workVars, errorVars
  <2>. QED  BY <1>0, <1>1, <1>3, <1>a, <2>1, NotifyEvents, NotifyResults
<1>4. CASE Process \/ \E F \in SUBSET Folders : GiveUp(F)
  <2>1. UNCHANGED <<map, live, of, exit, spc, wpc, wop, wf, wo, status, unset, broken>>
    BY <1>4 DEF Process, TakeEvents, ChangeGroup, EndGroup, ChangeFolder, GiveUp,
                objVars, searchVars, workVars, errorVars
  <2>. QED  BY <1>0, <1>1, <1>4, <1>a, <2>1, ProcessEvents, ProcessResults
<1>5. ASSUME NEW o \in Objs,
             \/ Search(o) \/ SearchFails(o) \/ \E p \in Places : SkipPlace(o, p)
      PROVE  IInv'
  <2>1. Threads'
    BY <1>0, <1>5, SearchThreads
  <2>2. Events' /\ Selected'
    BY <1>0, <1>5, SearchEvents
  <2>3. Results'
    BY <1>0, <1>5, SearchResults
  <2>. QED  BY <1>0, <1>1, <2>1, <2>2, <2>3
<1>6. ASSUME NEW w \in Workers, Call(w)  PROVE IInv'
  BY <1>0, <1>1, <1>6, WorkThreads, WorkEvents, WorkResults
<1>7. CASE UNCHANGED vars
  <2>. USE <1>7 DEF vars, msgVars, eventVars, procVars, objVars, searchVars, workVars,
               errorVars
  <2>1. Threads'
    BY <1>a
  <2>2. Events' /\ Selected'
    BY EventsFrame, SelectedFrame DEF Told
  <2>3. ASSUME NEW f \in Folders  PROVE Right(f)'
    <3>1. /\ Right(f) /\ (Served(f)' <=> Served(f))
          /\ \A m : ToSearch(f, m)' <=> ToSearch(f, m)
      BY ServedKept, SearchKept DEF Results, Right
    <3>. QED  BY <3>1, UpdatesKept, FolderKept
  <2>. QED  BY <1>0, <1>1, <2>1, <2>2, <2>3 DEF Results, Right
<1>. QED  BY <1>2, <1>3, <1>4, <1>5, <1>6, <1>7 DEF Next, Call

LEMMA SafeInductive == Spec => []SInv
<1>1. Init => SInv
  BY InitInv DEF IInv
<1>. QED  BY <1>1, NextSafe, PTL DEF Spec

LEMMA Inductive == ASSUME Apart PROVE Spec => []IInv
<1>1. IInv /\ [Next]_vars => IInv'
  BY NextInv
<1>. QED  BY InitInv, <1>1, PTL DEF Spec

\* The variables keep their types.
THEOREM TypeCorrect == Spec => []TypeOK
<1>1. SInv => TypeOK
  BY DEF SInv
<1>. QED  BY <1>1, SafeInductive, PTL

\* No object of a search folder is used after it was deleted, by the map, the
\* processing thread, its search thread or a worker, and two workers never
\* delete the same one, also when several calls for one search folder come at
\* the same time (DestroySearchFolder and its FIXME).
THEOREM ObjectsSafe == Spec => []NoUseAfterFree
<1>1. SInv => NoUseAfterFree
  <2>. SUFFICES ASSUME SInv  PROVE NoUseAfterFree
    OBVIOUS
  <2>1. /\ \A o \in Objs : spc[o] # "off" => o \in live
        /\ \A f \in Folders : map[f] # None => map[f] \in live
        /\ \A f \in left : map[f] # None
    BY DEF SInv, Held, Processing
  <2>. QED  BY <2>1 DEF NoUseAfterFree, SInv, Held
<1>. QED  BY <1>1, SafeInductive, PTL

\* Between the searches and the updates, no message that matches is missed, of
\* search folders whose search did not end with an error and that no update was
\* given up for (Search and ProcessMessageChange).
THEOREM NoneMissed == ASSUME Apart PROVE Spec => []NothingMissed
<1>1. IInv => NothingMissed
  BY DEF IInv, Results, Complete, Whole, Served, NothingMissed
<1>. QED  BY <1>1, Inductive, PTL

\* ... and nothing stays in the results that should not be there.
THEOREM NoneStale == ASSUME Apart PROVE Spec => []NothingStale
<1>1. IInv => NothingStale
  <2>1. \A f \in Folders : \A m : Fixing(f, m) => Pending(f, m)
    BY DEF Fixing, Pending, Msgs
  <2>. QED  BY <2>1 DEF IInv, Results, Clean, NothingStale
<1>. QED  BY <1>1, Inductive, PTL

\* What a restart finds of a search folder in the database is right at every
\* moment, also while a search is cancelled, but for a status that could not be
\* written and for the two exceptions between a cancelled search and the status
\* "stopped" (SetStatus, LoadSearchFolders).
THEOREM RestartSafe == ASSUME Apart PROVE Spec => []RestartIsSafe
<1>1. IInv => RestartIsSafe
  <2>. SUFFICES ASSUME IInv, NEW f \in Folders \ unset
                PROVE  /\ map[f] = None /\ status[f] = "running" => Changing(f)
                       /\ map[f] # None => status[f] # "stopped" /\ f \notin cut
                       /\ status[f] = "running" /\ f \notin dropped \cup cut =>
                            \A m \in Messages :
                               Wanted(m) => m \in results[f] \/ Pending(f, m)
    BY DEF RestartIsSafe
  <2>1. Stated(f) /\ Complete(f) /\ Whole(f)
    BY DEF IInv, Threads, Searching, Results
  <2>2. ASSUME status[f] = "running", f \notin dropped \cup cut,
               NEW m \in Messages, Wanted(m)
        PROVE  m \in results[f] \/ Pending(f, m)
    <3>1. Served(f) /\ f \notin broken /\ ~ToSearch(f, m)
      BY <2>1, <2>2 DEF Stated, Served, Searches, ToSearch
    <3>. QED  BY <2>1, <2>2, <3>1 DEF Complete
  <2>. QED  BY <2>1, <2>2 DEF Stated, Whole
<1>. QED  BY <1>1, Inductive, PTL
=============================================================================
