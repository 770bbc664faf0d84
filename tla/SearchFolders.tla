--------------------------- MODULE SearchFolders ---------------------------
(***************************************************************************)
(* The search folders of one store: ECSearchFolders.  A worker thread adds *)
(* a search folder, cancels it, or removes it with its results; each       *)
(* search folder that is built has a search thread of its own; one thread  *)
(* (ProcessThread) applies the changes of messages to the search folders   *)
(* in the map.                                                             *)
(*                                                                         *)
(* An action is one stretch under m_mutexMapSearchFolders, m_mutexEvents   *)
(* or mMutexThreadFree, or one transaction on the database; the            *)
(* transactions on the results of a search folder lock its row, so each is *)
(* one step.  A message is in a message folder (a number: events are       *)
(* sorted by it) and either matches the criteria or does not.  All search  *)
(* folders search the folders in Target, without an indexer.               *)
(***************************************************************************)
EXTENDS FiniteSets, Naturals

CONSTANTS Folders,    \* the search folders
          Messages,
          Places,     \* the message folders
          Target,     \* lpSearchCriteria->lpFolders
          Workers,
          Serves,     \* the search folders the clients of a worker work on
          Objs,       \* memory for SEARCHFOLDER objects
          None,
          MaxSteps,   \* the number of changes of messages and of database
                      \* errors, together
          MaxErrors,  \* ... of errors
          Batch       \* how many events are taken at once (500)

ASSUME PlaceAssumption == Places \subseteq Nat /\ Target \subseteq Places
ASSUME NoneAssumption == None \notin Objs \cup Folders
ASSUME BoundAssumption == /\ MaxSteps \in Nat /\ MaxErrors \in Nat
                          /\ Batch \in Nat \ {0}
ASSUME ServesAssumption == Serves \in [Workers -> SUBSET Folders]

\* The calls for one search folder come one after the other.  The code does not
\* see to that: what holds of objects holds without it, the rest needs it.
Apart == \A v, w \in Workers : v # w => Serves[v] \cap Serves[w] = {}

VARIABLES
  life,    \* of a message: "none" before it is made, "there", "trash" when it
           \* is marked as deleted, "gone" when its rows are
  loc,     \* the message folder it is in
  hit,     \* the message matches the criteria
  results, \* the rows of searchresults
  status,  \* PR_EC_SEARCHFOLDER_STATUS; no row means running
  changes, \* the number of changes so far
  told,    \* the number of events queued so far
  unsent,  \* changes that are committed and not yet told
  events,  \* m_lstEvents, as a set of numbered events
  batch,   \* what FlushEvents has taken and not yet processed
  group,   \* the events ProcessMessageChange was called for
           \* (it holds the mutex of the map as long as there are some)
  left,    \* the search folders it has not come to
  map,     \* m_mapSearchFolders
  live,    \* the SEARCHFOLDER objects that are allocated
  of,      \* the ulFolderId of one
  free,    \* its bThreadFree
  exit,    \* its bThreadExit
  spc,     \* where its search thread is
  places,  \* ... the folders it has not searched yet
  ids,     \* ... the rows it has selected and not yet looked at
  wpc, wop, wf, wo, \* of a worker: where it is, what it does to which
           \* folder, and the object it has taken out of the map
  errors,  \* the number of database errors so far
  dropped, \* search folders that an update, or a part of the search, was
           \* given up for
  broken,  \* ... whose search ended with an error
  cut,     \* ... whose search was cancelled before its end, or that were out
           \* of the map when an update was applied
  unset,   \* ... of which the last status "stopped" or "rebuild" could not be
           \* written
  overtaken \* messages that were moved or deleted while an earlier change or
           \* a search had them in hand

msgVars    == <<life, loc, hit, changes, overtaken>>
eventVars  == <<told, unsent, events>>
procVars   == <<batch, group, left>>
objVars    == <<live, of, free, exit>>
searchVars == <<spc, places, ids>>
workVars   == <<wpc, wop, wf, wo>>
errorVars  == <<errors, dropped, broken, cut, unset>>
vars == <<msgVars, results, status, eventVars, procVars, map, objVars,
          searchVars, workVars, errorVars>>

Types == {"ADD", "MODIFY", "DELETE"}
Event == [n : Nat, place : Places, msg : Messages, type : Types]

\* A server that has just started and found all search folders stopped.
Init == /\ life \in [Messages -> {"none", "there"}] /\ loc \in [Messages -> Places]
        /\ hit \in [Messages -> BOOLEAN]
        /\ results = [f \in Folders |-> {}]
        /\ status = [f \in Folders |-> "stopped"]
        /\ changes = 0 /\ told = 0 /\ unsent = {} /\ events = {}
        /\ batch = {} /\ group = {} /\ left = {}
        /\ map = [f \in Folders |-> None]
        /\ live = {}
        /\ of = [o \in Objs |-> None]
        /\ free = [o \in Objs |-> TRUE]
        /\ exit = [o \in Objs |-> FALSE]
        /\ spc = [o \in Objs |-> "off"]
        /\ places = [o \in Objs |-> {}]
        /\ ids = [o \in Objs |-> {}]
        /\ wpc = [w \in Workers |-> "idle"]
        /\ wop = [w \in Workers |-> "none"]
        /\ wf = [w \in Workers |-> None]
        /\ wo = [w \in Workers |-> None]
        /\ errors = 0 /\ dropped = {} /\ broken = {} /\ cut = {} /\ unset = {}
        /\ overtaken = {}

\* m_mutexMapSearchFolders is held across all of ProcessMessageChange.
MapFree == group = {}

\* What QueryRowData and MatchRowRestrict say of a message: one that is only
\* marked as deleted still has its properties.
Matches(m) == hit[m] /\ life[m] \in {"there", "trash"}

Msgs(E) == {e.msg : e \in E}
Fails == /\ errors < MaxErrors /\ changes + errors < MaxSteps
         /\ errors' = errors + 1

\* SetStatus: an error is ignored by all who call it.  (A search folder of
\* which "running" is not written is built once more after a restart.)
SetStatus(f, s) ==
    \/ /\ status' = [status EXCEPT ![f] = s] /\ unset' = unset \ {f}
       /\ UNCHANGED errors
    \/ /\ Fails /\ UNCHANGED status
       /\ unset' = IF s = "running" THEN unset ELSE unset \cup {f}

-----------------------------------------------------------------------------
(* Changes of messages, and the events they cause.                         *)

InHand(m) == \/ m \in Msgs(unsent \cup events \cup batch \cup group)
             \/ \E o \in Objs : m \in ids[o]

\* A transaction that changes a message commits; its notification comes later.
Commit(m, type, place) ==
    /\ changes + errors < MaxSteps /\ changes' = changes + 1
    /\ unsent' = unsent \cup
                 {[n |-> changes, place |-> place, msg |-> m, type |-> type]}
    /\ UNCHANGED <<results, status, told, events, procVars, map, objVars,
                   searchVars, workVars, errorVars>>

Create(m) == /\ life[m] = "none" /\ life' = [life EXCEPT ![m] = "there"]
             /\ Commit(m, "ADD", loc[m]) /\ UNCHANGED <<loc, hit, overtaken>>
Modify(m) == /\ life[m] = "there" /\ hit' = [hit EXCEPT ![m] = ~@]
             /\ Commit(m, "MODIFY", loc[m]) /\ UNCHANGED <<life, loc, overtaken>>
Overtake(m) ==
    /\ overtaken' = IF InHand(m) THEN overtaken \cup {m} ELSE overtaken
    /\ UNCHANGED hit
\* A moved message is announced as modified, in its new folder only.
Move(m, p) == /\ life[m] = "there" /\ p # loc[m] /\ Overtake(m)
              /\ loc' = [loc EXCEPT ![m] = p] /\ UNCHANGED life
              /\ Commit(m, "MODIFY", p)
Delete(m, how) == /\ life[m] = "there" /\ life' = [life EXCEPT ![m] = how]
                  /\ Overtake(m) /\ Commit(m, "DELETE", loc[m]) /\ UNCHANGED loc

\* Mutant: an error of the look-up is ignored and the folder is 0.
BadNotify(c) ==
    /\ c \in unsent /\ unsent' = unsent \ {c}
    /\ LET place == IF c.type = "DELETE" THEN c.place
                    ELSE IF life[c.msg] = "gone" THEN 0 ELSE loc[c.msg]
       IN  events' = events \cup {[c EXCEPT !.n = told, !.place = place]}
    /\ told' = told + 1
    /\ UNCHANGED <<msgVars, results, status, procVars, map, objVars,
                   searchVars, workVars, errorVars>>
\* AddNotification: the event is for the folder the message is in by now; of a
\* message that is deleted by now only the deletion is told.
Notify(c) ==
    /\ c \in unsent /\ unsent' = unsent \ {c}
    /\ IF c.type = "DELETE" \/ life[c.msg] = "there"
       THEN LET place == IF c.type = "DELETE" THEN c.place ELSE loc[c.msg]
            IN  /\ events' = events \cup {[c EXCEPT !.n = told, !.place = place]}
                /\ told' = told + 1
       ELSE UNCHANGED <<events, told>>
    /\ UNCHANGED <<msgVars, results, status, procVars, map, objVars,
                   searchVars, workVars, errorVars>>

-----------------------------------------------------------------------------
(* ProcessThread and FlushEvents.                                          *)

Older(E, e) == {d \in E : d.n < e.n}

\* The oldest events are taken off the queue, Batch at most.
TakeEvents ==
    /\ batch = {} /\ group = {} /\ events # {}
    /\ batch' = {e \in events : Cardinality(Older(events, e)) < Batch}
    /\ events' = events \ batch'
    /\ UNCHANGED <<msgVars, results, status, told, unsent, group, left, map,
                   objVars, searchVars, workVars, errorVars>>

\* The batch is sorted by folder, in the order of the queue within a folder;
\* each sequence of events of one folder and one type is one group.
FirstGroup ==
    LET here == {e \in batch : \A d \in batch : e.place <= d.place}
    IN  {e \in here : \A d, x \in here :
            Older(here, x) = {} /\ d.type # x.type => e.n < d.n}

\* Mutant: search folders that are being built are left out.
BadChangeGroup ==
    /\ group = {} /\ batch # {}
    /\ group' = FirstGroup /\ batch' = batch \ group'
    /\ left' = {f \in Folders : map[f] # None /\ status[f] = "running"}
    /\ cut' = cut \cup {f \in Folders : map[f] = None}
    /\ UNCHANGED <<msgVars, results, status, eventVars, map, objVars,
                   searchVars, workVars, errors, dropped, broken, unset>>
\* ProcessMessageChange is called for a group and locks the map.
ChangeGroup ==
    /\ group = {} /\ batch # {}
    /\ group' = FirstGroup /\ batch' = batch \ group'
    /\ left' = {f \in Folders : map[f] # None}
    /\ cut' = cut \cup {f \in Folders : map[f] = None}
    /\ UNCHANGED <<msgVars, results, status, eventVars, map, objVars,
                   searchVars, workVars, errors, dropped, broken, unset>>

\* Mutant: a modified message that no longer matches stays.
BadUpdated(R) ==
    LET off == {e.msg : e \in {d \in group : d.type = "DELETE" \/ d.place \notin Target}}
        ms  == Msgs(group) \ off
    IN  (R \ off) \cup {m \in ms : Matches(m)}
\* The rows of a search folder after the events of a group, which all have
\* the same folder and type.
Updated(R) ==
    LET off == {e.msg : e \in {d \in group : d.type = "DELETE" \/ d.place \notin Target}}
        mod == {e.msg : e \in {d \in group : d.type = "MODIFY"}}
        ms  == Msgs(group) \ off
    IN  (R \ (off \cup {m \in ms \cap mod : ~Matches(m)})) \cup {m \in ms : Matches(m)}

\* ... the transaction for one of the search folders; a deadlock or a time-out
\* of its locks rolls it back and it is tried again.
ChangeFolder(f) ==
    /\ f \in left /\ left' = left \ {f}
    /\ results' = [results EXCEPT ![f] = Updated(@)]
    /\ UNCHANGED <<msgVars, status, eventVars, batch, group, map, objVars,
                   searchVars, workVars, errorVars>>

\* ... it has failed four times: the search folder goes without this update;
\* or it fails in another way, and so do the search folders still to come.
GiveUp(F) ==
    /\ F # {} /\ F \subseteq left /\ Fails
    /\ Cardinality(F) = 1 \/ F = left
    /\ left' = left \ F /\ dropped' = dropped \cup F
    /\ UNCHANGED <<msgVars, results, status, eventVars, batch, group, map,
                   objVars, searchVars, workVars, broken, cut, unset>>

EndGroup == /\ group # {} /\ left = {} /\ group' = {}
            /\ UNCHANGED <<msgVars, results, status, eventVars, batch, left,
                           map, objVars, searchVars, workVars, errorVars>>

-----------------------------------------------------------------------------
(* SearchThread and Search.                                                *)

SGoto(o, l) == spc' = [spc EXCEPT ![o] = l]

\* Old results are removed before anything is selected; bThreadExit is not
\* looked at before that.
ResetSearch(o) ==
    /\ spc[o] = "reset" /\ SGoto(o, "select")
    /\ results' = [results EXCEPT ![of[o]] = {}]
    /\ places' = [places EXCEPT ![o] = Target]
    /\ dropped' = dropped \ {of[o]}
    /\ UNCHANGED <<msgVars, status, eventVars, procVars, map, objVars, ids,
                   workVars, errors, broken, cut, unset>>

\* The ids of the messages in the next folder that are not marked as deleted.
SelectRows(o, p) ==
    /\ spc[o] = "select" /\ ids[o] = {} /\ ~exit[o] /\ p \in places[o]
    /\ places' = [places EXCEPT ![o] = @ \ {p}]
    /\ ids' = [ids EXCEPT ![o] = {m \in Messages : life[m] = "there" /\ loc[m] = p}]
    /\ UNCHANGED <<msgVars, results, status, eventVars, procVars, map, objVars,
                   spc, workVars, errorVars>>

\* ... the SELECT fails: the folder is passed over, and the search goes on.
SkipPlace(o, p) ==
    /\ spc[o] = "select" /\ ids[o] = {} /\ ~exit[o] /\ p \in places[o] /\ Fails
    /\ places' = [places EXCEPT ![o] = @ \ {p}]
    /\ dropped' = dropped \cup {of[o]}
    /\ UNCHANGED <<msgVars, results, status, eventVars, procVars, map, objVars,
                   spc, ids, workVars, broken, cut, unset>>

\* ProcessCandidateRows; the 20 messages of a transaction are one here.
AddCandidate(o, m) ==
    /\ spc[o] = "select" /\ ~exit[o] /\ m \in ids[o]
    /\ ids' = [ids EXCEPT ![o] = @ \ {m}]
    /\ results' = [results EXCEPT ![of[o]] = @ \cup {x \in {m} : Matches(x)}]
    /\ UNCHANGED <<msgVars, status, eventVars, procVars, map, objVars, spc,
                   places, workVars, errorVars>>

\* All is searched, or the search is cancelled: the status is the same.
SetRunning(o) ==
    /\ spc[o] = "select" /\ SGoto(o, "leave")
    /\ \/ ids[o] = {} /\ places[o] = {} /\ UNCHANGED cut
       \/ exit[o] /\ ids[o] \cup places[o] # {} /\ cut' = cut \cup {of[o]}
    /\ places' = [places EXCEPT ![o] = {}] /\ ids' = [ids EXCEPT ![o] = {}]
    /\ SetStatus(of[o], "running")
    /\ UNCHANGED <<msgVars, results, eventVars, procVars, map, objVars,
                   workVars, dropped, broken>>

\* Mutant: the status is written on the way out, whatever has happened.
BadSearchFails(o) ==
    /\ spc[o] \in {"reset", "select"} /\ Fails /\ SGoto(o, "leave")
    /\ places' = [places EXCEPT ![o] = {}] /\ ids' = [ids EXCEPT ![o] = {}]
    /\ status' = [status EXCEPT ![of[o]] = "running"]
    /\ broken' = broken \cup {of[o]}
    /\ UNCHANGED <<msgVars, results, eventVars, procVars, map, objVars,
                   workVars, dropped, cut, unset>>
\* Search returns with an error and leaves the status as it is.
SearchFails(o) ==
    /\ spc[o] \in {"reset", "select"} /\ Fails /\ SGoto(o, "leave")
    /\ places' = [places EXCEPT ![o] = {}] /\ ids' = [ids EXCEPT ![o] = {}]
    /\ broken' = broken \cup {of[o]}
    /\ UNCHANGED <<msgVars, results, status, eventVars, procVars, map, objVars,
                   workVars, dropped, cut, unset>>

\* bThreadFree is set and one of those who wait is woken, for whatever thread
\* it waits: m_condThreadExited is one for all.
Asleep == {w \in Workers : wpc[w] = "asleep"}
Leave(o) ==
    /\ spc[o] = "leave" /\ SGoto(o, "off") /\ free' = [free EXCEPT ![o] = TRUE]
    /\ \/ Asleep = {} /\ UNCHANGED wpc
       \/ \E w \in Asleep : wpc' = [wpc EXCEPT ![w] = "check"]
    /\ UNCHANGED <<msgVars, results, status, eventVars, procVars, map, live, of,
                   exit, places, ids, wop, wf, wo, errorVars>>

-----------------------------------------------------------------------------
(* SetSearchCriteria, CancelSearchFolder and RemoveSearchFolder.           *)

\* Worker w is at l of operation op on search folder f.
WGoto(w, l, op, f) == /\ wpc' = [wpc EXCEPT ![w] = l]
                      /\ wop' = [wop EXCEPT ![w] = op] /\ wf' = [wf EXCEPT ![w] = f]
Step(w, l) == WGoto(w, l, wop[w], wf[w])
Return(w) == WGoto(w, "idle", "none", None)
\* How an operation goes on when the folder is out of the map.
Continue(w, op, f) == \/ op = "add" /\ WGoto(w, "rebuild", op, f)
                      \/ op = "remove" /\ WGoto(w, "reset", op, f)
                      \/ op = "cancel" /\ Return(w)

\* The folder is taken out of the map, if it is there.
TakeFolder(w, op, f) ==
    /\ wpc[w] = "idle" /\ f \in Serves[w] /\ MapFree
    /\ IF map[f] = None
       THEN /\ Continue(w, op, f) /\ UNCHANGED <<map, wo>>
       ELSE /\ wo' = [wo EXCEPT ![w] = map[f]] /\ map' = [map EXCEPT ![f] = None]
            /\ WGoto(w, "signal", op, f)
    /\ UNCHANGED <<msgVars, results, status, eventVars, procVars, objVars,
                   searchVars, errorVars>>

\* DestroySearchFolder
SignalExit(w) ==
    /\ wpc[w] = "signal" /\ Step(w, "check")
    /\ exit' = [exit EXCEPT ![wo[w]] = TRUE]
    /\ UNCHANGED <<msgVars, results, status, eventVars, procVars, map, live, of,
                   free, searchVars, wo, errorVars>>
SleepOn(w) ==
    /\ wpc[w] = "check" /\ ~free[wo[w]] /\ Step(w, "asleep")
    /\ UNCHANGED <<msgVars, results, status, eventVars, procVars, map, objVars,
                   searchVars, wo, errorVars>>
\* Mutant: who is woken does not look whether it was its own search.
BadDestroy(w) ==
    /\ wpc[w] = "check" /\ Step(w, "stop")
    /\ live' = live \ {wo[w]} /\ wo' = [wo EXCEPT ![w] = None]
    /\ of' = [of EXCEPT ![wo[w]] = None]
    /\ exit' = [exit EXCEPT ![wo[w]] = FALSE]
    /\ UNCHANGED <<msgVars, results, status, eventVars, procVars, map, free,
                   searchVars, errorVars>>
Destroy(w) ==
    /\ wpc[w] = "check" /\ free[wo[w]] /\ Step(w, "stop")
    /\ live' = live \ {wo[w]} /\ wo' = [wo EXCEPT ![w] = None]
    /\ of' = [of EXCEPT ![wo[w]] = None]
    /\ exit' = [exit EXCEPT ![wo[w]] = FALSE]
    /\ UNCHANGED <<msgVars, results, status, eventVars, procVars, map, free,
                   searchVars, errorVars>>

SetStopped(w) ==
    /\ wpc[w] = "stop" /\ Continue(w, wop[w], wf[w])
    /\ SetStatus(wf[w], "stopped")
    /\ UNCHANGED <<msgVars, results, eventVars, procVars, map, objVars,
                   searchVars, wo, dropped, broken, cut>>

SetRebuild(w) ==
    /\ wpc[w] = "rebuild" /\ Step(w, "reset")
    /\ SetStatus(wf[w], "rebuild")
    /\ UNCHANGED <<msgVars, results, eventVars, procVars, map, objVars,
                   searchVars, wo, dropped, broken, cut>>

\* ResetResults; when it fails AddSearchFolder gives up, RemoveSearchFolder
\* does not care.
Reset(w) ==
    /\ wpc[w] = "reset"
    /\ \/ /\ results' = [results EXCEPT ![wf[w]] = {}]
          /\ IF wop[w] = "add" THEN Step(w, "insert") ELSE Return(w)
          /\ UNCHANGED errors
       \/ Fails /\ Return(w) /\ UNCHANGED results
    /\ UNCHANGED <<msgVars, status, eventVars, procVars, map, objVars,
                   searchVars, wo, dropped, broken, cut, unset>>

\* The folder goes into the map and its search thread starts.
Insert(w, o) ==
    /\ wpc[w] = "insert" /\ MapFree /\ o \notin live /\ Return(w)
    /\ live' = live \cup {o} /\ of' = [of EXCEPT ![o] = wf[w]]
    /\ map' = [map EXCEPT ![wf[w]] = IF @ = None THEN o ELSE @]
    /\ free' = [free EXCEPT ![o] = FALSE] /\ SGoto(o, "reset")
    /\ broken' = broken \ {wf[w]} /\ cut' = cut \ {wf[w]}
    /\ UNCHANGED <<msgVars, results, status, eventVars, procVars, exit, places,
                   ids, wo, errors, dropped, unset>>

-----------------------------------------------------------------------------
Change == \E m \in Messages : \/ Create(m) \/ Modify(m)
                              \/ \E p \in Places : Move(m, p)
                              \/ \E how \in {"trash", "gone"} : Delete(m, how)
Process == \/ TakeEvents \/ ChangeGroup \/ EndGroup
           \/ \E f \in Folders : ChangeFolder(f)
Search(o) == \/ ResetSearch(o) \/ SetRunning(o) \/ Leave(o)
             \/ \E p \in Places : SelectRows(o, p)
             \/ \E m \in Messages : AddCandidate(o, m)
Work(w) == \/ SignalExit(w) \/ SleepOn(w) \/ Destroy(w)
           \/ SetStopped(w) \/ SetRebuild(w) \/ Reset(w)
           \/ \E o \in Objs : Insert(w, o)

Next == \/ Change \/ (\E c \in unsent : Notify(c)) \/ Process
        \/ \E F \in SUBSET Folders : GiveUp(F)
        \/ \E o \in Objs : \/ Search(o) \/ SearchFails(o)
                           \/ \E p \in Places : SkipPlace(o, p)
        \/ \E w \in Workers : \/ \E op \in {"add", "cancel", "remove"}, f \in Folders :
                                    TakeFolder(w, op, f)
                              \/ Work(w)

Spec == Init /\ [][Next]_vars

\* Threads run: the processing thread, each search thread and each worker.
Fairness == /\ WF_vars(Process) /\ \A o \in Objs : WF_vars(Search(o))
            /\ \A w \in Workers : WF_vars(Work(w))
FairSpec == Spec /\ Fairness

-----------------------------------------------------------------------------
\* The values the variables range over.
TypeOK ==
    /\ life \in [Messages -> {"none", "there", "trash", "gone"}]
    /\ loc \in [Messages -> Places]
    /\ hit \in [Messages -> BOOLEAN] /\ changes \in 0 .. MaxSteps
    /\ overtaken \in SUBSET Messages
    /\ results \in [Folders -> SUBSET Messages]
    /\ status \in [Folders -> {"stopped", "rebuild", "running"}]
    /\ told \in Nat /\ unsent \in SUBSET Event /\ events \in SUBSET Event
    /\ batch \in SUBSET Event /\ group \in SUBSET Event
    /\ left \in SUBSET Folders
    /\ map \in [Folders -> Objs \cup {None}]
    /\ live \in SUBSET Objs
    /\ of \in [Objs -> Folders \cup {None}]
    /\ free \in [Objs -> BOOLEAN] /\ exit \in [Objs -> BOOLEAN]
    /\ spc \in [Objs -> {"off", "reset", "select", "leave"}]
    /\ places \in [Objs -> SUBSET Places] /\ ids \in [Objs -> SUBSET Messages]
    /\ wpc \in [Workers -> {"idle", "signal", "check", "asleep",
                            "stop", "rebuild", "reset", "insert"}]
    /\ wop \in [Workers -> {"none", "add", "cancel", "remove"}]
    /\ wf \in [Workers -> Folders \cup {None}]
    /\ wo \in [Workers -> Objs \cup {None}]
    /\ errors \in 0 .. MaxErrors /\ dropped \in SUBSET Folders
    /\ broken \in SUBSET Folders /\ cut \in SUBSET Folders
    /\ unset \in SUBSET Folders

\* "Nobody can access lpFolder now, except for us and the search thread; FIXME
\* check this assumption": an object that the map, the processing thread, a
\* search thread or a worker may use has not been deleted, and two workers
\* never delete the same one, Apart or not (DestroySearchFolder).
Waits == {"signal", "check", "asleep"}
NoUseAfterFree ==
    /\ \A o \in Objs : spc[o] # "off" => o \in live
    /\ \A f \in Folders : map[f] # None => map[f] \in live
    /\ \A f \in left : map[f] # None
    /\ \A w \in Workers : wpc[w] \in Waits =>
          /\ wo[w] \in live /\ \A f \in Folders : map[f] # wo[w]
          /\ \A v \in Workers \ {w} : wpc[v] \in Waits => wo[v] # wo[w]

\* An update of search folder f for message m is on its way.
Pending(f, m) == \/ m \in Msgs(unsent \cup events \cup batch)
                 \/ f \in left /\ m \in Msgs(group)
\* The search of f has still to look at m.
ToSearch(f, m) == \E o \in Objs :
    of[o] = f /\ (\/ spc[o] = "reset"
                  \/ spc[o] = "select" /\ (loc[m] \in places[o] \/ m \in ids[o]))
Fits(m) == life[m] = "there" /\ hit[m] /\ loc[m] \in Target
Wanted(m) == Fits(m) /\ m \notin overtaken

\* No message is lost between a search and the updates that come meanwhile: a
\* message that matches is in the results of each search folder in the map, or
\* an update for it is on its way, or the search has yet to come to it, if it
\* did not end with an error (Search against ProcessMessageChange).
NothingMissed == \A f \in Folders :
    map[f] # None /\ f \notin dropped \cup broken =>
        \A m \in Messages :
            Wanted(m) => m \in results[f] \/ Pending(f, m) \/ ToSearch(f, m)

\* Nothing stays in the results of a search folder in the map that does not
\* match, is outside of the folders searched or is deleted, unless an update
\* for it is on its way.
NothingStale == \A f \in Folders :
    map[f] # None /\ f \notin dropped =>
        \A m \in results[f] \ overtaken :
            Fits(m) \/ Pending(f, m)

\* A worker has taken f out of the map and not yet said that it is stopped.
Changing(f) == \E w \in Workers : wf[w] = f /\ wpc[w] \in Waits \cup {"stop"}

\* A restart goes by the status in the database (LoadSearchFolders), and that
\* is right at every moment, also while a search is cancelled.  A search folder
\* out of the map says that it is stopped, or is about to say so; one in the
\* map does not; one that counts as built is complete but for the updates under
\* way, so that a search that failed, or is not at its end, is done again.
\* Exceptions: a status that could not be written (unset); and, between the end
\* of a cancelled search and the status "stopped", a search that was cancelled
\* half-way, which has written "running", or a folder that missed an update
\* (cut).
RestartIsSafe == \A f \in Folders \ unset :
    /\ map[f] = None /\ status[f] = "running" => Changing(f)
    /\ map[f] # None => status[f] # "stopped" /\ f \notin cut
    /\ status[f] = "running" /\ f \notin dropped \cup cut =>
         \A m \in Messages : Wanted(m) => m \in results[f] \/ Pending(f, m)

\* "The condition is used for all threads, so it may have been fired for a
\* different thread.  This is efficient enough" (DestroySearchFolder): who
\* waits for a search to end gets on when it has ended.
CancelEnds == \A w \in Workers : wpc[w] = "asleep" ~> wpc[w] # "asleep"
=============================================================================
