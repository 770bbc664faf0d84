---------------------------- MODULE Notifications ----------------------------
(***************************************************************************)
(* Notifications of one session group: the queue of the group              *)
(* (ECSessionGroup), filled by the threads that change something, and the  *)
(* thread of ECNotificationManager, which hands it out.  A client asks for *)
(* notifications with a call of its own; the worker that takes the call    *)
(* leaves the connection with the manager (AddRequest), which answers when *)
(* there is something to hand out, when the session is gone or after 60    *)
(* seconds, and gives the connection back.  Other groups share nothing     *)
(* with this one but the manager's thread.                                 *)
(*                                                                         *)
(* An action is one stretch under m_mutexSessions, m_mutexRequests,        *)
(* m_hNotificationLock or m_hSessionMapLock.  The manager holds            *)
(* m_mutexRequests at "validate", "update", "take" and "send", a producer  *)
(* m_hSessionMapLock while it tells the sessions (Telling).                *)
(*                                                                         *)
(* Abstracted: subscriptions (a notification is one that somebody in the   *)
(* group subscribed to), contents and encodings, time (a request may be    *)
(* older than 60 seconds at any moment).  All sessions have logged on; how *)
(* they end in full is in Sessions.                                        *)
(***************************************************************************)
EXTENDS FiniteSets, Naturals, Sequences

CONSTANTS Sessions,  \* of one group
          Conns,     \* connections (struct soap)
          Workers,   \* threads that serve getNotify calls
          Producers, \* threads that add notifications
          None,
          MaxNotes,  \* bound on the number of notifications
          Stops      \* TRUE: the server may stop

ASSUME NoneAssumption == None \notin Sessions \cup Conns
ASSUME BoundAssumption == MaxNotes \in Nat /\ Stops \in BOOLEAN

VARIABLES
  list,     \* m_listNotification of the group
  produced, \* the number of notifications so far; they are numbered
  stage,    \* of a session: "open", "closed" (out of the session table),
            \* "left" (out of the group, deleted), "told" (and the manager knows)
  active,   \* m_setActiveSessions
  requests, \* m_mapRequests: the connection waiting for a session
  old,      \* the sessions whose request waits for more than 60 seconds
  idle,     \* the connections at the dispatcher or their client
  broken,   \* those whose client is gone
  closed,   \* those that were closed and freed
  wpc, wses, wconn, \* of each worker: where it is, what it serves
  ppc, rest,        \* of each producer: where it is, whom it has yet to tell
  mpc, todo, ses,   \* of the manager: where it is, its copy of the active
                    \* sessions, the one it looks at
  item, out,        \* ... the connection and the notifications of its answer
  handed,   \* the notifications sent to clients, in the order they were sent
  lost,     \* those sent into connections whose client was gone
  stop      \* "off", "stopping", "locked", "exit" or "freed"

sessVars == <<stage>>
connVars == <<idle, broken, closed>>
reqVars  == <<active, requests, old>>
workVars == <<wpc, wses, wconn>>
prodVars == <<list, produced, ppc, rest>>
manVars  == <<mpc, todo, ses, item, out, handed, lost>>
vars == <<list, produced, stage, active, requests, old, idle, broken, closed,
          wpc, wses, wconn, ppc, rest, mpc, todo, ses, item, out, handed, lost,
          stop>>

Init == /\ list = <<>> /\ produced = 0
        /\ stage = [s \in Sessions |-> "open"]
        /\ active = {} /\ requests = [s \in Sessions |-> None] /\ old = {}
        /\ idle = Conns /\ broken = {} /\ closed = {}
        /\ wpc = [w \in Workers |-> "off"]
        /\ wses = [w \in Workers |-> None] /\ wconn = [w \in Workers |-> None]
        /\ ppc = [p \in Producers |-> "off"] /\ rest = [p \in Producers |-> {}]
        /\ mpc = "check" /\ todo = {} /\ ses = None /\ item = None /\ out = <<>>
        /\ handed = <<>> /\ lost = {} /\ stop = "off"

Members == {s \in Sessions : stage[s] \in {"open", "closed"}}
RequestsFree == mpc \notin {"validate", "update", "take", "send"}
Telling == \E p \in Producers : ppc[p] = "telling"
NotifyChange(S) == active' = active \cup S

\* kopano_notify_done: the dispatcher listens on it again, or closes it when
\* its client is gone or the server stops.
GiveBack(c) == IF c \in broken \/ stop # "off"
               THEN closed' = closed \cup {c} /\ UNCHANGED idle
               ELSE idle' = idle \cup {c} /\ UNCHANGED closed

-----------------------------------------------------------------------------
(* Requests.                                                               *)

\* ns__notifyGetItems finds that the session is valid.
GetItemsCall(w, s, c) ==
    /\ stop = "off" /\ wpc[w] = "off" /\ c \in idle \ broken /\ stage[s] = "open"
    /\ wpc' = [wpc EXCEPT ![w] = "add"]
    /\ wses' = [wses EXCEPT ![w] = s] /\ wconn' = [wconn EXCEPT ![w] = c]
    /\ idle' = idle \ {c}
    /\ UNCHANGED <<prodVars, stage, reqVars, broken, closed, manVars, stop>>

\* Mutant: a request that is replaced is forgotten.
BadAddRequest(w) ==
    /\ wpc[w] = "add" /\ RequestsFree
    /\ requests' = [requests EXCEPT ![wses[w]] = wconn[w]]
    /\ old' = old \ {wses[w]}
    /\ wconn' = [wconn EXCEPT ![w] = None]
    /\ wpc' = [wpc EXCEPT ![w] = "tell"]
    /\ UNCHANGED <<prodVars, stage, active, connVars, wses, manVars, stop>>

\* Mutant: a connection is given back whether or not one was waiting.
HastyAddRequest(w) ==
    /\ wpc[w] = "add" /\ RequestsFree
    /\ GiveBack(requests[wses[w]])
    /\ requests' = [requests EXCEPT ![wses[w]] = wconn[w]]
    /\ old' = old \ {wses[w]}
    /\ wconn' = [wconn EXCEPT ![w] = None]
    /\ wpc' = [wpc EXCEPT ![w] = "tell"]
    /\ UNCHANGED <<prodVars, stage, active, broken, wses, manVars, stop>>

\* AddRequest: a request that waits for the same session is answered with an
\* error and given back; the new one takes its place ...
AddRequest(w) ==
    /\ wpc[w] = "add" /\ RequestsFree
    /\ LET s == wses[w] IN
          /\ IF requests[s] = None THEN UNCHANGED <<idle, closed>>
                                   ELSE GiveBack(requests[s])
          /\ requests' = [requests EXCEPT ![s] = wconn[w]]
          /\ old' = old \ {s}
    /\ wconn' = [wconn EXCEPT ![w] = None]
    /\ wpc' = [wpc EXCEPT ![w] = "tell"]
    /\ UNCHANGED <<prodVars, stage, active, broken, wses, manVars, stop>>

\* Mutant: the manager is not told of the request.
BadTellRequest(w) ==
    /\ wpc[w] = "tell"
    /\ wpc' = [wpc EXCEPT ![w] = "off"] /\ wses' = [wses EXCEPT ![w] = None]
    /\ UNCHANGED <<prodVars, stage, reqVars, connVars, wconn, manVars, stop>>

\* ... and the manager is told: something may be there already.
TellRequest(w) ==
    /\ wpc[w] = "tell"
    /\ NotifyChange({wses[w]})
    /\ wpc' = [wpc EXCEPT ![w] = "off"] /\ wses' = [wses EXCEPT ![w] = None]
    /\ UNCHANGED <<prodVars, stage, requests, old, connVars, wconn, manVars, stop>>

\* The client of a waiting connection goes away.
Break(c) == /\ \E s \in Sessions : requests[s] = c
            /\ c \notin broken /\ broken' = broken \cup {c}
            /\ UNCHANGED <<prodVars, stage, reqVars, idle, closed, workVars,
                           manVars, stop>>

\* A request has waited for 60 seconds.
Age(s) == /\ requests[s] # None /\ s \notin old /\ old' = old \cup {s}
          /\ UNCHANGED <<prodVars, stage, active, requests, connVars, workVars,
                         manVars, stop>>

-----------------------------------------------------------------------------
(* Producers.                                                              *)

\* AddNotification puts a notification in the queue ...
AddNotification(p) ==
    /\ stop = "off" /\ ppc[p] = "off" /\ produced < MaxNotes
    /\ produced' = produced + 1
    /\ list' = Append(list, produced + 1)
    /\ ppc' = [ppc EXCEPT ![p] = "added"]
    /\ UNCHANGED <<stage, reqVars, connVars, workVars, rest, manVars, stop>>

\* ... locks the list of the group's sessions ...
LockSessions(p) ==
    /\ ppc[p] = "added" /\ ~Telling
    /\ ppc' = [ppc EXCEPT ![p] = "telling"] /\ rest' = [rest EXCEPT ![p] = Members]
    /\ UNCHANGED <<list, produced, stage, reqVars, connVars, workVars, manVars, stop>>

\* ... and tells the manager of each of them.
TellSessions(p) ==
    /\ ppc[p] = "telling"
    /\ \/ \E s \in rest[p] : /\ NotifyChange({s})
                             /\ rest' = [rest EXCEPT ![p] = @ \ {s}]
                             /\ UNCHANGED ppc
       \/ /\ rest[p] = {} /\ ppc' = [ppc EXCEPT ![p] = "off"]
          /\ UNCHANGED <<active, rest>>
    /\ UNCHANGED <<list, produced, stage, requests, old, connVars, workVars,
                   manVars, stop>>

-----------------------------------------------------------------------------
(* The end of a session.                                                   *)

\* It leaves the session table; kill_sessions tells the manager at once.
Close(s) == /\ stage[s] = "open" /\ stage' = [stage EXCEPT ![s] = "closed"]
            /\ UNCHANGED active \/ NotifyChange({s})
            /\ UNCHANGED <<prodVars, requests, old, connVars, workVars, manVars, stop>>

\* The manager has validated the session and not unlocked it.
Held(s) == ses = s /\ mpc \in {"update", "take"}

\* Its destructor leaves the group.
Leave(s) == /\ stage[s] = "closed" /\ ~Held(s) /\ ~Telling
            /\ stage' = [stage EXCEPT ![s] = "left"]
            /\ UNCHANGED <<prodVars, reqVars, connVars, workVars, manVars, stop>>

\* RemoveSession tells the manager when it is done; the cleaner does not.
TellLeft(s) == /\ stage[s] = "left" /\ stop = "off"
               /\ stage' = [stage EXCEPT ![s] = "told"]
               /\ NotifyChange({s})
               /\ UNCHANGED <<prodVars, requests, old, connVars, workVars,
                              manVars, stop>>

-----------------------------------------------------------------------------
(* The manager's thread (Work).                                            *)

World == <<produced, ppc, rest, stage, broken, workVars, stop>>

\* The top of the loop ...
CheckExit == /\ mpc = "check" /\ mpc' = IF stop = "exit" THEN "exit" ELSE "wait"
             /\ UNCHANGED <<World, list, reqVars, idle, closed, todo, ses, item,
                            out, handed, lost>>

\* ... a wait of a second at most, and the copy of the active sessions.
CopyActive == /\ mpc = "wait" /\ mpc' = "next"
              /\ todo' = active /\ active' = {}
              /\ UNCHANGED <<World, list, requests, old, idle, closed, ses, item,
                             out, handed, lost>>

\* The next session of the copy; nobody may be waiting for it.
NextSession ==
    /\ mpc = "next"
    /\ \/ \E s \in todo : /\ todo' = todo \ {s}
                          /\ IF requests[s] = None
                             THEN UNCHANGED <<mpc, ses>>
                             ELSE mpc' = "validate" /\ ses' = s
       \/ todo = {} /\ mpc' = "scan" /\ UNCHANGED <<todo, ses>>
    /\ UNCHANGED <<World, list, reqVars, idle, closed, item, out, handed, lost>>

\* ValidateSession needs the lock of the session table.
Validate == /\ mpc = "validate" /\ stop \notin {"locked", "exit"}
            /\ mpc' = IF stage[ses] = "open" THEN "update" ELSE "send"
            /\ out' = <<>>
            /\ UNCHANGED <<World, list, reqVars, idle, closed, todo, ses, item,
                           handed, lost>>

\* GetNotifyItems: UpdateSessionTime visits the sessions of the group ...
UpdateSessionTime == /\ mpc = "update" /\ ~Telling /\ mpc' = "take"
                     /\ UNCHANGED <<World, list, reqVars, idle, closed, todo, ses,
                                    item, out, handed, lost>>

\* ... and the queue is handed out and emptied.  Nothing there: the request
\* waits on, or is answered empty when it is old.
TakeItems == /\ mpc = "take"
             /\ out' = list /\ list' = <<>>
             /\ mpc' = IF list # <<>> \/ ses \in old THEN "send" ELSE "next"
             /\ UNCHANGED <<World, reqVars, idle, closed, todo, ses, item, handed, lost>>

\* Mutant: the queue is emptied when its content has been sent.
BadSend == /\ mpc = "send" /\ mpc' = "done"
           /\ item' = requests[ses]
           /\ requests' = [requests EXCEPT ![ses] = None] /\ old' = old \ {ses}
           /\ IF requests[ses] \in broken
              THEN lost' = lost \cup {out[i] : i \in DOMAIN out} /\ UNCHANGED handed
              ELSE handed' = handed \o out /\ UNCHANGED lost
           /\ list' = <<>> /\ out' = <<>>
           /\ UNCHANGED <<World, active, idle, closed, todo, ses>>

\* The answer is sent and the request taken out of the map ...
Send == /\ mpc = "send" /\ mpc' = "done"
        /\ item' = requests[ses]
        /\ requests' = [requests EXCEPT ![ses] = None] /\ old' = old \ {ses}
        /\ IF requests[ses] \in broken
           THEN lost' = lost \cup {out[i] : i \in DOMAIN out} /\ UNCHANGED handed
           ELSE handed' = handed \o out /\ UNCHANGED lost
        /\ out' = <<>>
        /\ UNCHANGED <<World, list, active, idle, closed, todo, ses>>

\* ... and its connection is given back.
NotifyDone == /\ mpc = "done" /\ mpc' = "next"
              /\ GiveBack(item) /\ item' = None
              /\ UNCHANGED <<World, list, reqVars, todo, ses, out, handed, lost>>

\* Mutant: old requests are left to whatever happens to their session.
BadScan == /\ mpc = "scan" /\ mpc' = "check"
           /\ UNCHANGED <<World, list, reqVars, idle, closed, todo, ses, item,
                          out, handed, lost>>

\* The requests that wait too long are marked for the next turn.
Scan == /\ mpc = "scan" /\ mpc' = "check"
        /\ NotifyChange({s \in old : requests[s] # None})
        /\ UNCHANGED <<World, list, requests, old, idle, closed, todo, ses, item,
                       out, handed, lost>>

-----------------------------------------------------------------------------
(* The end of the server.                                                  *)

Rest == <<prodVars, reqVars, connVars, workVars, manVars>>

\* The workers are gone and RemoveAllSessions has deleted the sessions (it
\* does not wait for the manager to let go of one: see Sessions).
StopServer == /\ Stops /\ stop = "off" /\ stop' = "stopping"
              /\ \A w \in Workers : wpc[w] = "off"
              /\ \A p \in Producers : ppc[p] = "off"
              /\ \A s \in Sessions : ~Held(s)
              /\ stage' = [s \in Sessions |-> "left"]
              /\ UNCHANGED Rest

\* ~ECSessionManager takes the session table for writing ...
LockTable == /\ stop = "stopping" /\ stop' = "locked"
             /\ UNCHANGED <<Rest, stage>>

\* ... and keeps it while ~ECNotificationManager sets m_bExit ...
SetExit == /\ stop = "locked" /\ stop' = "exit"
           /\ UNCHANGED <<Rest, stage>>

\* ... waits for the thread, and closes the connections that still wait.
JoinThread == /\ stop = "exit" /\ mpc = "exit" /\ stop' = "freed"
              /\ closed' = closed \cup ({requests[s] : s \in Sessions} \ {None})
              /\ requests' = [s \in Sessions |-> None] /\ old' = {}
              /\ UNCHANGED <<prodVars, stage, active, idle, broken, workVars, manVars>>

-----------------------------------------------------------------------------
WorkerStep(w) == AddRequest(w) \/ TellRequest(w)
ProducerStep(p) == LockSessions(p) \/ TellSessions(p)
ManagerStep == \/ CheckExit \/ CopyActive \/ NextSession \/ Validate
               \/ UpdateSessionTime \/ TakeItems \/ Send \/ NotifyDone \/ Scan
StopStep == LockTable \/ SetExit \/ JoinThread

Next == \/ \E w \in Workers : \/ \E s \in Sessions, c \in Conns : GetItemsCall(w, s, c)
                              \/ WorkerStep(w)
        \/ \E p \in Producers : AddNotification(p) \/ ProducerStep(p)
        \/ \E s \in Sessions : Age(s) \/ Close(s) \/ Leave(s) \/ TellLeft(s)
        \/ \E c \in Conns : Break(c)
        \/ ManagerStep \/ StopServer \/ StopStep

Spec == Init /\ [][Next]_vars

\* Threads keep running and get the mutexes they wait for; time passes.
Fairness == /\ SF_vars(ManagerStep) /\ WF_vars(StopStep)
            /\ \A w \in Workers : SF_vars(WorkerStep(w))
            /\ \A p \in Producers : SF_vars(ProducerStep(p))
            /\ \A s \in Sessions : WF_vars(Age(s))
FairSpec == Spec /\ Fairness
-----------------------------------------------------------------------------
Notes == 1 .. MaxNotes

\* The values the variables range over.
TypeOK == /\ list \in Seq(Notes) /\ produced \in 0 .. MaxNotes
          /\ stage \in [Sessions -> {"open", "closed", "left", "told"}]
          /\ active \in SUBSET Sessions /\ old \in SUBSET Sessions
          /\ requests \in [Sessions -> Conns \cup {None}]
          /\ idle \in SUBSET Conns /\ broken \in SUBSET Conns
          /\ closed \in SUBSET Conns
          /\ wpc \in [Workers -> {"off", "add", "tell"}]
          /\ wses \in [Workers -> Sessions \cup {None}]
          /\ wconn \in [Workers -> Conns \cup {None}]
          /\ ppc \in [Producers -> {"off", "added", "telling"}]
          /\ rest \in [Producers -> SUBSET Sessions]
          /\ mpc \in {"check", "wait", "next", "validate", "update", "take",
                      "send", "done", "scan", "exit"}
          /\ todo \in SUBSET Sessions /\ ses \in Sessions \cup {None}
          /\ item \in Conns \cup {None}
          /\ out \in Seq(Notes) /\ handed \in Seq(Notes) /\ lost \in SUBSET Notes
          /\ stop \in {"off", "stopping", "locked", "exit", "freed"}

\* The manager, or a thread on its way to it, has session s in view.
InView(s) == \/ s \in active \cup todo
             \/ ses = s /\ mpc \in {"validate", "update", "take"}
             \/ \E w \in Workers : wpc[w] = "tell" /\ wses[w] = s
             \/ \E p \in Producers : ppc[p] = "added" \/ s \in rest[p]

\* No wakeup is lost between producers, requests and the manager's thread: a
\* request of an open session never sleeps on notifications that are there
\* (AddNotification, AddRequest and NotifyChange against Work).
NoLostWakeup == \A s \in Sessions :
    stage[s] = "open" /\ requests[s] # None /\ list # <<>> => InView(s)

In(c, S) == IF c \in S THEN 1 ELSE 0
Holders(c) == In(c, idle) + In(c, closed) + In(c, {item})
    + Cardinality({s \in Sessions : requests[s] = c})
    + Cardinality({w \in Workers : wconn[w] = c})

\* Each connection is at one place: with the dispatcher, with the worker that
\* adds it, waiting for one session, being given back, or closed.  None is
\* answered twice, given back twice or forgotten.
OneHolder == \A c \in Conns : Holders(c) = 1

Seen(q) == {q[i] : i \in DOMAIN q}

\* Clients get every notification once and in order, whichever session of the
\* group it was handed out to; only those sent to a client that was gone are
\* missing (GetNotifyItems, Work).
InOrder == /\ \A i, j \in DOMAIN handed : i < j => handed[i] < handed[j]
           /\ Seen(handed) \cup lost \cup Seen(out) \cup Seen(list) = 1 .. produced
           /\ \A n \in Seen(list) : \A k \in Seen(handed) \cup lost \cup Seen(out) : k < n

\* What a call has come to, seen from its client.
Late(c) == \/ \E s \in Sessions : requests[s] = c /\ (stage[s] # "open" \/ s \in old)
           \/ \E w \in Workers : /\ wpc[w] = "add" /\ wconn[w] = c
                                 /\ stage[wses[w]] # "open"
CallOf(c) == IF c \in idle THEN "home"
             ELSE IF c \in closed THEN "closed"
             ELSE IF c = item THEN "answered"
             ELSE IF Late(c) THEN "late" ELSE "asked"

Contract == INSTANCE NotifyContract
            WITH made <- produced, queue <- out \o list, got <- handed,
                 missing <- lost, call <- [c \in Conns |-> CallOf(c)],
                 gone <- broken, over <- stop # "off"

\* Notifications keep their contract: each is sent once and in order, in answer
\* to a call that is open; a call is answered once, and empty only when it has
\* waited for 60 seconds or its session is over (AddRequest, GetNotifyItems,
\* Work against clients, sessions and producers).
ContractHolds == Contract!Spec

\* When the manager is deleted no connection is left with it or on its way to
\* it or back: each is with the dispatcher or closed (~ECNotificationManager).
NoneLeftOpen == stop = "freed" => idle \cup closed = Conns

\* Every request is answered in the end: with notifications, with nothing
\* after 60 seconds, or because its session is gone or it was replaced.
Answered == \A s \in Sessions : \A c \in Conns :
               requests[s] = c ~> requests[s] # c \/ stop # "off"
=============================================================================
