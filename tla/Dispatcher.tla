----------------------------- MODULE Dispatcher -----------------------------
(***************************************************************************)
(* The dispatcher of kopano-server (ECDispatcherEPoll, ECThreadManager,    *)
(* ECWorkerThread, ECWatchDog): the main thread waits for requests on all  *)
(* connections and queues the connections that have one; worker threads    *)
(* take them from the queue, serve them and give them back.  The watchdog  *)
(* adds threads, SIGHUP changes their number, SIGTERM ends it all.         *)
(*                                                                         *)
(* An action is one stretch under m_mutexItems, m_mutexThreads or          *)
(* m_mutexSockets, or one access outside of them.  The main thread holds   *)
(* m_mutexSockets while it works through what epoll_wait returned          *)
(* (Handling) and m_mutexItems while its pc is "queueing".  A signal       *)
(* handler runs on top of a thread, which stands still meanwhile: on the   *)
(* main thread, or on another thread that holds no lock of the dispatcher. *)
(* (The workers set a mask of signals up and never apply it.)              *)
(*                                                                         *)
(* Abstracted: the parsing of requests, SSL handshakes (they end like a    *)
(* request), ages and idle times (an item may be old, a connection idle    *)
(* too long, at any moment), statistics.                                   *)
(***************************************************************************)
EXTENDS FiniteSets, Naturals, Sequences

CONSTANTS Conns,     \* connections; each is made once
          PrioConns, \* those of the priority pipe
          Workers,   \* worker threads, at most so many at a time
          Prio,      \* the priority worker
          Notifier,  \* the thread of the notification manager
          None,
          Counts,    \* the values of the setting "threads"
          MaxHups,   \* bound on the number of SIGHUPs
          HupHosts,  \* where their handler runs: "main", "other"
          Spurious,  \* the threads that may wake up without being signalled
          Stops      \* TRUE: SIGTERM may arrive

Threads == Workers \cup {Prio, Notifier}

ASSUME ThreadAssumption == /\ Prio \notin Workers \cup {Notifier}
                           /\ Notifier \notin Workers
                           /\ IsFiniteSet(Workers)
ASSUME ConnAssumption == PrioConns \subseteq Conns /\ None \notin Conns
ASSUME CountAssumption == /\ Counts \subseteq 1 .. Cardinality(Workers)
                          /\ Counts # {} /\ MaxHups \in Nat
                          /\ HupHosts \subseteq {"main", "other"}
                          /\ Stops \in BOOLEAN /\ Spurious \subseteq Threads

VARIABLES
  accepted, \* the connections that were made
  closed,   \* those that were closed and freed
  pending,  \* what waits on the socket: "none", "data" or "hup"
  sockets,  \* m_setSockets
  polled,   \* the sockets in the epoll set
  batch,    \* the events epoll_wait returned and main has yet to handle
  queue,    \* m_queueItems ("normal") and m_queuePrioItems ("prio")
  deferred, \* taken over by the notification manager
  pc, item, \* of each thread: where it is, the connection it works for
  list,     \* m_lstThreads
  target,   \* m_ulThreads
  mpc, cur, \* of the main thread: where it is, the connection it queues
  watchdog, \* "asleep", "add" or "gone"
  bExit,    \* m_bExit
  hup,      \* the SIGHUP handler: "off", "count" or "notify"
  host,     \* the thread it runs on
  threads,  \* the value it has read from the configuration
  hups      \* the number of SIGHUPs so far

connVars   == <<accepted, closed, pending, sockets, polled, batch, deferred>>
threadVars == <<pc, item, list, target>>
mainVars   == <<mpc, cur, watchdog, bExit>>
hupVars    == <<hup, host, threads, hups>>
vars == <<accepted, closed, pending, sockets, polled, batch, queue, deferred,
          pc, item, list, target, mpc, cur, watchdog, bExit, hup, host,
          threads, hups>>

\* The ECThreadManager and the watchdog have just been made.
Init == /\ accepted = {} /\ closed = {} /\ sockets = {} /\ polled = {}
        /\ batch = {} /\ deferred = {}
        /\ pending = [c \in Conns |-> "none"]
        /\ queue = [k \in {"normal", "prio"} |-> <<>>]
        /\ target \in Counts
        /\ list \in SUBSET Workers /\ Cardinality(list) = target
        /\ pc = [t \in Threads |-> IF t \in list \cup {Prio} THEN "next" ELSE "off"]
        /\ item = [t \in Threads |-> None]
        /\ mpc = "poll" /\ cur = None /\ watchdog = "asleep" /\ bExit = FALSE
        /\ hup = "off" /\ host = "other" /\ threads = target /\ hups = 0

MainRuns  == hup = "off" \/ host # "main"
ItemsFree == mpc # "queueing"                  \* m_mutexItems
Handling  == batch # {}                        \* m_mutexSockets
KindOf(c) == IF c \in PrioConns THEN "prio" ELSE "normal"
QueueOf(t) == IF t = Prio THEN "prio" ELSE "normal"
Goto(t, l) == pc' = [pc EXCEPT ![t] = l]
\* kopano_end_soap_connection and soap_free; the kernel stops polling it.
Close(S) == closed' = closed \cup S /\ polled' = polled \ S

-----------------------------------------------------------------------------
(* Clients.                                                                *)

\* The client has had the answer to its last request.
Answered(c) == \/ c \in sockets \ {cur}
               \/ \E t \in Threads : item[t] = c /\ pc[t] \in {"done", "requeue", "restart"}

Request(c) == /\ c \in accepted \ closed /\ pending[c] = "none" /\ Answered(c)
              /\ pending' = [pending EXCEPT ![c] = "data"]
              /\ UNCHANGED <<accepted, closed, sockets, polled, batch, queue,
                             deferred, threadVars, mainVars, hupVars>>

\* The client hangs up, or the connection was idle for server_recv_timeout
\* and is shut down; a request that is coming in is lost then.
Disconnect(c) == /\ c \in accepted \ closed /\ pending[c] # "hup"
                 /\ pending' = [pending EXCEPT ![c] = "hup"]
                 /\ UNCHANGED <<accepted, closed, sockets, polled, batch, queue,
                                deferred, threadVars, mainVars, hupVars>>

-----------------------------------------------------------------------------
(* The main loop.                                                          *)

InLoop == mpc = "poll" /\ MainRuns

Accept(c) == /\ InLoop /\ ~Handling /\ ~bExit /\ c \notin accepted
             /\ accepted' = accepted \cup {c}
             /\ sockets' = sockets \cup {c}
             /\ polled' = polled \cup {c}
             /\ UNCHANGED <<closed, pending, batch, queue, deferred, threadVars,
                            mainVars, hupVars>>

\* epoll_wait returns every connection that is ready.
EpollWait == /\ InLoop /\ ~Handling /\ ~bExit
             /\ batch' = {c \in polled : pending[c] # "none"}
             /\ batch' # {}
             /\ UNCHANGED <<accepted, closed, pending, sockets, polled, queue,
                            deferred, threadVars, mainVars, hupVars>>

\* A connection that hung up is closed.
HangUp(c) == /\ InLoop /\ c \in batch /\ pending[c] = "hup"
             /\ sockets' = sockets \ {c} /\ Close({c})
             /\ batch' = batch \ {c}
             /\ UNCHANGED <<accepted, pending, queue, deferred, threadVars,
                            mainVars, hupVars>>

\* Mutant: the connection stays in the epoll set while it is worked on.
BadLockItems(c) == /\ InLoop /\ c \in batch
                   /\ mpc' = "queueing" /\ cur' = c
                   /\ UNCHANGED <<connVars, queue, threadVars, watchdog, bExit, hupVars>>

\* Otherwise it leaves the epoll set, and QueueItem takes m_mutexItems ...
LockItems(c) == /\ InLoop /\ c \in batch
                /\ polled' = polled \ {c}
                /\ mpc' = "queueing" /\ cur' = c
                /\ UNCHANGED <<accepted, closed, pending, sockets, batch, queue,
                               deferred, threadVars, watchdog, bExit, hupVars>>

Waiting(k) == {t \in list \cup {Prio} : pc[t] = "waiting" /\ QueueOf(t) = k}

\* Mutant: the threads are not told.
BadQueueItem ==
    /\ mpc = "queueing" /\ MainRuns
    /\ queue' = [queue EXCEPT ![KindOf(cur)] = Append(@, cur)]
    /\ mpc' = "erase"
    /\ UNCHANGED <<connVars, threadVars, cur, watchdog, bExit, hupVars>>

\* ... puts the connection in its queue, wakes one of the threads that wait
\* there, and releases the mutex.
QueueItem ==
    /\ mpc = "queueing" /\ MainRuns
    /\ queue' = [queue EXCEPT ![KindOf(cur)] = Append(@, cur)]
    /\ LET W == Waiting(KindOf(cur)) IN
          \/ W = {} /\ UNCHANGED pc
          \/ \E t \in W : Goto(t, "woken")
    /\ mpc' = "erase"
    /\ UNCHANGED <<connVars, item, list, target, cur, watchdog, bExit, hupVars>>

\* The connection leaves the socket list, which main has locked all along.
EraseSocket == /\ mpc = "erase" /\ MainRuns
               /\ sockets' = sockets \ {cur}
               /\ batch' = batch \ {cur}
               /\ mpc' = "poll" /\ cur' = None
               /\ UNCHANGED <<accepted, closed, pending, polled, queue, deferred,
                              threadVars, watchdog, bExit, hupVars>>

-----------------------------------------------------------------------------
(* Worker threads.                                                         *)

Works(t) == t \in Workers \cup {Prio}
Take(t) == LET k == QueueOf(t) IN
           /\ queue[k] # <<>>
           /\ queue' = [queue EXCEPT ![k] = Tail(@)]
           /\ item' = [item EXCEPT ![t] = Head(queue[k])]
           /\ Goto(t, "work")

\* GetNextWorkItem, without waiting.
NextItem(t) ==
    /\ pc[t] = "next" /\ ItemsFree
    /\ \/ Take(t)
       \/ queue[QueueOf(t)] = <<>> /\ Goto(t, "idle") /\ UNCHANGED <<queue, item>>
    /\ UNCHANGED <<connVars, list, target, mainVars, hupVars>>

\* Mutant: any idle thread goes when their number was lowered.
BadNotifyIdle(t) ==
    /\ pc[t] = "idle"
    /\ \/ t = Prio /\ UNCHANGED list /\ Goto(t, IF target = 0 THEN "off" ELSE "wait")
       \/ t # Prio /\ Cardinality(list) >= target
          /\ list' = list \ {t} /\ Goto(t, "off")
    /\ UNCHANGED <<connVars, queue, item, target, mainVars, hupVars>>

\* NotifyIdle: a thread too many stops, the priority worker only at the end.
NotifyIdle(t) ==
    /\ pc[t] = "idle"
    /\ \/ t = Prio /\ UNCHANGED list /\ Goto(t, IF target = 0 THEN "off" ELSE "wait")
       \/ t # Prio /\ Cardinality(list) > target
          /\ list' = list \ {t} /\ Goto(t, "off")
       \/ t # Prio /\ Cardinality(list) <= target
          /\ UNCHANGED list /\ Goto(t, "wait")
    /\ UNCHANGED <<connVars, queue, item, target, mainVars, hupVars>>

\* GetNextWorkItem, waiting: the queue is looked at once more first.
WaitItem(t) ==
    /\ pc[t] = "wait" /\ ItemsFree
    /\ \/ Take(t)
       \/ /\ queue[QueueOf(t)] = <<>>
          /\ Goto(t, IF bExit THEN "next" ELSE "waiting")
          /\ UNCHANGED <<queue, item>>
    /\ UNCHANGED <<connVars, list, target, mainVars, hupVars>>

\* The condition variable fires without having been signalled.
SpuriousWakeup(t) == /\ t \in Spurious /\ pc[t] = "waiting" /\ Goto(t, "woken")
                     /\ UNCHANGED <<connVars, queue, item, list, target,
                                    mainVars, hupVars>>

\* Awake: take an item if there still is one, or start over.
Wakeup(t) ==
    /\ pc[t] = "woken" /\ ItemsFree
    /\ \/ ~bExit /\ Take(t)
       \/ /\ queue[QueueOf(t)] = <<>> \/ bExit
          /\ Goto(t, "next") /\ UNCHANGED <<queue, item>>
    /\ UNCHANGED <<connVars, list, target, mainVars, hupVars>>

\* The request is served; a call for notifications throws and leaves the
\* connection to the notification manager; one that hung up gets closed.
Serve(t) ==
    /\ pc[t] = "work"
    /\ \/ /\ pending[item[t]] = "data" /\ Goto(t, "done")
          /\ pending' = [pending EXCEPT ![item[t]] = "none"]
          /\ UNCHANGED <<item, deferred, closed, polled>>
       \/ /\ pending[item[t]] = "data" /\ Goto(t, "next")
          /\ pending' = [pending EXCEPT ![item[t]] = "none"]
          /\ deferred' = deferred \cup {item[t]}
          /\ item' = [item EXCEPT ![t] = None]
          /\ UNCHANGED <<closed, polled>>
       \/ /\ pending[item[t]] = "hup" /\ Goto(t, "next")
          /\ Close({item[t]}) /\ item' = [item EXCEPT ![t] = None]
          /\ UNCHANGED <<pending, deferred>>
    /\ UNCHANGED <<accepted, sockets, batch, queue, list, target, mainVars, hupVars>>

\* The notification manager has answered a request it took over.
Answer(c) == /\ pc[Notifier] = "off" /\ c \in deferred
             /\ deferred' = deferred \ {c}
             /\ item' = [item EXCEPT ![Notifier] = c] /\ Goto(Notifier, "done")
             /\ UNCHANGED <<accepted, closed, pending, sockets, polled, batch,
                            queue, list, target, mainVars, hupVars>>

Rest(t) == Goto(t, IF t = Notifier THEN "off" ELSE "next")

\* NotifyDone: m_bExit is read without a lock; the connection is closed when
\* it is set, or when soap has closed the socket (no keep-alive, an error) ...
NotifyDone(t) ==
    /\ pc[t] = "done"
    /\ \/ Close({item[t]}) /\ item' = [item EXCEPT ![t] = None] /\ Rest(t)
       \/ ~bExit /\ Goto(t, "requeue") /\ UNCHANGED <<item, closed, polled>>
    /\ UNCHANGED <<accepted, pending, sockets, batch, deferred, queue, list,
                   target, mainVars, hupVars>>

\* Mutant: the socket list is changed without its mutex.
BadRequeue(t) ==
    /\ pc[t] = "requeue"
    /\ sockets' = sockets \cup {item[t]}
    /\ Goto(t, "restart")
    /\ UNCHANGED <<accepted, closed, pending, polled, batch, deferred, queue,
                   item, list, target, mainVars, hupVars>>

\* ... the connection goes back to the socket list ...
Requeue(t) ==
    /\ pc[t] = "requeue" /\ ~Handling
    /\ sockets' = sockets \cup {item[t]}
    /\ Goto(t, "restart")
    /\ UNCHANGED <<accepted, closed, pending, polled, batch, deferred, queue,
                   item, list, target, mainVars, hupVars>>

\* ... and to the epoll set, unless it is closed by now.
NotifyRestart(t) ==
    /\ pc[t] = "restart"
    /\ polled' = IF item[t] \in closed THEN polled ELSE polled \cup {item[t]}
    /\ item' = [item EXCEPT ![t] = None] /\ Rest(t)
    /\ UNCHANGED <<accepted, closed, pending, sockets, batch, deferred, queue,
                   list, target, mainVars, hupVars>>

-----------------------------------------------------------------------------
(* The number of threads.                                                  *)

\* New threads until there are n; the bound is the size of Workers.
Start(n) == LET m == IF n > Cardinality(list) THEN n ELSE Cardinality(list) IN
    \E L \in SUBSET Workers :
       /\ list \subseteq L /\ Cardinality(L) = m
       /\ list' = L
       /\ pc' = [t \in Threads |-> IF t \in L \ list THEN "next" ELSE pc[t]]

\* notify_all on the condition variables of the queues in K.
WakeAll(K) == pc' = [t \in Threads |->
    IF pc[t] = "waiting" /\ QueueOf(t) \in K THEN "woken" ELSE pc[t]]

\* The item in front of the queue is old.
GetFrontItemAge == /\ watchdog = "asleep" /\ ItemsFree
                   /\ \E k \in DOMAIN queue : queue[k] # <<>>
                   /\ watchdog' = "add"
                   /\ UNCHANGED <<connVars, queue, threadVars, mpc, cur, bExit, hupVars>>

\* Mutant: the nominal number of threads is raised as well.
BadForceAddThread == /\ watchdog = "add" /\ watchdog' = "asleep"
                     /\ \/ Start(Cardinality(list) + 1)
                        \/ list = Workers /\ UNCHANGED <<list, pc>>
                     /\ target' = Cardinality(list) + 1
                     /\ UNCHANGED <<connVars, queue, item, mpc, cur, bExit, hupVars>>

\* ForceAddThread(1), as far as Workers has one to add.
ForceAddThread == /\ watchdog = "add" /\ watchdog' = "asleep"
                  /\ \/ Start(Cardinality(list) + 1)
                     \/ list = Workers /\ UNCHANGED <<list, pc>>
                  /\ UNCHANGED <<connVars, queue, item, target, mpc, cur, bExit, hupVars>>

\* SIGHUP: the handler begins, unless the server is stopping ...
Hup == /\ hup = "off" /\ ~bExit /\ hups < MaxHups
       /\ hup' = "count" /\ hups' = hups + 1
       /\ host' \in HupHosts /\ threads' \in Counts
       /\ UNCHANGED <<connVars, queue, threadVars, mainVars>>

\* ... SetThreadCount of the thread manager ...
HupCount == /\ hup = "count" /\ hup' = "notify"
            /\ target' = threads /\ Start(threads)
            /\ UNCHANGED <<connVars, queue, item, mainVars, host, threads, hups>>

\* ... and the wakeup call for the normal threads.
HupNotify == /\ hup = "notify" /\ hup' = "off" /\ ItemsFree
             /\ WakeAll({"normal"})
             /\ UNCHANGED <<connVars, queue, item, list, target, mainVars, host,
                            threads, hups>>

-----------------------------------------------------------------------------
(* The end.                                                                *)

Shut == <<connVars, queue, item, cur, hupVars>>

\* SIGTERM: its handler only sets flags (m_bExit and g_Quit).
ShutDown == /\ Stops /\ ~bExit /\ bExit' = TRUE
            /\ UNCHANGED <<Shut, pc, list, target, mpc, watchdog>>

\* Mutant: the main thread does not wait for the watchdog.
BadDeleteWatchDog == /\ InLoop /\ ~Handling /\ bExit
                     /\ mpc' = "zero"
                     /\ UNCHANGED <<Shut, pc, list, target, bExit, watchdog>>

\* The main loop is left and the watchdog joined.
DeleteWatchDog == /\ InLoop /\ ~Handling /\ bExit /\ watchdog = "asleep"
                  /\ watchdog' = "gone" /\ mpc' = "zero"
                  /\ UNCHANGED <<Shut, pc, list, target, bExit>>

SetThreadCount0 == /\ mpc = "zero" /\ MainRuns
                   /\ target' = 0 /\ mpc' = "broadcast"
                   /\ UNCHANGED <<Shut, pc, list, watchdog, bExit>>

\* Mutant: the threads that wait are not woken.
BadNotifyAll == /\ mpc = "broadcast" /\ MainRuns
                /\ mpc' = "join"
                /\ UNCHANGED <<Shut, pc, list, target, watchdog, bExit>>

NotifyAll == /\ mpc = "broadcast" /\ MainRuns
             /\ WakeAll({"normal", "prio"}) /\ mpc' = "join"
             /\ UNCHANGED <<Shut, list, target, watchdog, bExit>>

\* ~ECThreadManager waits for every thread to stop.
JoinThreads == /\ mpc = "join" /\ MainRuns
               /\ list = {} /\ pc[Prio] = "off"
               /\ mpc' = "empty"
               /\ UNCHANGED <<Shut, pc, list, target, watchdog, bExit>>

InQueue == UNION {{queue[k][i] : i \in DOMAIN queue[k]} : k \in DOMAIN queue}

\* What no thread has taken is closed with its queue.
EmptyQueues == /\ mpc = "empty" /\ MainRuns
               /\ Close(InQueue)
               /\ queue' = [k \in DOMAIN queue |-> <<>>]
               /\ mpc' = "close"
               /\ UNCHANGED <<accepted, pending, sockets, batch, deferred,
                              threadVars, cur, watchdog, bExit, hupVars>>

\* Every connection of the socket list is closed; nobody reads it again.
CloseSockets == /\ mpc = "close" /\ MainRuns
                /\ Close(sockets) /\ sockets' = {}
                /\ mpc' = "exit"
                /\ UNCHANGED <<accepted, pending, batch, deferred, queue,
                               threadVars, cur, watchdog, bExit, hupVars>>

-----------------------------------------------------------------------------
MainStep == \/ EpollWait \/ QueueItem \/ EraseSocket
            \/ \E c \in Conns : HangUp(c) \/ LockItems(c)
            \/ DeleteWatchDog \/ SetThreadCount0 \/ NotifyAll \/ JoinThreads
            \/ EmptyQueues \/ CloseSockets
ThreadStep(t) == \/ NextItem(t) \/ NotifyIdle(t) \/ WaitItem(t) \/ Wakeup(t)
                 \/ Serve(t) \/ NotifyDone(t) \/ Requeue(t) \/ NotifyRestart(t)
HupStep == HupCount \/ HupNotify

Next == \/ \E c \in Conns : Request(c) \/ Disconnect(c) \/ Accept(c) \/ Answer(c)
        \/ \E t \in Threads : ThreadStep(t) \/ SpuriousWakeup(t)
        \/ MainStep \/ GetFrontItemAge \/ ForceAddThread
        \/ Hup \/ HupStep \/ ShutDown

Spec == Init /\ [][Next]_vars

\* Every thread keeps running and gets a mutex it waits for in the end; every
\* served call ends (reads and writes have timeouts).
Fairness == /\ WF_vars(MainStep) /\ SF_vars(HupStep) /\ WF_vars(ForceAddThread)
            /\ \A t \in Threads : SF_vars(ThreadStep(t))
FairSpec == Spec /\ Fairness
-----------------------------------------------------------------------------
Pcs == {"off", "next", "idle", "wait", "waiting", "woken", "work", "done",
        "requeue", "restart"}
MainPcs == {"poll", "queueing", "erase", "zero", "broadcast", "join", "empty",
            "close", "exit"}

\* The values the variables range over.
TypeOK == /\ accepted \in SUBSET Conns /\ closed \in SUBSET Conns
          /\ pending \in [Conns -> {"none", "data", "hup"}]
          /\ sockets \in SUBSET Conns /\ polled \in SUBSET Conns
          /\ batch \in SUBSET Conns /\ deferred \in SUBSET Conns
          /\ queue \in [{"normal", "prio"} -> Seq(Conns)]
          /\ pc \in [Threads -> Pcs] /\ item \in [Threads -> Conns \cup {None}]
          /\ list \in SUBSET Workers /\ target \in Counts \cup {0}
          /\ mpc \in MainPcs /\ cur \in Conns \cup {None}
          /\ watchdog \in {"asleep", "add", "gone"} /\ bExit \in BOOLEAN
          /\ hup \in {"off", "count", "notify"} /\ host \in {"main", "other"}
          /\ threads \in Counts /\ hups \in 0 .. MaxHups

\* The connections main listens on: it is about to erase what it has queued.
Listed == sockets \ (IF mpc = "erase" THEN {cur} ELSE {})
\* The threads that hold connection c; one at "restart" has given it back.
Holders(c) == {t \in Threads : item[t] = c /\ pc[t] # "restart"}
\* Where c is queued.
Spots(c) == {q \in UNION {{k} \X DOMAIN queue[k] : k \in DOMAIN queue} :
                queue[q[1]][q[2]] = c}
In(c, S) == IF c \in S THEN 1 ELSE 0
Owners(c) == In(c, Listed) + In(c, deferred) + In(c, closed)
             + Cardinality(Holders(c)) + Cardinality(Spots(c))

\* Every connection has one owner: it is listened on, queued, worked on, left
\* to the notification manager, or closed.  None is forgotten, served by two
\* threads, or used after it was freed (QueueItem, NotifyDone, MainLoop).
OneOwner == \A c \in accepted : Owners(c) = 1

\* What was reported by epoll and is on its way to its answer: main has yet to
\* handle it or queues it, it is queued, or a worker is about to read it.
OnTheWay == (batch \ {cur}) \cup (IF mpc = "queueing" THEN {cur} ELSE {})
            \cup InQueue \cup {item[t] : t \in {u \in Threads : pc[u] = "work"}}

\* MainLoop looks every event's socket up in m_setSockets and uses what find()
\* returns unseen: it is there and alive, for all that are polled and for all
\* of a batch but the one main has in hand.  And an event stays true until it
\* is served: no worker is sent to a connection that has nothing to read, where
\* it would block (MainLoop, QueueItem, NotifyRestart against the workers).
EventsHold == /\ polled \cup (batch \ {cur}) \subseteq sockets \ closed
              /\ \A c \in OnTheWay : pending[c] # "none"

\* Work in a queue is never left with all its threads asleep on the condition
\* variable (GetNextWorkItem and NotifyIdle against QueueItem and SetThreadCount).
NotStranded == \A k \in DOMAIN queue :
    target > 0 /\ queue[k] # <<>> =>
       \E t \in list \cup {Prio} : QueueOf(t) = k /\ pc[t] # "waiting"

\* However NotifyIdle, the watchdog and SIGHUP interleave, there are at least
\* as many threads as were asked for.
EnoughThreads == Cardinality(list) >= target

\* When the thread manager is deleted no worker runs any more and none will
\* (each would call into it), and nothing is left in the queues at the end.
StoppedClean == /\ mpc \in {"empty", "close", "exit"} =>
                      list = {} /\ \A t \in Workers \cup {Prio} : pc[t] = "off"
                /\ mpc = "exit" => InQueue = {}

\* A request is taken up, or its connection closed, or the server stops.
Served == \A c \in Conns : pending[c] = "data" ~> \/ pending[c] # "data"
                                                  \/ c \in closed \/ bExit

\* After SIGTERM the main loop comes to its end.
ServerStops == bExit ~> mpc = "exit"

\* Where connection c is: with its one owner.  A thread that holds it is about
\* to read from it, or has answered.
PlaceOf(c) == IF c \notin accepted THEN "nowhere"
              ELSE IF Owners(c) # 1 THEN "lost"
              ELSE IF c \in Listed THEN "listening"
              ELSE IF c \in deferred THEN "left"
              ELSE IF c \in closed THEN "closed"
              ELSE IF c \in InQueue THEN "queued"
              ELSE IF \E t \in Threads : item[t] = c /\ pc[t] = "work" THEN "reading"
              ELSE "answered"

Contract == INSTANCE DispatchContract
            WITH at <- [c \in Conns |-> PlaceOf(c)], waits <- pending, stopping <- bExit

\* The dispatcher keeps its contract: whatever main, workers, the notification
\* manager, the watchdog and signals do side by side, a request is read by one
\* worker and answered once, and the connection listened on again after that
\* (QueueItem, GetNextWorkItem, NotifyDone, MainLoop).
ContractHolds == Contract!Spec
=============================================================================
