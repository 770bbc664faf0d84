-------------------------- MODULE DispatcherProofs --------------------------
(***************************************************************************)
(* The dispatcher, for any number of connections, workers, signals and     *)
(* wakeups: a connection has one owner at any moment, the main thread      *)
(* finds the socket of every event, queued work does not meet a pool that  *)
(* is all asleep, and the number of threads is not too low.  What was      *)
(* reported of a connection is still so when a worker reads it (Ready),    *)
(* and so the whole implements DispatchContract, in which a connection is  *)
(* at PlaceOf.                                                             *)
(***************************************************************************)
EXTENDS Dispatcher, TLAPS, FiniteSetTheorems

\* The connections the threads have in hand, and those in a sequence.
Hands == {item[t] : t \in {u \in Threads : pc[u] # "restart"}} \ {None}
Elems(s) == {s[i] : i \in DOMAIN s}
Distinct(s) == \A i, j \in DOMAIN s : s[i] = s[j] => i = j
Queued == Elems(queue["normal"]) \cup Elems(queue["prio"])
Busy == {"work", "done", "requeue", "restart"}

-----------------------------------------------------------------------------
(* The inductive invariant. *)

\* Each connection is in one place.
Apart == /\ accepted = Listed \cup deferred \cup closed \cup Hands \cup Queued
         /\ Listed \cap (deferred \cup closed \cup Hands \cup Queued) = {}
         /\ deferred \cap (closed \cup Hands \cup Queued) = {}
         /\ closed \cap (Hands \cup Queued) = {}
         /\ Hands \cap Queued = {}

\* ... a thread holds its own ...
Hold == /\ \A t, u \in Threads :
              item[t] = item[u] /\ pc[t] # "restart" /\ pc[u] # "restart"
              /\ item[t] # None => t = u
        /\ \A t \in Threads : item[t] # None <=> pc[t] \in Busy

\* ... and it is queued once, in its own queue.
Lines == \A k \in {"normal", "prio"} :
            Distinct(queue[k]) /\ \A c \in Elems(queue[k]) : KindOf(c) = k

\* What main has in hand is one of the events, and of the sockets; only its
\* loop has any.
Main == /\ cur # None <=> mpc \in {"queueing", "erase"}
        /\ cur # None => cur \in (batch \cap sockets) \ polled
        /\ mpc \notin {"poll", "queueing", "erase"} => batch = {}

\* What is polled is listened on, and so are the events to come.
Polls == polled \subseteq Listed /\ batch \ {cur} \subseteq polled

\* A thread that has given a connection back is the only one that will poll it.
Restarts == \A t \in Threads : pc[t] = "restart" =>
    /\ item[t] \in Listed \cup closed
    /\ item[t] \notin polled \cup batch
    /\ \A u \in Threads : pc[u] = "restart" /\ item[u] = item[t] => u = t

Conn == Apart /\ Hold /\ Lines /\ Main /\ Polls /\ Restarts

\* Who runs is on the list.
Listing == \A w \in Workers : pc[w] = "off" <=> w \notin list

\* When there is work, someone will look at the queue again, or nobody sleeps.
Awake(k) == queue[k] # <<>> =>
    \/ \E t \in list \cup {Prio} : QueueOf(t) = k /\ pc[t] \notin {"waiting", "idle"}
    \/ \A t \in list \cup {Prio} : QueueOf(t) = k => pc[t] # "waiting"
Pool == Listing /\ EnoughThreads /\ Awake("normal") /\ Awake("prio")

-----------------------------------------------------------------------------
(* Facts about sequences. *)

LEMMA TailFacts ==
    ASSUME NEW S, NEW s \in Seq(S), s # <<>>, Distinct(s)
    PROVE  /\ Head(s) \in Elems(s) /\ Head(s) \in S /\ Tail(s) \in Seq(S)
           /\ Distinct(Tail(s)) /\ Elems(Tail(s)) = Elems(s) \ {Head(s)}
<1>1. /\ Len(s) \in Nat \ {0} /\ DOMAIN s = 1 .. Len(s)
      /\ Tail(s) \in Seq(S) /\ DOMAIN Tail(s) = 1 .. Len(s) - 1
      /\ \A i \in 1 .. Len(s) - 1 : Tail(s)[i] = s[i + 1]
      /\ Head(s) = s[1]
  OBVIOUS
<1>2. Head(s) \in Elems(s) /\ Head(s) \in S
  BY <1>1 DEF Elems
<1>3. Distinct(Tail(s))
  <2>1. ASSUME NEW i \in 1 .. Len(s) - 1, NEW j \in 1 .. Len(s) - 1,
               Tail(s)[i] = Tail(s)[j]
        PROVE  i = j
    <3>1. i + 1 \in DOMAIN s /\ j + 1 \in DOMAIN s /\ s[i + 1] = s[j + 1]
      BY <1>1, <2>1
    <3>2. i + 1 = j + 1
      BY <3>1 DEF Distinct
    <3>. QED  BY <1>1, <3>2
  <2>. QED  BY <1>1, <2>1 DEF Distinct
<1>4. ASSUME NEW x \in Elems(Tail(s))  PROVE x \in Elems(s) \ {Head(s)}
  <2>1. PICK i \in 1 .. Len(s) - 1 : x = s[i + 1]
    BY <1>1, <1>4 DEF Elems
  <2>2. i + 1 \in DOMAIN s /\ 1 \in DOMAIN s /\ i + 1 # 1
    BY <1>1, <2>1
  <2>3. s[i + 1] # s[1]
    BY <2>2 DEF Distinct
  <2>. QED  BY <1>1, <2>1, <2>2, <2>3 DEF Elems
<1>5. ASSUME NEW x \in Elems(s) \ {Head(s)}  PROVE x \in Elems(Tail(s))
  <2>1. PICK i \in 1 .. Len(s) : x = s[i]
    BY <1>1, <1>5 DEF Elems
  <2>2. i # 1
    BY <1>1, <1>5, <2>1
  <2>3. i - 1 \in 1 .. Len(s) - 1 /\ Tail(s)[i - 1] = s[i]
    BY <1>1, <2>1, <2>2
  <2>. QED  BY <1>1, <2>1, <2>3 DEF Elems
<1>. QED  BY <1>1, <1>2, <1>3, <1>4, <1>5

LEMMA AppendFacts ==
    ASSUME NEW S, NEW s \in Seq(S), NEW c \in S, c \notin Elems(s), Distinct(s)
    PROVE  /\ Append(s, c) \in Seq(S) /\ Distinct(Append(s, c))
           /\ Elems(Append(s, c)) = Elems(s) \cup {c}
<1>. DEFINE a == Append(s, c)
<1>1. /\ Len(s) \in Nat /\ DOMAIN s = 1 .. Len(s)
      /\ a \in Seq(S) /\ DOMAIN a = 1 .. Len(s) + 1 /\ a[Len(s) + 1] = c
      /\ \A i \in 1 .. Len(s) : a[i] = s[i]
  OBVIOUS
<1>. HIDE DEF a
<1>2. \A i \in 1 .. Len(s) + 1 : i \in 1 .. Len(s) \/ i = Len(s) + 1
  BY <1>1
<1>3. Distinct(a)
  BY <1>1, <1>2 DEF Distinct, Elems
<1>4. Elems(a) = Elems(s) \cup {c}
  <2>1. Len(s) + 1 \in DOMAIN a
    BY <1>1
  <2>2. \A i \in 1 .. Len(s) : i \in DOMAIN a
    BY <1>1
  <2>. QED  BY <1>1, <1>2, <2>1, <2>2 DEF Elems
<1>. QED  BY <1>1, <1>3, <1>4 DEF a

LEMMA QueuedIs == ASSUME TypeOK  PROVE InQueue = Queued
<1>1. DOMAIN queue = {"normal", "prio"}
  BY DEF TypeOK
<1>2. InQueue = UNION {Elems(queue[k]) : k \in {"normal", "prio"}}
  BY <1>1 DEF InQueue, Elems
<1>. QED  BY <1>2 DEF Queued

-----------------------------------------------------------------------------
(* Type correctness. *)

LEMMA PcType ==
    ASSUME TypeOK, NEW t \in Threads, NEW l \in Pcs, Goto(t, l)
    PROVE  pc' \in [Threads -> Pcs]
BY DEF TypeOK, Goto

LEMMA RestType ==
    ASSUME TypeOK, NEW t \in Threads, Rest(t)
    PROVE  pc' \in [Threads -> Pcs]
BY DEF TypeOK, Goto, Rest, Pcs

LEMMA TakeType ==
    ASSUME TypeOK, NEW t \in Threads, Take(t)
    PROVE  /\ pc' \in [Threads -> Pcs] /\ item' \in [Threads -> Conns \cup {None}]
           /\ queue' \in [{"normal", "prio"} -> Seq(Conns)]
<1>1. PICK k \in {"normal", "prio"} : k = QueueOf(t)
  BY DEF QueueOf
<1>2. queue[k] \in Seq(Conns) /\ queue[k] # <<>>
  BY <1>1 DEF TypeOK, Take
<1>3. Head(queue[k]) \in Conns /\ Tail(queue[k]) \in Seq(Conns)
  BY <1>2
<1>. QED  BY <1>1, <1>3 DEF TypeOK, Take, Goto, Pcs

LEMMA StartType ==
    ASSUME TypeOK, NEW n, Start(n)
    PROVE  list' \in SUBSET Workers /\ pc' \in [Threads -> Pcs]
BY DEF TypeOK, Start, Pcs

LEMMA InitType == Init => TypeOK
<1>. SUFFICES ASSUME Init  PROVE TypeOK
  OBVIOUS
<1>1. queue \in [{"normal", "prio"} -> Seq(Conns)]
  BY DEF Init
<1>2. 0 \in 0 .. MaxHups
  BY CountAssumption
<1>. QED  BY <1>1, <1>2 DEF Init, TypeOK, Pcs, MainPcs

LEMMA ThreadType ==
    ASSUME TypeOK, Hold, NEW t \in Threads, ThreadStep(t) \/ SpuriousWakeup(t)
    PROVE  TypeOK'
<1>. USE DEF connVars, mainVars, hupVars, TypeOK
<1>0. pc[t] \in {"work", "done", "requeue", "restart"} => item[t] \in Conns
  BY DEF Hold, Busy
<1>1. CASE NextItem(t)
  BY <1>1, TakeType, PcType DEF NextItem, Pcs
<1>2. CASE NotifyIdle(t)
  BY <1>2, PcType DEF NotifyIdle, Pcs
<1>3. CASE WaitItem(t)
  BY <1>3, TakeType, PcType DEF WaitItem, Pcs
<1>4. CASE Wakeup(t)
  BY <1>4, TakeType, PcType DEF Wakeup, Pcs
<1>5. CASE Serve(t)
  <2>1. pc' \in [Threads -> Pcs]
    BY <1>5, PcType DEF Serve, Pcs
  <2>2. item[t] \in Conns
    BY <1>0, <1>5 DEF Serve
  <2>3. pending' \in [Conns -> {"none", "data", "hup"}]
    BY <1>5 DEF Serve
  <2>4. deferred' \in SUBSET Conns /\ closed' \in SUBSET Conns
    BY <1>5, <2>2 DEF Serve, Close
  <2>. QED  BY <1>5, <2>1, <2>2, <2>3, <2>4 DEF Serve, Close
<1>6. CASE NotifyDone(t)
  BY <1>0, <1>6, RestType, PcType DEF NotifyDone, Close, Pcs
<1>7. CASE Requeue(t)
  BY <1>0, <1>7, PcType DEF Requeue, Pcs
<1>8. CASE NotifyRestart(t)
  BY <1>0, <1>8, RestType DEF NotifyRestart
<1>9. CASE SpuriousWakeup(t)
  BY <1>9, PcType DEF SpuriousWakeup, Pcs
<1>. QED  BY <1>1, <1>2, <1>3, <1>4, <1>5, <1>6, <1>7, <1>8, <1>9 DEF ThreadStep

\* Unlike a thread, main has its connection from what it polls.
LEMMA MainType ==
    ASSUME TypeOK, Main, MainStep
    PROVE  TypeOK'
<1>. USE DEF connVars, threadVars, hupVars, Shut, TypeOK, MainPcs
<1>0. cur # None => cur \in Conns
  OBVIOUS
<1>1. CASE EpollWait
  BY <1>1 DEF EpollWait, mainVars
<1>2. CASE QueueItem
  <2>1. cur \in Conns /\ KindOf(cur) \in {"normal", "prio"}
    BY <1>2 DEF QueueItem, Main, KindOf
  <2>2. queue' \in [{"normal", "prio"} -> Seq(Conns)]
    BY <1>2, <2>1 DEF QueueItem
  <2>3. pc' \in [Threads -> Pcs]
    <3>1. Waiting(KindOf(cur)) \subseteq Threads
      BY DEF Waiting, Threads
    <3>. QED  BY <1>2, <3>1, PcType DEF QueueItem, Pcs
  <2>. QED  BY <1>2, <2>2, <2>3 DEF QueueItem
<1>3. CASE EraseSocket
  BY <1>3 DEF EraseSocket
<1>4. ASSUME NEW c \in Conns, HangUp(c) \/ LockItems(c)  PROVE TypeOK'
  BY <1>4 DEF HangUp, LockItems, Close, mainVars
<1>5. CASE DeleteWatchDog
  BY <1>5 DEF DeleteWatchDog
<1>6. CASE SetThreadCount0
  BY <1>6 DEF SetThreadCount0
<1>7. CASE NotifyAll
  BY <1>7 DEF NotifyAll, WakeAll, Pcs
<1>8. CASE JoinThreads
  BY <1>8 DEF JoinThreads
<1>9. CASE EmptyQueues
  <2>1. InQueue \subseteq Conns
    <3>1. \A k \in {"normal", "prio"} : Elems(queue[k]) \subseteq Conns
      BY DEF Elems
    <3>. QED  BY <3>1, QueuedIs DEF Queued
  <2>2. queue' \in [{"normal", "prio"} -> Seq(Conns)]
    BY <1>9 DEF EmptyQueues
  <2>. QED  BY <1>9, <2>1, <2>2 DEF EmptyQueues, Close
<1>10. CASE CloseSockets
  BY <1>10 DEF CloseSockets, Close
<1>. QED
  BY <1>1, <1>2, <1>3, <1>4, <1>5, <1>6, <1>7, <1>8, <1>9, <1>10 DEF MainStep

\* The watchdog and the signals.
Others == GetFrontItemAge \/ ForceAddThread \/ Hup \/ HupStep \/ ShutDown

LEMMA OthersType ==
    ASSUME TypeOK, Others
    PROVE  TypeOK'
<1>. USE DEF connVars, threadVars, mainVars, Shut, hupVars, TypeOK
<1>1. CASE GetFrontItemAge
  BY <1>1 DEF GetFrontItemAge
<1>2. CASE ForceAddThread
  BY <1>2, StartType DEF ForceAddThread
<1>3. CASE Hup
  <2>1. hups' \in 0 .. MaxHups
    BY <1>3, CountAssumption DEF Hup
  <2>. QED  BY <1>3, <2>1, CountAssumption DEF Hup
<1>4. CASE HupCount
  BY <1>4, StartType DEF HupCount
<1>5. CASE HupNotify
  BY <1>5 DEF HupNotify, WakeAll, Pcs
<1>6. CASE ShutDown
  BY <1>6 DEF ShutDown
<1>. QED  BY <1>1, <1>2, <1>3, <1>4, <1>5, <1>6 DEF Others, HupStep

\* The clients and the notification manager.
Outside(c) == Request(c) \/ Disconnect(c) \/ Accept(c) \/ Answer(c)

LEMMA OutsideType ==
    ASSUME TypeOK, NEW c \in Conns, Outside(c)
    PROVE  TypeOK'
<1>. USE DEF connVars, threadVars, mainVars, hupVars, TypeOK
<1>1. CASE Request(c) \/ Disconnect(c)
  BY <1>1 DEF Request, Disconnect
<1>2. CASE Accept(c)
  BY <1>2 DEF Accept
<1>3. CASE Answer(c)
  BY <1>3, PcType DEF Answer, Pcs, Threads
<1>. QED  BY <1>1, <1>2, <1>3 DEF Outside

-----------------------------------------------------------------------------
(* Where a connection is. *)

LEMMA HoldSame ==
    ASSUME Hold, item' = item,
           \A t \in Threads : /\ pc'[t] = "restart" <=> pc[t] = "restart"
                              /\ pc'[t] \in Busy <=> pc[t] \in Busy
    PROVE  Hold' /\ Hands' = Hands
BY DEF Hold, Hands

\* Thread t gets connection c.
LEMMA HoldTake ==
    ASSUME TypeOK, Hold, NEW t \in Threads, NEW c \in Conns, c \notin Hands,
           pc[t] \notin Busy, item' = [item EXCEPT ![t] = c],
           NEW l \in Busy \ {"restart"}, Goto(t, l)
    PROVE  Hold' /\ Hands' = Hands \cup {c}
<1>1. /\ item'[t] = c /\ pc'[t] = l /\ l # "restart" /\ l \in Busy /\ c # None
      /\ item[t] = None
      /\ \A u \in Threads \ {t} : item'[u] = item[u] /\ pc'[u] = pc[u]
  BY ConnAssumption DEF TypeOK, Goto, Hold
<1>2. \A u \in Threads \ {t} : pc[u] # "restart" => item[u] # c
  BY <1>1 DEF Hands
<1>3. Hold'
  BY <1>1, <1>2 DEF Hold
<1>4. Hands' = Hands \cup {c}
  BY <1>1 DEF Hands
<1>. QED  BY <1>3, <1>4

\* Thread t lets go of its connection, or has given it back.
LEMMA HoldDrop ==
    ASSUME TypeOK, Hold, NEW t \in Threads, pc[t] \in Busy \ {"restart"}, NEW l,
           Goto(t, l),
           \/ item' = [item EXCEPT ![t] = None] /\ l \notin Busy
           \/ item' = item /\ l = "restart"
    PROVE  /\ Hold' /\ Hands' = Hands \ {item[t]} /\ item[t] \in Hands
           /\ item[t] \in Conns
<1>1. /\ item[t] # None /\ item[t] \in Conns
      /\ pc'[t] = l
      /\ \A u \in Threads \ {t} : item'[u] = item[u] /\ pc'[u] = pc[u]
      /\ \/ item'[t] = None /\ l \notin Busy
         \/ item'[t] = item[t] /\ l = "restart"
  BY DEF TypeOK, Goto, Hold
<1>2. \A u \in Threads \ {t} : pc[u] # "restart" => item[u] # item[t]
  BY <1>1 DEF Hold
<1>3. "restart" \in Busy
  BY DEF Busy
<1>4. Hold'
  BY <1>1, <1>3 DEF Hold
<1>5. item[t] \in Hands
  BY <1>1 DEF Hands
<1>6. Hands' = Hands \ {item[t]}
  <2>1. ASSUME NEW x \in Hands'  PROVE x \in Hands \ {item[t]}
    <3>1. PICK u \in Threads : pc'[u] # "restart" /\ x = item'[u] /\ x # None
      BY DEF Hands
    <3>2. u # t
      BY <1>1, <3>1
    <3>. QED  BY <1>1, <1>2, <3>1, <3>2 DEF Hands
  <2>2. ASSUME NEW x \in Hands \ {item[t]}  PROVE x \in Hands'
    <3>1. PICK u \in Threads : pc[u] # "restart" /\ x = item[u] /\ x # None
      BY DEF Hands
    <3>2. u # t
      BY <2>2, <3>1
    <3>. QED  BY <1>1, <3>1, <3>2 DEF Hands
  <2>. QED  BY <2>1, <2>2
<1>. QED  BY <1>1, <1>4, <1>5, <1>6

\* A thread that gave its connection back is done with it.
LEMMA HoldRest ==
    ASSUME TypeOK, Hold, NEW t \in Threads, pc[t] = "restart", NEW l,
           Goto(t, l), item' = [item EXCEPT ![t] = None], l \notin Busy
    PROVE  Hold' /\ Hands' = Hands
<1>1. /\ pc'[t] = l /\ item'[t] = None /\ l # "restart"
      /\ \A u \in Threads \ {t} : item'[u] = item[u] /\ pc'[u] = pc[u]
  BY DEF TypeOK, Goto, Busy
<1>2. Hold'
  BY <1>1 DEF Hold
<1>3. Hands' = Hands
  BY <1>1 DEF Hands
<1>. QED  BY <1>2, <1>3

\* The queue of a thread loses its first, which the thread gets.
LEMMA LinesTake ==
    ASSUME TypeOK, Lines, NEW t \in Threads, Take(t)
    PROVE  /\ Lines' /\ Head(queue[QueueOf(t)]) \in Queued \cap Conns
           /\ Queued' = Queued \ {Head(queue[QueueOf(t)])}
<1>1. PICK k \in {"normal", "prio"} : k = QueueOf(t)
  BY DEF QueueOf
<1>. DEFINE h == Head(queue[k])
<1>2. /\ queue[k] \in Seq(Conns) /\ queue[k] # <<>> /\ Distinct(queue[k])
      /\ queue' = [queue EXCEPT ![k] = Tail(queue[k])]
  BY <1>1 DEF TypeOK, Take, Lines
<1>3. /\ h \in Elems(queue[k]) /\ h \in Conns /\ Distinct(Tail(queue[k]))
      /\ Elems(Tail(queue[k])) = Elems(queue[k]) \ {h}
  BY <1>2, TailFacts
<1>. HIDE DEF h
<1>4. /\ queue'[k] = Tail(queue[k])
      /\ \A j \in {"normal", "prio"} \ {k} : queue'[j] = queue[j]
  BY <1>2 DEF TypeOK
<1>5. \A j \in {"normal", "prio"} \ {k} : h \notin Elems(queue[j])
  BY <1>3 DEF Lines
<1>6. Lines'
  <2>1. \A c : KindOf(c)' = KindOf(c)
    BY DEF KindOf
  <2>2. \A j \in {"normal", "prio"} : Distinct(queue'[j])
    BY <1>3, <1>4 DEF Lines
  <2>3. \A j \in {"normal", "prio"} : \A c \in Elems(queue'[j]) : KindOf(c) = j
    BY <1>3, <1>4 DEF Lines
  <2>. QED  BY <2>1, <2>2, <2>3 DEF Lines
<1>7. Queued' = Queued \ {h}
  <2>1. \A j \in {"normal", "prio"} : Elems(queue'[j]) = Elems(queue[j]) \ {h}
    BY <1>3, <1>4, <1>5
  <2>2. Queued' = Elems(queue'["normal"]) \cup Elems(queue'["prio"])
    BY DEF Queued, Elems
  <2>. QED  BY <2>1, <2>2 DEF Queued
<1>8. h \in Queued
  BY <1>1, <1>3 DEF Queued
<1>. QED  BY <1>1, <1>3, <1>6, <1>7, <1>8 DEF h

-----------------------------------------------------------------------------
(* Steps and the connections. *)

\* A step that moves no connection.
LEMMA ConnFrame ==
    ASSUME Conn, Main',
           UNCHANGED <<accepted, closed, sockets, polled, batch, deferred, queue,
                       item, cur>>,
           mpc' = "erase" <=> mpc = "erase",
           \A t \in Threads : /\ pc'[t] = "restart" <=> pc[t] = "restart"
                              /\ pc'[t] \in Busy <=> pc[t] \in Busy
    PROVE  Conn'
<1>1. Hold' /\ Hands' = Hands
  BY HoldSame DEF Conn
<1>2. Listed' = Listed /\ Queued' = Queued
  BY DEF Listed, Queued
<1>3. Lines'
  BY DEF Conn, Lines
<1>4. Apart' /\ Polls'
  BY <1>1, <1>2 DEF Conn, Apart, Polls
<1>5. Restarts'
  BY <1>2 DEF Conn, Restarts
<1>. QED  BY <1>1, <1>3, <1>4, <1>5 DEF Conn

LEMMA MainKept ==
    ASSUME Main, UNCHANGED <<cur, mpc>>, batch \subseteq batch', sockets \subseteq sockets',
           batch = {} => batch' = {}, cur # None => cur \notin polled' \ polled
    PROVE  Main'
BY DEF Main

\* No one gives a connection back, and those given back stay where they are.
LEMMA RestartsKept ==
    ASSUME Restarts, polled' \cup batch' \subseteq polled \cup batch,
           \A t \in Threads : pc'[t] = "restart" =>
              /\ pc[t] = "restart" /\ item'[t] = item[t]
              /\ item[t] \in Listed' \cup closed'
    PROVE  Restarts'
BY DEF Restarts

LEMMA TakeConn ==
    ASSUME TypeOK, Conn, NEW t \in Threads, Take(t), pc[t] \notin Busy,
           UNCHANGED <<accepted, closed, sockets, polled, batch, deferred, mpc, cur>>
    PROVE  Conn'
<1>. DEFINE h == Head(queue[QueueOf(t)])
<1>1. /\ Lines' /\ h \in Queued /\ h \in Conns /\ Queued' = Queued \ {h}
  BY LinesTake DEF Conn
<1>2. /\ item' = [item EXCEPT ![t] = h] /\ Goto(t, "work")
  BY DEF Take
<1>. HIDE DEF h
<1>3. h \notin Hands
  BY <1>1 DEF Conn, Apart
<1>4. Hold' /\ Hands' = Hands \cup {h}
  BY <1>1, <1>2, <1>3, HoldTake DEF Conn, Busy
<1>5. Listed' = Listed
  BY DEF Listed
<1>6. Apart'
  BY <1>1, <1>4, <1>5 DEF Conn, Apart
<1>7. Main' /\ Polls'
  BY <1>5 DEF Conn, Main, Polls
<1>8. Restarts'
  <2>1. \A u \in Threads : pc'[u] = "restart" =>
           pc[u] = "restart" /\ item'[u] = item[u]
    BY <1>2 DEF Goto, TypeOK
  <2>. QED  BY <1>5, <2>1, RestartsKept DEF Conn, Restarts
<1>. QED  BY <1>1, <1>4, <1>6, <1>7, <1>8 DEF Conn

\* A thread that neither has nor gets a connection.
LEMMA GotoConn ==
    ASSUME TypeOK, Conn, NEW t \in Threads, NEW l, pc[t] \notin Busy, l \notin Busy,
           Goto(t, l),
           UNCHANGED <<accepted, closed, sockets, polled, batch, deferred, queue,
                       item, mpc, cur>>
    PROVE  Conn'
<1>1. \A u \in Threads : /\ pc'[u] = "restart" <=> pc[u] = "restart"
                         /\ pc'[u] \in Busy <=> pc[u] \in Busy
  BY DEF Goto, TypeOK, Busy
<1>2. Main'
  BY MainKept DEF Conn
<1>. QED  BY <1>1, <1>2, ConnFrame

LEMMA ServeConn ==
    ASSUME TypeOK, Conn, NEW t \in Threads, Serve(t)
    PROVE  Conn'
<1>. USE DEF mainVars
<1>1. pc[t] = "work" /\ pc[t] \in Busy \ {"restart"}
      /\ UNCHANGED <<accepted, sockets, batch, queue, mpc, cur>>
  BY DEF Serve, Busy
<1>2. CASE Goto(t, "done") /\ UNCHANGED <<item, deferred, closed, polled>>
  <2>1. \A u \in Threads : /\ pc'[u] = "restart" <=> pc[u] = "restart"
                           /\ pc'[u] \in Busy <=> pc[u] \in Busy
    BY <1>1, <1>2 DEF Goto, TypeOK, Busy
  <2>. QED  BY <1>1, <1>2, <2>1, MainKept, ConnFrame DEF Conn
<1>3. CASE /\ Goto(t, "next") /\ item' = [item EXCEPT ![t] = None]
           /\ \/ deferred' = deferred \cup {item[t]} /\ UNCHANGED <<closed, polled>>
              \/ Close({item[t]}) /\ UNCHANGED deferred
  <2>0. "next" \notin Busy
    BY DEF Busy
  <2>1. /\ Hold' /\ Hands' = Hands \ {item[t]} /\ item[t] \in Hands
    BY <1>1, <1>3, <2>0, HoldDrop DEF Conn
  <2>2. Listed' = Listed /\ Queued' = Queued /\ Lines'
    BY <1>1 DEF Listed, Queued, Conn, Lines
  <2>3. polled' = polled /\ Main'
    BY <1>1, <1>3, <2>1 DEF Close, Conn, Polls, Apart, Main
  <2>4. Apart'
    BY <1>1, <1>3, <2>1, <2>2 DEF Conn, Apart, Close
  <2>5. Polls'
    BY <1>1, <2>2, <2>3 DEF Conn, Polls
  <2>6. Restarts'
    <3>1. \A u \in Threads : pc'[u] = "restart" =>
             pc[u] = "restart" /\ item'[u] = item[u]
      BY <1>1, <1>3 DEF Goto, TypeOK
    <3>2. closed \subseteq closed'
      BY <1>3 DEF Close
    <3>. QED  BY <1>1, <2>2, <2>3, <3>1, <3>2, RestartsKept DEF Conn, Restarts
  <2>. QED  BY <2>1, <2>2, <2>3, <2>4, <2>5, <2>6 DEF Conn
<1>. QED  BY <1>2, <1>3 DEF Serve

LEMMA RestIsFree ==
    ASSUME NEW t, Rest(t)
    PROVE  \E l \in {"off", "next"} : Goto(t, l) /\ l \notin Busy
BY DEF Rest, Busy

LEMMA DoneConn ==
    ASSUME TypeOK, Conn, NEW t \in Threads, NotifyDone(t)
    PROVE  Conn'
<1>. USE DEF mainVars
<1>1. pc[t] = "done" /\ pc[t] \in Busy \ {"restart"}
      /\ UNCHANGED <<accepted, sockets, batch, queue, deferred, mpc, cur>>
  BY DEF NotifyDone, Busy
<1>2. CASE Goto(t, "requeue") /\ UNCHANGED <<item, closed, polled>>
  <2>1. \A u \in Threads : /\ pc'[u] = "restart" <=> pc[u] = "restart"
                           /\ pc'[u] \in Busy <=> pc[u] \in Busy
    BY <1>1, <1>2 DEF Goto, TypeOK, Busy
  <2>. QED  BY <1>1, <1>2, <2>1, MainKept, ConnFrame DEF Conn
<1>3. CASE Close({item[t]}) /\ item' = [item EXCEPT ![t] = None] /\ Rest(t)
  <2>0. PICK l \in {"off", "next"} : Goto(t, l) /\ l \notin Busy
    BY <1>3, RestIsFree
  <2>1. /\ Hold' /\ Hands' = Hands \ {item[t]} /\ item[t] \in Hands
    BY <1>1, <1>3, <2>0, HoldDrop DEF Conn
  <2>2. Listed' = Listed /\ Queued' = Queued /\ Lines'
    BY <1>1 DEF Listed, Queued, Conn, Lines
  <2>3. polled' = polled /\ Main'
    BY <1>1, <1>3, <2>1 DEF Close, Conn, Polls, Apart, Main
  <2>4. Apart'
    BY <1>1, <1>3, <2>1, <2>2 DEF Conn, Apart, Close
  <2>5. Polls'
    BY <1>1, <2>2, <2>3 DEF Conn, Polls
  <2>6. Restarts'
    <3>1. \A u \in Threads : pc'[u] = "restart" =>
             pc[u] = "restart" /\ item'[u] = item[u]
      BY <1>1, <1>3, <2>0 DEF Goto, TypeOK
    <3>2. closed \subseteq closed'
      BY <1>3 DEF Close
    <3>. QED  BY <1>1, <2>2, <2>3, <3>1, <3>2, RestartsKept DEF Conn, Restarts
  <2>. QED  BY <2>1, <2>2, <2>3, <2>4, <2>5, <2>6 DEF Conn
<1>. QED  BY <1>2, <1>3 DEF NotifyDone

\* The mutex of the sockets keeps main from erasing what is given back.
LEMMA RequeueConn ==
    ASSUME TypeOK, Conn, NEW t \in Threads, Requeue(t)
    PROVE  Conn'
<1>. USE DEF mainVars
<1>1. /\ pc[t] \in Busy \ {"restart"} /\ Goto(t, "restart") /\ batch = {}
      /\ sockets' = sockets \cup {item[t]}
      /\ UNCHANGED <<accepted, closed, polled, batch, deferred, queue, item, mpc, cur>>
  BY DEF Requeue, Handling, Busy
<1>2. mpc # "erase"
  BY <1>1 DEF Conn, Main
<1>3. /\ Hold' /\ Hands' = Hands \ {item[t]} /\ item[t] \in Hands
  BY <1>1, HoldDrop DEF Conn
<1>4. /\ Listed' = Listed \cup {item[t]} /\ Queued' = Queued /\ Lines' /\ Main'
  BY <1>1, <1>2, MainKept DEF Listed, Queued, Conn, Lines
<1>5. Apart'
  BY <1>1, <1>3, <1>4 DEF Conn, Apart
<1>6. Polls'
  BY <1>1, <1>4 DEF Conn, Polls
<1>7. Restarts'
  <2>1. pc'[t] = "restart" /\ \A u \in Threads \ {t} : pc'[u] = pc[u]
    BY <1>1 DEF Goto, TypeOK
  <2>2. \A u \in Threads : pc[u] = "restart" => item[u] # item[t]
    BY <1>3 DEF Conn, Restarts, Apart
  <2>3. item[t] \notin polled
    BY <1>3 DEF Conn, Polls, Apart
  <2>. QED  BY <1>1, <1>4, <2>1, <2>2, <2>3 DEF Conn, Restarts
<1>. QED  BY <1>3, <1>4, <1>5, <1>6, <1>7 DEF Conn

LEMMA RestartConn ==
    ASSUME TypeOK, Conn, NEW t \in Threads, NotifyRestart(t)
    PROVE  Conn'
<1>. USE DEF mainVars
<1>1. /\ pc[t] = "restart" /\ item' = [item EXCEPT ![t] = None]
      /\ polled' = IF item[t] \in closed THEN polled ELSE polled \cup {item[t]}
      /\ UNCHANGED <<accepted, closed, sockets, batch, deferred, queue, mpc, cur>>
  BY DEF NotifyRestart
<1>2. PICK l \in {"off", "next"} : Goto(t, l) /\ l \notin Busy
  BY RestIsFree DEF NotifyRestart
<1>3. Hold' /\ Hands' = Hands
  BY <1>1, <1>2, HoldRest DEF Conn
<1>4. /\ Listed' = Listed /\ Queued' = Queued /\ Lines'
  BY <1>1 DEF Listed, Queued, Conn, Lines
<1>m. Main'
  BY <1>1 DEF Conn, Main, Restarts
<1>5. Apart'
  BY <1>1, <1>3, <1>4 DEF Conn, Apart
<1>6. Polls'
  <2>1. item[t] \in Listed \cup closed /\ item[t] \notin batch
    BY <1>1 DEF Conn, Restarts
  <2>. QED  BY <1>1, <1>4, <2>1 DEF Conn, Polls
<1>7. Restarts'
  <2>1. \A u \in Threads : pc'[u] = "restart" =>
           u # t /\ pc[u] = "restart" /\ item'[u] = item[u]
    BY <1>1, <1>2 DEF Goto, TypeOK
  <2>2. \A u \in Threads \ {t} : pc[u] = "restart" => item[u] # item[t]
    BY <1>1 DEF Conn, Restarts
  <2>. QED  BY <1>1, <1>4, <2>1, <2>2 DEF Conn, Restarts
<1>. QED  BY <1>3, <1>4, <1>m, <1>5, <1>6, <1>7 DEF Conn

LEMMA ThreadConn ==
    ASSUME TypeOK, Conn, NEW t \in Threads, ThreadStep(t) \/ SpuriousWakeup(t)
    PROVE  Conn'
<1>. USE DEF connVars, mainVars
<1>1. CASE NextItem(t) \/ NotifyIdle(t) \/ WaitItem(t) \/ Wakeup(t) \/ SpuriousWakeup(t)
  <2>1. pc[t] \notin Busy
    BY <1>1 DEF NextItem, NotifyIdle, WaitItem, Wakeup, SpuriousWakeup, Busy
  <2>2. UNCHANGED <<accepted, closed, sockets, polled, batch, deferred, mpc, cur>>
    BY <1>1 DEF NextItem, NotifyIdle, WaitItem, Wakeup, SpuriousWakeup
  <2>3. Take(t) \/ (UNCHANGED <<queue, item>> /\
                      \E l \in {"off", "next", "idle", "wait", "waiting", "woken"} : Goto(t, l))
    BY <1>1 DEF NextItem, NotifyIdle, WaitItem, Wakeup, SpuriousWakeup
  <2>4. \A l \in {"off", "next", "idle", "wait", "waiting", "woken"} : l \notin Busy
    BY DEF Busy
  <2>. QED  BY <2>1, <2>2, <2>3, <2>4, TakeConn, GotoConn
<1>. QED
  BY <1>1, ServeConn, DoneConn, RequeueConn, RestartConn DEF ThreadStep

LEMMA OutsideConn ==
    ASSUME TypeOK, Conn, NEW c \in Conns, Outside(c)
    PROVE  Conn'
<1>. USE DEF threadVars, mainVars
<1>1. CASE Request(c) \/ Disconnect(c)
  <2>1. UNCHANGED <<accepted, closed, sockets, polled, batch, deferred, queue,
                    item, cur, mpc, pc>>
    BY <1>1 DEF Request, Disconnect
  <2>. QED  BY <2>1, MainKept, ConnFrame DEF Conn
<1>2. CASE Accept(c)
  <2>1. /\ c \notin accepted /\ accepted' = accepted \cup {c} /\ mpc = "poll"
        /\ sockets' = sockets \cup {c} /\ polled' = polled \cup {c}
        /\ UNCHANGED <<closed, batch, queue, deferred, pc, item, mpc, cur>>
    BY <1>2 DEF Accept, InLoop
  <2>2. Hold' /\ Hands' = Hands
    BY <2>1, HoldSame DEF Conn
  <2>3. Listed' = Listed \cup {c} /\ Queued' = Queued /\ Lines'
    BY <2>1 DEF Listed, Queued, Conn, Lines
  <2>4. Apart'
    BY <2>1, <2>2, <2>3 DEF Conn, Apart
  <2>5. Polls' /\ Main'
    BY <2>1, <2>3 DEF Conn, Polls, Main
  <2>6. Restarts'
    <3>1. \A t \in Threads : pc[t] = "restart" => item[t] # c
      BY <2>1 DEF Conn, Restarts, Apart
    <3>. QED  BY <2>1, <2>3, <3>1 DEF Conn, Restarts
  <2>. QED  BY <2>2, <2>3, <2>4, <2>5, <2>6 DEF Conn
<1>3. CASE Answer(c)
  <2>1. /\ Notifier \in Threads /\ pc[Notifier] \notin Busy /\ c \in deferred
        /\ deferred' = deferred \ {c} /\ item' = [item EXCEPT ![Notifier] = c]
        /\ Goto(Notifier, "done") /\ "done" \in Busy \ {"restart"}
        /\ UNCHANGED <<accepted, closed, sockets, polled, batch, queue, mpc, cur>>
    BY <1>3 DEF Answer, Threads, Busy
  <2>2. c \notin Hands
    BY <2>1 DEF Conn, Apart
  <2>3. Hold' /\ Hands' = Hands \cup {c}
    BY <2>1, <2>2, HoldTake DEF Conn
  <2>4. Listed' = Listed /\ Queued' = Queued /\ Lines' /\ Main'
    BY <2>1, MainKept DEF Listed, Queued, Conn, Lines
  <2>5. Apart'
    BY <2>1, <2>3, <2>4 DEF Conn, Apart
  <2>6. Polls'
    BY <2>1, <2>4 DEF Conn, Polls
  <2>7. Restarts'
    <3>1. \A u \in Threads : pc'[u] = "restart" =>
             pc[u] = "restart" /\ item'[u] = item[u]
      BY <2>1 DEF Goto, TypeOK
    <3>. QED  BY <2>1, <2>4, <3>1, RestartsKept DEF Conn, Restarts
  <2>. QED  BY <2>3, <2>4, <2>5, <2>6, <2>7 DEF Conn
<1>. QED  BY <1>1, <1>2, <1>3 DEF Outside

\* New threads and wakeups have no connection in hand.
LEMMA IdlePcs ==
    ASSUME TypeOK, Listing,
           (\E n : Start(n)) \/ (\E K : WakeAll(K)) \/ UNCHANGED <<pc, list>>
    PROVE  \A t \in Threads : /\ pc'[t] = "restart" <=> pc[t] = "restart"
                              /\ pc'[t] \in Busy <=> pc[t] \in Busy
<1>1. CASE UNCHANGED <<pc, list>>
  BY <1>1
<1>2. ASSUME NEW n, Start(n), NEW t \in Threads
      PROVE  pc'[t] = pc[t] \/ (pc[t] = "off" /\ pc'[t] = "next")
  BY <1>2 DEF Start, Listing
<1>3. ASSUME NEW K, WakeAll(K), NEW t \in Threads
      PROVE  pc'[t] = pc[t] \/ (pc[t] = "waiting" /\ pc'[t] = "woken")
  BY <1>3 DEF WakeAll
<1>. QED  BY <1>1, <1>2, <1>3 DEF Busy

LEMMA OthersConn ==
    ASSUME TypeOK, Conn, Listing, Others
    PROVE  Conn'
<1>. USE DEF connVars, threadVars, mainVars, hupVars, Shut
<1>1. /\ UNCHANGED <<accepted, closed, sockets, polled, batch, deferred, queue,
                     item, cur, mpc>>
      /\ (\E n : Start(n)) \/ (\E K : WakeAll(K)) \/ UNCHANGED <<pc, list>>
  BY DEF Others, GetFrontItemAge, ForceAddThread, Hup, HupStep, HupCount,
         HupNotify, ShutDown
<1>. QED  BY <1>1, IdlePcs, MainKept, ConnFrame DEF Conn

\* Main puts the connection it has in hand at the end of its queue.
LEMMA LinesAppend ==
    ASSUME TypeOK, Conn, QueueItem
    PROVE  Lines' /\ Queued' = Queued \cup {cur}
<1>1. /\ mpc = "queueing"
      /\ queue' = [queue EXCEPT ![KindOf(cur)] = Append(queue[KindOf(cur)], cur)]
  BY DEF QueueItem
<1>2. PICK k \in {"normal", "prio"} : k = KindOf(cur)
  BY DEF KindOf
<1>3. cur \in Conns /\ cur \notin Queued
  BY <1>1 DEF Conn, Main, Listed, Apart, TypeOK
<1>4. /\ queue'[k] = Append(queue[k], cur)
      /\ \A j \in {"normal", "prio"} \ {k} : queue'[j] = queue[j]
  BY <1>1, <1>2 DEF TypeOK
<1>5. cur \notin Elems(queue[k]) /\ queue[k] \in Seq(Conns) /\ Distinct(queue[k])
  BY <1>2, <1>3 DEF Queued, Conn, Lines, TypeOK
<1>6. Distinct(queue'[k]) /\ Elems(queue'[k]) = Elems(queue[k]) \cup {cur}
  BY <1>3, <1>4, <1>5, AppendFacts
<1>7. Lines'
  <2>1. \A c : KindOf(c)' = KindOf(c)
    BY DEF KindOf
  <2>. QED  BY <1>2, <1>4, <1>6, <2>1 DEF Conn, Lines
<1>8. Queued' = Queued \cup {cur}
  <2>1. Queued' = Elems(queue'["normal"]) \cup Elems(queue'["prio"])
    BY DEF Queued, Elems
  <2>. QED  BY <1>2, <1>4, <1>6, <2>1 DEF Queued
<1>. QED  BY <1>7, <1>8

LEMMA MainConn ==
    ASSUME TypeOK, Conn, Listing, MainStep
    PROVE  Conn'
<1>. USE DEF connVars, threadVars, hupVars, Shut
<1>1. CASE EpollWait
  <2>1. /\ mpc = "poll" /\ batch' \subseteq polled
        /\ UNCHANGED <<accepted, closed, sockets, polled, queue, deferred, pc,
                       item, mpc, cur>>
    BY <1>1 DEF EpollWait, InLoop, mainVars
  <2>2. Hold' /\ Hands' = Hands
    BY <2>1, HoldSame DEF Conn
  <2>3. Listed' = Listed /\ Queued' = Queued /\ Lines'
    BY <2>1 DEF Listed, Queued, Conn, Lines
  <2>4. Apart' /\ Main' /\ Polls'
    BY <2>1, <2>2, <2>3 DEF Conn, Apart, Main, Polls
  <2>5. Restarts'
    BY <2>1, <2>3 DEF Conn, Restarts
  <2>. QED  BY <2>2, <2>3, <2>4, <2>5 DEF Conn
<1>2. ASSUME NEW c \in Conns, HangUp(c)  PROVE Conn'
  <2>1. /\ mpc = "poll" /\ c \in batch /\ sockets' = sockets \ {c}
        /\ closed' = closed \cup {c} /\ polled' = polled \ {c} /\ batch' = batch \ {c}
        /\ UNCHANGED <<accepted, queue, deferred, pc, item, mpc, cur>>
    BY <1>2 DEF HangUp, InLoop, Close, mainVars
  <2>2. Hold' /\ Hands' = Hands
    BY <2>1, HoldSame DEF Conn
  <2>3. Listed' = Listed \ {c} /\ Queued' = Queued /\ Lines'
    BY <2>1 DEF Listed, Queued, Conn, Lines
  <2>4. cur = None /\ c \in polled /\ c \in Listed
    BY <2>1, ConnAssumption DEF Conn, Main, Polls
  <2>5. Apart' /\ Main' /\ Polls'
    BY <2>1, <2>2, <2>3, <2>4 DEF Conn, Apart, Main, Polls
  <2>6. Restarts'
    BY <2>1, <2>3, RestartsKept DEF Conn, Restarts
  <2>. QED  BY <2>2, <2>3, <2>5, <2>6 DEF Conn
<1>3. ASSUME NEW c \in Conns, LockItems(c)  PROVE Conn'
  <2>1. /\ mpc = "poll" /\ c \in batch /\ polled' = polled \ {c}
        /\ mpc' = "queueing" /\ cur' = c /\ c # None
        /\ UNCHANGED <<accepted, closed, sockets, batch, queue, deferred, pc, item>>
    BY <1>3, ConnAssumption DEF LockItems, InLoop
  <2>2. Hold' /\ Hands' = Hands
    BY <2>1, HoldSame DEF Conn
  <2>3. Listed' = Listed /\ Listed = sockets /\ Queued' = Queued /\ Lines'
    BY <2>1 DEF Listed, Queued, Conn, Lines
  <2>4. cur = None /\ c \in polled /\ c \in Listed
    BY <2>1, ConnAssumption DEF Conn, Main, Polls
  <2>5. Apart'
    BY <2>1, <2>2, <2>3 DEF Conn, Apart
  <2>6. Main'
    BY <2>1, <2>3, <2>4 DEF Conn, Main
  <2>7. Polls'
    <3>1. polled' \subseteq Listed'
      BY <2>1, <2>3 DEF Conn, Polls
    <3>2. None \notin batch
      BY ConnAssumption DEF TypeOK
    <3>3. batch \subseteq polled
      BY <2>4, <3>2 DEF Conn, Polls
    <3>4. batch' \ {cur'} \subseteq polled'
      BY <2>1, <3>3
    <3>. QED  BY <3>1, <3>4 DEF Polls
  <2>8. Restarts'
    BY <2>1, <2>3, RestartsKept DEF Conn, Restarts
  <2>. QED  BY <2>2, <2>3, <2>5, <2>6, <2>7, <2>8 DEF Conn
<1>4. CASE QueueItem
  <2>1. /\ mpc = "queueing" /\ mpc' = "erase"
        /\ queue' = [queue EXCEPT ![KindOf(cur)] = Append(queue[KindOf(cur)], cur)]
        /\ UNCHANGED <<accepted, closed, sockets, polled, batch, deferred, item, cur>>
    BY <1>4 DEF QueueItem
  <2>3. cur # None /\ cur \in Conns /\ cur \in Listed /\ cur \in batch /\ Listed = sockets
    BY <2>1 DEF Conn, Main, Listed, TypeOK
  <2>8. Lines' /\ Queued' = Queued \cup {cur}
    BY <1>4, LinesAppend
  <2>10. \A t \in Threads : /\ pc'[t] = "restart" <=> pc[t] = "restart"
                            /\ pc'[t] \in Busy <=> pc[t] \in Busy
    BY <1>4 DEF QueueItem, Waiting, Goto, TypeOK, Busy
  <2>11. Hold' /\ Hands' = Hands
    BY <2>1, <2>10, HoldSame DEF Conn
  <2>12. Listed' = Listed \ {cur}
    BY <2>1, <2>3 DEF Listed
  <2>13. Apart'
    BY <2>1, <2>3, <2>8, <2>11, <2>12 DEF Conn, Apart
  <2>14. Main' /\ Polls'
    <3>1. cur \notin polled
      BY <2>1, <2>3 DEF Conn, Main, Polls
    <3>. QED  BY <2>1, <2>3, <2>12, <3>1 DEF Conn, Main, Polls
  <2>15. Restarts'
    <3>1. \A t \in Threads : pc[t] = "restart" => item[t] # cur
      BY <2>3 DEF Conn, Restarts
    <3>. QED  BY <2>1, <2>10, <2>12, <3>1, RestartsKept DEF Conn, Restarts
  <2>. QED  BY <2>8, <2>11, <2>13, <2>14, <2>15 DEF Conn
<1>5. CASE EraseSocket
  <2>1. /\ mpc = "erase" /\ mpc' = "poll" /\ cur' = None
        /\ sockets' = sockets \ {cur} /\ batch' = batch \ {cur}
        /\ UNCHANGED <<accepted, closed, polled, queue, deferred, pc, item>>
    BY <1>5 DEF EraseSocket
  <2>2. Hold' /\ Hands' = Hands
    BY <2>1, HoldSame DEF Conn
  <2>3. Listed' = Listed /\ Queued' = Queued /\ Lines'
    BY <2>1 DEF Listed, Queued, Conn, Lines
  <2>4. Apart' /\ Main' /\ Polls'
    BY <2>1, <2>2, <2>3 DEF Conn, Apart, Main, Polls
  <2>5. Restarts'
    BY <2>1, <2>3, RestartsKept DEF Conn, Restarts
  <2>. QED  BY <2>2, <2>3, <2>4, <2>5 DEF Conn
<1>6. CASE DeleteWatchDog \/ SetThreadCount0 \/ NotifyAll \/ JoinThreads
  <2>1. /\ UNCHANGED <<accepted, closed, sockets, polled, batch, deferred, queue,
                       item, cur>>
        /\ mpc \notin {"queueing", "erase"} /\ mpc' \notin {"queueing", "erase"}
        /\ (\E K : WakeAll(K)) \/ UNCHANGED <<pc, list>>
    BY <1>6 DEF DeleteWatchDog, SetThreadCount0, NotifyAll, JoinThreads, InLoop
  <2>2. batch = {}
    BY <1>6 DEF DeleteWatchDog, SetThreadCount0, NotifyAll, JoinThreads, InLoop,
                Handling, Conn, Main
  <2>3. Main'
    BY <2>1, <2>2 DEF Conn, Main
  <2>. QED  BY <2>1, <2>3, IdlePcs, ConnFrame
<1>7. CASE EmptyQueues
  <2>1. /\ mpc = "empty" /\ mpc' = "close" /\ queue' = [k \in DOMAIN queue |-> <<>>]
        /\ closed' = closed \cup Queued /\ polled' = polled \ Queued
        /\ UNCHANGED <<accepted, sockets, batch, deferred, pc, item, cur>>
    BY <1>7, QueuedIs DEF EmptyQueues, Close
  <2>2. Hold' /\ Hands' = Hands
    BY <2>1, HoldSame DEF Conn
  <2>3. \A k \in {"normal", "prio"} : queue'[k] = <<>> /\ Elems(queue'[k]) = {}
    BY <2>1 DEF TypeOK, Elems
  <2>4. Lines' /\ Queued' = {}
    <3>1. Queued' = Elems(queue'["normal"]) \cup Elems(queue'["prio"])
      BY DEF Queued, Elems
    <3>. QED  BY <2>3, <3>1 DEF Lines, Distinct
  <2>5. Listed' = Listed
    BY <2>1 DEF Listed
  <2>6. Apart' /\ Main'
    BY <2>1, <2>2, <2>4, <2>5 DEF Conn, Apart, Main
  <2>7. polled' = polled
    BY <2>1 DEF Conn, Polls, Apart
  <2>8. Polls'
    BY <2>1, <2>5, <2>7 DEF Conn, Polls
  <2>9. Restarts'
    BY <2>1, <2>5, <2>7, RestartsKept DEF Conn, Restarts
  <2>. QED  BY <2>2, <2>4, <2>6, <2>8, <2>9 DEF Conn
<1>8. CASE CloseSockets
  <2>1. /\ mpc = "close" /\ mpc' = "exit" /\ sockets' = {}
        /\ closed' = closed \cup sockets /\ polled' = polled \ sockets
        /\ UNCHANGED <<accepted, batch, deferred, queue, pc, item, cur>>
    BY <1>8 DEF CloseSockets, Close
  <2>2. Hold' /\ Hands' = Hands
    BY <2>1, HoldSame DEF Conn
  <2>3. Listed = sockets /\ Listed' = {} /\ Queued' = Queued /\ Lines'
    BY <2>1 DEF Listed, Queued, Conn, Lines
  <2>4. polled' = {} /\ batch = {} /\ cur = None
    BY <2>1, <2>3 DEF Conn, Polls, Main
  <2>5. Apart' /\ Main' /\ Polls'
    BY <2>1, <2>2, <2>3, <2>4 DEF Conn, Apart, Main, Polls
  <2>6. Restarts'
    BY <2>1, <2>3, <2>4, RestartsKept DEF Conn, Restarts
  <2>. QED  BY <2>2, <2>3, <2>5, <2>6 DEF Conn
<1>. QED
  BY <1>1, <1>2, <1>3, <1>4, <1>5, <1>6, <1>7, <1>8 DEF MainStep

-----------------------------------------------------------------------------
(* The threads. *)

LEMMA ListSize ==
    ASSUME TypeOK
    PROVE  /\ IsFiniteSet(list) /\ Cardinality(list) \in Nat
           /\ target \in Nat /\ threads \in Nat
<1>1. IsFiniteSet(Workers) /\ list \in SUBSET Workers
  BY ThreadAssumption DEF TypeOK
<1>2. Counts \subseteq Nat
  <2>1. Cardinality(Workers) \in Nat
    BY <1>1, FS_CardinalityType
  <2>. QED  BY <2>1, CountAssumption
<1>. QED  BY <1>1, <1>2, FS_Subset, FS_CardinalityType DEF TypeOK

\* What keeps a queue looked at: threads that are up stay up and on the list,
\* and nobody goes to sleep.
LEMMA AwakeKept ==
    ASSUME NEW k, Awake(k), queue'[k] # <<>> => queue[k] # <<>>,
           \A t \in list \cup {Prio} : QueueOf(t) = k /\ pc[t] \notin {"waiting", "idle"} =>
              t \in list' \cup {Prio} /\ pc'[t] \notin {"waiting", "idle"},
           \A t \in list' \cup {Prio} : QueueOf(t) = k /\ pc'[t] = "waiting" =>
              t \in list \cup {Prio} /\ pc[t] = "waiting"
    PROVE  Awake(k)'
<1>1. \A t : QueueOf(t)' = QueueOf(t)
  BY DEF QueueOf
<1>. QED  BY <1>1 DEF Awake

LEMMA StartPool ==
    ASSUME TypeOK, Pool, NEW n \in Nat, Start(n), queue' = queue,
           target' = target \/ target' = n
    PROVE  Pool' /\ list \subseteq list'
<1>1. Cardinality(list) \in Nat /\ target \in Nat
  BY ListSize
<1>2. PICK L \in SUBSET Workers :
         /\ list \subseteq L /\ list' = L
         /\ Cardinality(L) = IF n > Cardinality(list) THEN n ELSE Cardinality(list)
         /\ pc' = [t \in Threads |-> IF t \in L \ list THEN "next" ELSE pc[t]]
  BY DEF Start
<1>3. Listing'
  BY <1>2 DEF Pool, Listing, Threads
<1>4. EnoughThreads'
  BY <1>1, <1>2 DEF Pool, EnoughThreads
<1>5. \A t \in list' \cup {Prio} : pc'[t] = pc[t] \/ (pc'[t] = "next" /\ t \notin list)
  BY <1>2, ThreadAssumption DEF Threads, TypeOK
<1>6. \A t \in list : pc'[t] = pc[t] /\ t \in list'
  BY <1>2, <1>5
<1>6a. pc'[Prio] = pc[Prio]
  BY <1>2, ThreadAssumption DEF Threads
<1>7. ASSUME NEW k \in {"normal", "prio"}  PROVE Awake(k)'
  <2>1. \A t \in list' : t \notin list => pc'[t] = "next"
    BY <1>2 DEF Threads
  <2>. QED  BY <1>6, <1>6a, <1>7, <2>1, AwakeKept DEF Pool
<1>. QED  BY <1>2, <1>3, <1>4, <1>7 DEF Pool

LEMMA WakePool ==
    ASSUME TypeOK, Pool, (\E K : WakeAll(K)) \/ pc' = pc, queue' = queue, list' = list,
           target' = target \/ target' = 0
    PROVE  Pool'
<1>1. Cardinality(list) \in Nat /\ target \in Nat
  BY ListSize
<1>2. \A t \in Threads : pc'[t] = pc[t] \/ (pc[t] = "waiting" /\ pc'[t] = "woken")
  BY DEF WakeAll
<1>3. Workers \cup {Prio} \subseteq Threads /\ list \subseteq Workers
  BY DEF Threads, TypeOK
<1>4. Listing'
  BY <1>2, <1>3 DEF Pool, Listing
<1>5. EnoughThreads'
  BY <1>1 DEF Pool, EnoughThreads
<1>6. ASSUME NEW k \in {"normal", "prio"}  PROVE Awake(k)'
  BY <1>2, <1>3, <1>6, AwakeKept DEF Pool
<1>. QED  BY <1>4, <1>5, <1>6 DEF Pool

\* A thread goes on, with or without the first of its queue.
LEMMA UpPool ==
    ASSUME TypeOK, Pool, NEW t \in Threads, pc[t] # "off", NEW l, Goto(t, l),
           l # "off" \/ t \notin Workers, l \notin {"waiting", "idle"},
           \A k \in {"normal", "prio"} : queue'[k] # <<>> => queue[k] # <<>>,
           UNCHANGED <<list, target>>
    PROVE  Pool'
<1>1. pc'[t] = l /\ \A u \in Threads \ {t} : pc'[u] = pc[u]
  BY DEF Goto, TypeOK
<1>2. Workers \cup {Prio} \subseteq Threads /\ list \subseteq Workers
  BY DEF Threads, TypeOK
<1>3. Listing' /\ EnoughThreads'
  BY <1>1, <1>2 DEF Pool, Listing, EnoughThreads
<1>4. ASSUME NEW k \in {"normal", "prio"}  PROVE Awake(k)'
  BY <1>1, <1>2, <1>4, AwakeKept DEF Pool
<1>. QED  BY <1>3, <1>4 DEF Pool

\* A thread that found its queue empty comes to rest.
LEMMA DownPool ==
    ASSUME TypeOK, Pool, NEW t \in Threads, pc[t] # "off", NEW l \in {"waiting", "idle"},
           Goto(t, l), queue[QueueOf(t)] = <<>>, UNCHANGED <<queue, list, target>>
    PROVE  Pool'
<1>1. pc'[t] = l /\ \A u \in Threads \ {t} : pc'[u] = pc[u]
  BY DEF Goto, TypeOK
<1>2. Workers \cup {Prio} \subseteq Threads /\ list \subseteq Workers
  BY DEF Threads, TypeOK
<1>3. Listing' /\ EnoughThreads'
  BY <1>1, <1>2 DEF Pool, Listing, EnoughThreads
<1>4. ASSUME NEW k \in {"normal", "prio"}  PROVE Awake(k)'
  <2>1. CASE k = QueueOf(t)
    BY <2>1 DEF Awake
  <2>2. CASE k # QueueOf(t)
    BY <1>1, <1>2, <1>4, <2>2, AwakeKept DEF Pool
  <2>. QED  BY <2>1, <2>2
<1>. QED  BY <1>3, <1>4 DEF Pool

\* A thread too many goes: it was not the one that is up.
LEMMA LeavePool ==
    ASSUME TypeOK, Pool, NEW t \in Threads, pc[t] = "idle", Goto(t, "off"), t # Prio,
           Cardinality(list) > target, list' = list \ {t}, UNCHANGED <<queue, target>>
    PROVE  Pool'
<1>1. pc'[t] = "off" /\ \A u \in Threads \ {t} : pc'[u] = pc[u]
  BY DEF Goto, TypeOK
<1>2. Workers \cup {Prio} \subseteq Threads /\ list \subseteq Workers
  BY DEF Threads, TypeOK
<1>3. Listing'
  BY <1>1, <1>2 DEF Pool, Listing
<1>4. EnoughThreads'
  <2>1. IsFiniteSet(list) /\ Cardinality(list) \in Nat /\ target \in Nat
    BY ListSize
  <2>2. Cardinality(list') \in {Cardinality(list), Cardinality(list) - 1}
    BY <2>1, FS_RemoveElement
  <2>. QED  BY <2>1, <2>2 DEF EnoughThreads
<1>5. ASSUME NEW k \in {"normal", "prio"}  PROVE Awake(k)'
  BY <1>1, <1>2, <1>5, AwakeKept DEF Pool
<1>. QED  BY <1>3, <1>4, <1>5 DEF Pool

LEMMA TakeShort ==
    ASSUME TypeOK, NEW t \in Threads, Take(t)
    PROVE  /\ Goto(t, "work")
           /\ \A k \in {"normal", "prio"} : queue'[k] # <<>> => queue[k] # <<>>
BY DEF Take, TypeOK

LEMMA ThreadPool ==
    ASSUME TypeOK, Pool, NEW t \in Threads, ThreadStep(t) \/ SpuriousWakeup(t)
    PROVE  Pool'
<1>. USE DEF mainVars
<1>0. \A l : Goto(t, l) => pc'[t] = l
  BY DEF Goto, TypeOK
<1>1. CASE NextItem(t)
  <2>1. pc[t] = "next" /\ UNCHANGED <<list, target>>
    BY <1>1 DEF NextItem
  <2>2. CASE Take(t)
    BY <2>1, <2>2, TakeShort, UpPool
  <2>3. CASE queue[QueueOf(t)] = <<>> /\ Goto(t, "idle") /\ UNCHANGED queue
    BY <2>1, <2>3, DownPool
  <2>. QED  BY <1>1, <2>2, <2>3 DEF NextItem
<1>2. CASE NotifyIdle(t)
  <2>1. pc[t] = "idle" /\ UNCHANGED <<queue, target>>
    BY <1>2 DEF NotifyIdle
  <2>2. CASE t = Prio /\ UNCHANGED list /\ Goto(t, IF target = 0 THEN "off" ELSE "wait")
    <3>1. Prio \notin Workers
      BY ThreadAssumption
    <3>2. PICK l \in {"off", "wait"} : Goto(t, l)
      BY <2>2
    <3>. QED  BY <2>1, <2>2, <3>1, <3>2, UpPool
  <2>3. CASE t # Prio /\ Cardinality(list) > target /\ list' = list \ {t} /\ Goto(t, "off")
    BY <2>1, <2>3, LeavePool
  <2>4. CASE UNCHANGED list /\ Goto(t, "wait")
    BY <2>1, <2>4, UpPool
  <2>. QED  BY <1>2, <2>2, <2>3, <2>4 DEF NotifyIdle
<1>3. CASE WaitItem(t)
  <2>1. pc[t] = "wait" /\ UNCHANGED <<list, target>>
    BY <1>3 DEF WaitItem
  <2>2. CASE Take(t)
    BY <2>1, <2>2, TakeShort, UpPool
  <2>3. CASE queue[QueueOf(t)] = <<>> /\ UNCHANGED queue
             /\ Goto(t, IF bExit THEN "next" ELSE "waiting")
    <3>1. CASE bExit
      BY <2>1, <2>3, <3>1, UpPool
    <3>2. CASE ~bExit
      BY <2>1, <2>3, <3>2, DownPool
    <3>. QED  BY <3>1, <3>2
  <2>. QED  BY <1>3, <2>2, <2>3 DEF WaitItem
<1>4. CASE Wakeup(t)
  <2>1. pc[t] = "woken" /\ UNCHANGED <<list, target>>
    BY <1>4 DEF Wakeup
  <2>2. CASE Take(t)
    BY <2>1, <2>2, TakeShort, UpPool
  <2>3. CASE Goto(t, "next") /\ UNCHANGED queue
    BY <2>1, <2>3, UpPool
  <2>. QED  BY <1>4, <2>2, <2>3 DEF Wakeup
<1>5. CASE Serve(t) \/ Requeue(t) \/ SpuriousWakeup(t)
  <2>1. pc[t] # "off" /\ UNCHANGED <<list, target, queue>>
    BY <1>5 DEF Serve, Requeue, SpuriousWakeup
  <2>2. \E l \in {"done", "next", "restart", "woken"} : Goto(t, l)
    BY <1>5 DEF Serve, Requeue, SpuriousWakeup
  <2>. QED  BY <2>1, <2>2, UpPool
<1>6. CASE NotifyDone(t) \/ NotifyRestart(t)
  <2>1. pc[t] # "off" /\ UNCHANGED <<list, target, queue>>
    BY <1>6 DEF NotifyDone, NotifyRestart
  <2>2. CASE Goto(t, "requeue")
    BY <2>1, <2>2, UpPool
  <2>3. CASE Rest(t)
    <3>1. PICK l \in {"off", "next"} : Goto(t, l) /\ (l # "off" \/ t = Notifier)
      BY <2>3 DEF Rest
    <3>. QED  BY <2>1, <3>1, UpPool, ThreadAssumption
  <2>. QED  BY <1>6, <2>2, <2>3 DEF NotifyDone, NotifyRestart
<1>. QED  BY <1>1, <1>2, <1>3, <1>4, <1>5, <1>6 DEF ThreadStep

\* Who queues wakes one that waits, if there is any.
LEMMA MainPool ==
    ASSUME TypeOK, Pool, MainStep
    PROVE  Pool'
<1>. USE DEF threadVars, Shut
<1>1. CASE QueueItem
  <2>1. PICK k \in {"normal", "prio"} : k = KindOf(cur)
    BY DEF KindOf
  <2>2. /\ UNCHANGED <<list, target>>
        /\ \A j \in {"normal", "prio"} \ {k} : queue'[j] = queue[j]
    BY <1>1, <2>1 DEF QueueItem, TypeOK
  <2>3. Workers \cup {Prio} \subseteq Threads /\ list \subseteq Workers
    BY DEF Threads, TypeOK
  <2>4. \A t : QueueOf(t)' = QueueOf(t)
    BY DEF QueueOf
  <2>5. CASE Waiting(k) = {} /\ UNCHANGED pc
    <3>1. Listing' /\ EnoughThreads'
      BY <2>2, <2>5 DEF Pool, Listing, EnoughThreads
    <3>2. Awake(k)'
      BY <2>2, <2>4, <2>5 DEF Awake, Waiting
    <3>3. \A j \in {"normal", "prio"} \ {k} : Awake(j)'
      BY <2>2, <2>5, AwakeKept DEF Pool
    <3>. QED  BY <3>1, <3>2, <3>3 DEF Pool
  <2>6. ASSUME NEW t \in Waiting(k), Goto(t, "woken")  PROVE Pool'
    <3>1. t \in list \cup {Prio} /\ t \in Threads /\ QueueOf(t) = k /\ pc[t] = "waiting"
      BY <2>3 DEF Waiting
    <3>2. pc'[t] = "woken" /\ \A u \in Threads \ {t} : pc'[u] = pc[u]
      BY <2>6, <3>1 DEF Goto, TypeOK
    <3>3. Listing' /\ EnoughThreads'
      BY <2>2, <2>3, <3>1, <3>2 DEF Pool, Listing, EnoughThreads
    <3>4. Awake(k)'
      BY <2>2, <2>4, <3>1, <3>2 DEF Awake
    <3>5. \A j \in {"normal", "prio"} \ {k} : Awake(j)'
      BY <2>2, <2>3, <3>1, <3>2, AwakeKept DEF Pool
    <3>. QED  BY <3>3, <3>4, <3>5 DEF Pool
  <2>. QED  BY <1>1, <2>1, <2>5, <2>6 DEF QueueItem
<1>2. CASE EmptyQueues
  <2>1. UNCHANGED <<pc, list, target>> /\ \A k \in {"normal", "prio"} : queue'[k] = <<>>
    BY <1>2 DEF EmptyQueues, TypeOK
  <2>. QED  BY <2>1 DEF Pool, Listing, EnoughThreads, Awake
<1>3. CASE ~QueueItem /\ ~EmptyQueues
  <2>1. /\ queue' = queue /\ list' = list
        /\ (\E K : WakeAll(K)) \/ pc' = pc
        /\ target' = target \/ target' = 0
    BY <1>3 DEF MainStep, EpollWait, EraseSocket, HangUp, LockItems, DeleteWatchDog,
                SetThreadCount0, NotifyAll, JoinThreads, CloseSockets
  <2>. QED  BY <2>1, WakePool
<1>. QED  BY <1>1, <1>2, <1>3

LEMMA OthersPool ==
    ASSUME TypeOK, Pool, Others
    PROVE  Pool'
<1>. USE DEF threadVars, Shut, connVars, mainVars
<1>1. CASE GetFrontItemAge \/ Hup \/ HupNotify \/ ShutDown
  <2>1. /\ queue' = queue /\ list' = list /\ target' = target
        /\ (\E K : WakeAll(K)) \/ pc' = pc
    BY <1>1 DEF GetFrontItemAge, Hup, HupNotify, ShutDown
  <2>. QED  BY <2>1, WakePool
<1>2. CASE ForceAddThread
  <2>1. Cardinality(list) + 1 \in Nat
    BY ListSize
  <2>2. CASE Start(Cardinality(list) + 1)
    BY <1>2, <2>1, <2>2, StartPool DEF ForceAddThread
  <2>3. CASE UNCHANGED <<list, pc>>
    BY <1>2, <2>3, WakePool DEF ForceAddThread
  <2>. QED  BY <1>2, <2>2, <2>3 DEF ForceAddThread
<1>3. CASE HupCount
  <2>1. Start(threads) /\ target' = threads /\ queue' = queue
    BY <1>3 DEF HupCount
  <2>. QED  BY <2>1, ListSize, StartPool
<1>. QED  BY <1>1, <1>2, <1>3 DEF Others, HupStep

LEMMA OutsidePool ==
    ASSUME TypeOK, Pool, NEW c \in Conns, Outside(c)
    PROVE  Pool'
<1>. USE DEF threadVars
<1>1. CASE Answer(c)
  <2>1. /\ Goto(Notifier, "done") /\ UNCHANGED <<list, target, queue>>
        /\ Notifier \in Threads /\ Notifier \notin Workers /\ Notifier # Prio
    BY <1>1, ThreadAssumption DEF Answer, Threads
  <2>2. \A u \in Threads \ {Notifier} : pc'[u] = pc[u]
    BY <2>1 DEF Goto, TypeOK
  <2>3. \A u \in Workers \cup {Prio} : pc'[u] = pc[u]
    BY <2>1, <2>2 DEF Threads
  <2>4. list \subseteq Workers
    BY DEF TypeOK
  <2>5. Listing' /\ EnoughThreads'
    BY <2>1, <2>3 DEF Pool, Listing, EnoughThreads
  <2>6. \A k \in {"normal", "prio"} : Awake(k)'
    BY <2>1, <2>3, <2>4, AwakeKept DEF Pool
  <2>. QED  BY <2>5, <2>6 DEF Pool
<1>2. CASE Request(c) \/ Disconnect(c) \/ Accept(c)
  <2>1. UNCHANGED <<pc, queue, list, target>>
    BY <1>2 DEF Request, Disconnect, Accept
  <2>. QED  BY <2>1, WakePool
<1>. QED  BY <1>1, <1>2 DEF Outside

-----------------------------------------------------------------------------
(* The invariant is inductive. *)

IInv == TypeOK /\ Conn /\ Pool

LEMMA InitInv == Init => IInv
<1>. SUFFICES ASSUME Init  PROVE IInv
  OBVIOUS
<1>. USE DEF Init
<1>1. TypeOK
  BY InitType
<1>2. /\ \A k \in {"normal", "prio"} : queue[k] = <<>> /\ Elems(queue[k]) = {}
      /\ Queued = {}
  BY DEF Queued, Elems
<1>3. \A t \in Threads : item[t] = None /\ pc[t] \in {"next", "off"}
  OBVIOUS
<1>4. Hands = {} /\ Hold /\ Restarts
  BY <1>3 DEF Hands, Hold, Restarts, Busy
<1>5. Listed = {}
  BY DEF Listed
<1>6. Lines
  BY <1>2 DEF Lines, Distinct
<1>7. Apart /\ Main /\ Polls
  BY <1>2, <1>4, <1>5 DEF Apart, Main, Polls
<1>8. Listing
  BY ThreadAssumption DEF Listing, Threads
<1>9. EnoughThreads
  <2>1. Cardinality(list) \in Nat
    BY <1>1, ListSize
  <2>. QED  BY <2>1 DEF EnoughThreads
<1>10. Awake("normal") /\ Awake("prio")
  BY <1>2 DEF Awake
<1>. QED  BY <1>1, <1>4, <1>6, <1>7, <1>8, <1>9, <1>10 DEF IInv, Conn, Pool

LEMMA NextInv == IInv /\ [Next]_vars => IInv'
<1>. SUFFICES ASSUME IInv, [Next]_vars  PROVE IInv'
  OBVIOUS
<1>1. TypeOK /\ Conn /\ Pool /\ Hold /\ Main /\ Listing
  BY DEF IInv, Conn, Pool
<1>2. ASSUME NEW c \in Conns, Outside(c)  PROVE IInv'
  BY <1>1, <1>2, OutsideType, OutsideConn, OutsidePool DEF IInv
<1>3. ASSUME NEW t \in Threads, ThreadStep(t) \/ SpuriousWakeup(t)  PROVE IInv'
  BY <1>1, <1>3, ThreadType, ThreadConn, ThreadPool DEF IInv
<1>4. CASE MainStep
  BY <1>1, <1>4, MainType, MainConn, MainPool DEF IInv
<1>5. CASE Others
  BY <1>1, <1>5, OthersType, OthersConn, OthersPool DEF IInv
<1>6. CASE UNCHANGED vars
  <2>1. TypeOK'
    BY <1>1, <1>6 DEF vars, TypeOK
  <2>2. Conn'
    <3>1. Main'
      BY <1>1, <1>6 DEF vars, Main
    <3>. QED  BY <1>1, <1>6, <3>1, ConnFrame DEF vars
  <2>3. Pool'
    BY <1>1, <1>6, WakePool DEF vars
  <2>. QED  BY <2>1, <2>2, <2>3 DEF IInv
<1>. QED  BY <1>2, <1>3, <1>4, <1>5, <1>6 DEF Next, Outside, Others

LEMMA Inductive == Spec => []IInv
<1>. QED  BY InitInv, NextInv, PTL DEF Spec

-----------------------------------------------------------------------------
(* What it says. *)

LEMMA HoldersSize ==
    ASSUME Hold, NEW c, c # None
    PROVE  Cardinality(Holders(c)) = In(c, Hands)
<1>1. CASE c \in Hands
  <2>1. PICK t \in Threads : item[t] = c /\ pc[t] # "restart"
    BY <1>1 DEF Hands
  <2>2. Holders(c) = {t}
    BY <2>1 DEF Hold, Holders
  <2>. QED  BY <1>1, <2>2, FS_Singleton DEF In
<1>2. CASE c \notin Hands
  <2>1. Holders(c) = {}
    BY <1>2 DEF Hands, Holders
  <2>. QED  BY <1>2, <2>1, FS_EmptySet DEF In
<1>. QED  BY <1>1, <1>2

LEMMA SpotsSize ==
    ASSUME TypeOK, Lines, NEW c
    PROVE  Cardinality(Spots(c)) = In(c, Queued)
<1>1. DOMAIN queue = {"normal", "prio"}
  BY DEF TypeOK
<1>2. \A q : q \in Spots(c) <=> \E k \in {"normal", "prio"} :
                                \E i \in DOMAIN queue[k] : q = <<k, i>> /\ queue[k][i] = c
  <2>1. \A q : q \in Spots(c) <=>
           \E k \in {"normal", "prio"} : q \in {k} \X DOMAIN queue[k] /\ queue[q[1]][q[2]] = c
    BY <1>1 DEF Spots
  <2>2. ASSUME NEW q, NEW k, q \in {k} \X DOMAIN queue[k]
        PROVE  \E i \in DOMAIN queue[k] : q = <<k, i>> /\ q[1] = k /\ q[2] = i
    BY <2>2
  <2>3. ASSUME NEW k, NEW i \in DOMAIN queue[k]
        PROVE  /\ <<k, i>> \in {k} \X DOMAIN queue[k]
               /\ <<k, i>>[1] = k /\ <<k, i>>[2] = i
    OBVIOUS
  <2>. QED  BY <2>1, <2>2, <2>3
<1>3. CASE c \in Queued
  <2>1. PICK k \in {"normal", "prio"} : c \in Elems(queue[k])
    BY <1>3 DEF Queued
  <2>2. PICK i \in DOMAIN queue[k] : queue[k][i] = c
    BY <2>1 DEF Elems
  <2>3. \A j \in {"normal", "prio"} : \A m \in DOMAIN queue[j] :
           queue[j][m] = c => j = k /\ m = i
    <3>1. \A j \in {"normal", "prio"} : \A m \in DOMAIN queue[j] : queue[j][m] = c => j = k
      BY <2>1 DEF Lines, Elems
    <3>2. Distinct(queue[k])
      BY DEF Lines
    <3>. QED  BY <2>2, <3>1, <3>2 DEF Distinct
  <2>4. Spots(c) = {<<k, i>>}
    BY <1>2, <2>2, <2>3
  <2>. QED  BY <1>3, <2>4, FS_Singleton DEF In
<1>4. CASE c \notin Queued
  <2>1. Spots(c) = {}
    BY <1>2, <1>4 DEF Queued, Elems
  <2>. QED  BY <1>4, <2>1, FS_EmptySet DEF In
<1>. QED  BY <1>3, <1>4

LEMMA OneOwnerHolds == IInv => OneOwner
<1>. SUFFICES ASSUME IInv, NEW c \in accepted  PROVE Owners(c) = 1
  BY DEF OneOwner
<1>1. c # None /\ TypeOK /\ Hold /\ Lines /\ Apart
  BY ConnAssumption DEF IInv, Conn, TypeOK
<1>2. Owners(c) = In(c, Listed) + In(c, deferred) + In(c, closed)
                  + In(c, Hands) + In(c, Queued)
  BY <1>1, HoldersSize, SpotsSize DEF Owners
<1>3. CASE c \in Listed
  BY <1>1, <1>2, <1>3 DEF Apart, In
<1>4. CASE c \in deferred
  BY <1>1, <1>2, <1>4 DEF Apart, In
<1>5. CASE c \in closed
  BY <1>1, <1>2, <1>5 DEF Apart, In
<1>6. CASE c \in Hands
  BY <1>1, <1>2, <1>6 DEF Apart, In
<1>7. CASE c \in Queued
  BY <1>1, <1>2, <1>7 DEF Apart, In
<1>. QED  BY <1>1, <1>3, <1>4, <1>5, <1>6, <1>7 DEF Apart

LEMMA NotStrandedHolds == IInv => NotStranded
<1>. SUFFICES ASSUME IInv, NEW k \in {"normal", "prio"}, target > 0, queue[k] # <<>>
              PROVE  \E t \in list \cup {Prio} : QueueOf(t) = k /\ pc[t] # "waiting"
  BY DEF NotStranded, IInv, TypeOK
<1>1. TypeOK /\ Awake(k) /\ EnoughThreads
  BY DEF IInv, Pool
<1>2. \E t \in list \cup {Prio} : QueueOf(t) = k
  <2>1. CASE k = "prio"
    BY <2>1 DEF QueueOf
  <2>2. CASE k = "normal"
    <3>1. list # {}
      <4>1. Cardinality(list) \in Nat /\ target \in Nat
        BY <1>1, ListSize
      <4>2. Cardinality(list) >= target /\ Cardinality(list) # 0
        BY <1>1, <4>1 DEF EnoughThreads
      <4>3. Cardinality({}) = 0
        BY FS_EmptySet
      <4>. QED  BY <4>2, <4>3
    <3>2. Prio \notin list
      BY <1>1, ThreadAssumption DEF TypeOK
    <3>. QED  BY <2>2, <3>1, <3>2 DEF QueueOf
  <2>. QED  BY <2>1, <2>2
<1>. QED  BY <1>1, <1>2 DEF Awake

-----------------------------------------------------------------------------
(* What an event told stays true until it is served: what is on its way is    *)
(* with main, in a queue or with a worker, and only its server takes it away. *)

AtWork == {item[t] : t \in {u \in Threads : pc[u] = "work"}}
Way == (batch \ {cur}) \cup (IF mpc = "queueing" THEN {cur} ELSE {})
       \cup Queued \cup AtWork
Ready == \A c \in Way : pending[c] # "none"

LEMMA InitReady == Init => Ready
<1>. SUFFICES ASSUME Init  PROVE Ready
  OBVIOUS
<1>1. Queued = {} /\ AtWork = {}
  BY DEF Init, Queued, Elems, AtWork
<1>. QED  BY <1>1 DEF Init, Way, Ready

\* Nothing sets out, and what is on its way keeps what it waits with.
LEMMA ReadyFrame ==
    ASSUME Ready, Way' \subseteq Way,
           \A c \in Way' : pending'[c] = pending[c] \/ pending'[c] # "none"
    PROVE  Ready'
BY DEF Ready

\* No thread begins to work.
LEMMA AtWorkFrame ==
    ASSUME \A t \in Threads : pc'[t] = "work" => pc[t] = "work" /\ item'[t] = item[t]
    PROVE  AtWork' \subseteq AtWork
BY DEF AtWork

LEMMA WayType ==
    ASSUME IInv
    PROVE  Way \subseteq Conns
<1>1. batch \subseteq Conns /\ cur \in Conns \cup {None} /\ Queued \subseteq Conns
  BY DEF IInv, TypeOK, Queued, Elems
<1>2. mpc = "queueing" => cur # None
  BY DEF IInv, Conn, Main
<1>3. AtWork \subseteq Conns
  BY DEF AtWork, IInv, TypeOK, Conn, Hold, Busy
<1>. QED  BY <1>1, <1>2, <1>3 DEF Way

LEMMA OutsideReady ==
    ASSUME IInv, Ready, NEW c \in Conns, Outside(c)
    PROVE  Ready'
<1>. USE DEF threadVars, mainVars
<1>1. UNCHANGED <<batch, queue, mpc, cur>>
  BY DEF Outside, Request, Disconnect, Accept, Answer
<1>2. \A t \in Threads : pc'[t] = "work" => pc[t] = "work" /\ item'[t] = item[t]
  <2>1. CASE UNCHANGED <<pc, item>>
    BY <2>1
  <2>2. CASE Answer(c)
    BY <2>2 DEF Answer, Goto, IInv, TypeOK
  <2>. QED  BY <2>1, <2>2 DEF Outside, Request, Disconnect, Accept
<1>3. AtWork' \subseteq AtWork /\ Queued' = Queued
  BY <1>1, <1>2, AtWorkFrame DEF Queued
<1>4. Way' \subseteq Way
  BY <1>1, <1>3 DEF Way
<1>5. \A d \in Way' : pending'[d] = pending[d] \/ pending'[d] # "none"
  <2>1. \/ pending' = pending
        \/ \E v \in {"data", "hup"} : pending' = [pending EXCEPT ![c] = v]
    BY DEF Outside, Request, Disconnect, Accept, Answer
  <2>2. Way' \subseteq Conns
    BY <1>4, WayType
  <2>. QED  BY <2>1, <2>2 DEF IInv, TypeOK
<1>. QED  BY <1>4, <1>5, ReadyFrame

\* The connection a worker serves is nowhere else on its way.
LEMMA ServeReady ==
    ASSUME IInv, Ready, NEW t \in Threads, Serve(t)
    PROVE  Ready'
<1>. DEFINE c == item[t]
<1>1. /\ pc[t] = "work" /\ UNCHANGED <<batch, queue, mpc, cur>>
      /\ pc'[t] # "work" /\ \A u \in Threads \ {t} : pc'[u] = pc[u] /\ item'[u] = item[u]
      /\ pending' = pending \/ pending' = [pending EXCEPT ![c] = "none"]
  BY DEF Serve, mainVars, Goto, IInv, TypeOK
<1>2. c # None /\ c \in Hands
  BY <1>1 DEF IInv, Conn, Hold, Hands, Busy
<1>3. Queued' = Queued /\ c \notin Queued
  BY <1>1, <1>2 DEF IInv, Conn, Apart, Queued
<1>4. c \notin AtWork' /\ AtWork' \subseteq AtWork
  <2>1. \A u \in Threads \ {t} : pc[u] = "work" => item[u] # c
    BY <1>1, <1>2 DEF IInv, Conn, Hold
  <2>. QED  BY <1>1, <2>1 DEF AtWork
<1>5. c \notin batch \ {cur}
  BY <1>2 DEF IInv, Conn, Polls, Apart
<1>6. mpc = "queueing" => cur # c
  BY <1>2 DEF IInv, Conn, Main, Apart, Listed
<1>7. Way' \subseteq Way /\ c \notin Way'
  BY <1>1, <1>3, <1>4, <1>5, <1>6 DEF Way
<1>8. \A d \in Way' : pending'[d] = pending[d]
  BY <1>1, <1>7, WayType DEF IInv, TypeOK
<1>. QED  BY <1>7, <1>8, ReadyFrame

LEMMA ThreadReady ==
    ASSUME IInv, Ready, NEW t \in Threads, ThreadStep(t) \/ SpuriousWakeup(t)
    PROVE  Ready'
<1>. USE DEF connVars, mainVars
<1>1. CASE Serve(t)
  BY <1>1, ServeReady
<1>2. CASE ~Serve(t)
  <2>1. UNCHANGED <<pending, batch, mpc, cur>>
    BY <1>2 DEF ThreadStep, NextItem, NotifyIdle, WaitItem, Wakeup, NotifyDone, Requeue,
                NotifyRestart, SpuriousWakeup
  <2>2. CASE Take(t)
    <3>. DEFINE h == Head(queue[QueueOf(t)])
    <3>1. h \in Queued /\ Queued' \subseteq Queued
      BY <2>2, LinesTake DEF IInv, Conn
    <3>2. item' = [item EXCEPT ![t] = h] /\ Goto(t, "work")
      BY <2>2 DEF Take
    <3>. HIDE DEF h
    <3>3. AtWork' \subseteq AtWork \cup {h}
      BY <3>2 DEF AtWork, Goto, IInv, TypeOK
    <3>4. Way' \subseteq Way
      BY <2>1, <3>1, <3>3 DEF Way
    <3>. QED  BY <2>1, <3>4, ReadyFrame
  <2>3. CASE queue' = queue /\ \E l \in Pcs \ {"work"} : Goto(t, l)
    <3>1. \A u \in Threads : pc'[u] = "work" => pc[u] = "work" /\ u # t
      BY <2>3 DEF Goto, IInv, TypeOK
    <3>2. \A u \in Threads \ {t} : item'[u] = item[u]
      BY <1>2 DEF ThreadStep, NextItem, NotifyIdle, WaitItem, Wakeup, NotifyDone, Requeue,
                  NotifyRestart, SpuriousWakeup, Take, IInv, TypeOK
    <3>3. AtWork' \subseteq AtWork /\ Queued' = Queued
      BY <2>3, <3>1, <3>2, AtWorkFrame DEF Queued
    <3>. QED  BY <2>1, <3>3, ReadyFrame DEF Way
  <2>. QED
    BY <1>2, <2>2, <2>3
    DEF ThreadStep, NextItem, NotifyIdle, WaitItem, Wakeup, NotifyDone, Requeue,
        NotifyRestart, SpuriousWakeup, Rest, Pcs
<1>. QED  BY <1>1, <1>2

LEMMA OthersReady ==
    ASSUME IInv, Ready, Others
    PROVE  Ready'
<1>1. /\ UNCHANGED <<pending, batch, queue, item, cur, mpc>>
      /\ (\E n : Start(n)) \/ (\E K : WakeAll(K)) \/ UNCHANGED pc
  BY DEF Others, GetFrontItemAge, ForceAddThread, Hup, HupStep, HupCount,
         HupNotify, ShutDown, connVars, threadVars, mainVars, Shut
<1>2. \A t \in Threads : pc'[t] = "work" => pc[t] = "work"
  BY <1>1 DEF Start, WakeAll
<1>3. AtWork' \subseteq AtWork /\ Queued' = Queued
  BY <1>1, <1>2, AtWorkFrame DEF Queued
<1>. QED  BY <1>1, <1>3, ReadyFrame DEF Way

LEMMA MainReady ==
    ASSUME IInv, Ready, MainStep
    PROVE  Ready'
<1>. USE DEF connVars, threadVars, hupVars, mainVars, Shut
<1>0. /\ UNCHANGED <<pending, item>>
      /\ \A t \in Threads : pc'[t] = "work" => pc[t] = "work"
  <2>1. UNCHANGED <<pending, item>>
    BY DEF MainStep, EpollWait, QueueItem, EraseSocket, HangUp, LockItems, DeleteWatchDog,
           SetThreadCount0, NotifyAll, JoinThreads, EmptyQueues, CloseSockets
  <2>2. (\E t : Goto(t, "woken")) \/ (\E K : WakeAll(K)) \/ UNCHANGED pc
    BY DEF MainStep, EpollWait, QueueItem, EraseSocket, HangUp, LockItems, DeleteWatchDog,
           SetThreadCount0, NotifyAll, JoinThreads, EmptyQueues, CloseSockets
  <2>. QED  BY <2>1, <2>2 DEF Goto, WakeAll, IInv, TypeOK
<1>1. AtWork' \subseteq AtWork
  BY <1>0, AtWorkFrame
<1>2. mpc = "poll" => cur = None
  BY DEF IInv, Conn, Main
<1>3. None \notin batch
  BY ConnAssumption DEF IInv, TypeOK
<1>4. CASE EpollWait
  <2>1. /\ batch' = {c \in polled : pending[c] # "none"} /\ UNCHANGED <<queue, mpc, cur>>
        /\ mpc = "poll"
    BY <1>4 DEF EpollWait, InLoop
  <2>2. Queued' = Queued
    BY <2>1 DEF Queued
  <2>3. Way' \subseteq Way \cup batch'
    BY <1>1, <2>1, <2>2 DEF Way
  <2>. QED  BY <1>0, <2>1, <2>3 DEF Ready
<1>5. ASSUME NEW c \in Conns, HangUp(c) \/ LockItems(c)  PROVE Ready'
  <2>1. /\ c \in batch /\ batch' \subseteq batch /\ mpc = "poll" /\ queue' = queue
        /\ \/ UNCHANGED <<mpc, cur>>
           \/ mpc' = "queueing" /\ cur' = c
    BY <1>5 DEF HangUp, LockItems, InLoop
  <2>2. Queued' = Queued
    BY <2>1 DEF Queued
  <2>3. Way' \subseteq Way
    BY <1>1, <1>2, <1>3, <2>1, <2>2 DEF Way
  <2>. QED  BY <1>0, <2>3, ReadyFrame
<1>6. CASE QueueItem
  <2>1. mpc = "queueing" /\ mpc' = "erase" /\ UNCHANGED <<batch, cur>>
    BY <1>6 DEF QueueItem
  <2>2. Queued' = Queued \cup {cur}
    BY <1>6, LinesAppend DEF IInv
  <2>3. Way' \subseteq Way
    BY <1>1, <2>1, <2>2 DEF Way
  <2>. QED  BY <1>0, <2>3, ReadyFrame
<1>7. CASE EraseSocket
  <2>1. batch' = batch \ {cur} /\ mpc' = "poll" /\ queue' = queue
    BY <1>7 DEF EraseSocket
  <2>2. Queued' = Queued
    BY <2>1 DEF Queued
  <2>3. Way' \subseteq Way
    BY <1>1, <2>1, <2>2 DEF Way
  <2>. QED  BY <1>0, <2>3, ReadyFrame
<1>8. CASE \/ DeleteWatchDog \/ SetThreadCount0 \/ NotifyAll \/ JoinThreads
           \/ EmptyQueues \/ CloseSockets
  <2>1. UNCHANGED <<batch, cur>> /\ mpc' # "queueing"
    BY <1>8 DEF DeleteWatchDog, SetThreadCount0, NotifyAll, JoinThreads, EmptyQueues,
                CloseSockets
  <2>2. Queued' \subseteq Queued
    <3>1. queue' = queue \/ \A k \in {"normal", "prio"} : queue'[k] = <<>>
      BY <1>8 DEF DeleteWatchDog, SetThreadCount0, NotifyAll, JoinThreads, EmptyQueues,
                  CloseSockets, IInv, TypeOK
    <3>2. Queued' = Elems(queue'["normal"]) \cup Elems(queue'["prio"])
      BY DEF Queued, Elems
    <3>. QED  BY <3>1, <3>2 DEF Queued, Elems
  <2>3. Way' \subseteq Way
    BY <1>1, <2>1, <2>2 DEF Way
  <2>. QED  BY <1>0, <2>3, ReadyFrame
<1>. QED  BY <1>4, <1>5, <1>6, <1>7, <1>8 DEF MainStep

LEMMA ReadyKept == IInv /\ Ready /\ [Next]_vars => Ready'
<1>. SUFFICES ASSUME IInv, Ready, [Next]_vars  PROVE Ready'
  OBVIOUS
<1>1. CASE UNCHANGED vars
  BY <1>1 DEF vars, Ready, Way, Queued, AtWork
<1>. QED
  BY <1>1, OutsideReady, ThreadReady, MainReady, OthersReady DEF Next, Outside, Others


-----------------------------------------------------------------------------
(* The contract of a connection.  The parts of Apart are its places, and a   *)
(* thread that has it in hand is about to read from it or has answered.      *)

At == [c \in Conns |-> PlaceOf(c)]

\* The place that a connection has and the part it is in.
PlaceParts == \A c \in Conns :
    /\ c \notin accepted => PlaceOf(c) = "nowhere"
    /\ c \in Listed => PlaceOf(c) = "listening"
    /\ c \in deferred => PlaceOf(c) = "left"
    /\ c \in closed => PlaceOf(c) = "closed"
    /\ c \in Queued => PlaceOf(c) = "queued"
    /\ c \in AtWork => PlaceOf(c) = "reading"
    /\ c \in Hands \ AtWork => PlaceOf(c) = "answered"

LEMMA WorkInHand == ASSUME Hold, TypeOK  PROVE AtWork \subseteq Hands \cap Conns
BY DEF AtWork, Hands, Hold, TypeOK, Busy

LEMMA PlacesKnown == IInv => PlaceParts
<1>. SUFFICES ASSUME IInv  PROVE PlaceParts
  OBVIOUS
<1>1. TypeOK /\ Apart /\ Hold /\ OneOwner /\ AtWork \subseteq Hands
  BY OneOwnerHolds, WorkInHand DEF IInv, Conn
<1>2. InQueue = Queued
  BY <1>1, QueuedIs
<1>3. \A c \in Conns : (\E t \in Threads : item[t] = c /\ pc[t] = "work") <=> c \in AtWork
  BY DEF AtWork
<1>4. \A c \in accepted : Owners(c) = 1
  BY <1>1 DEF OneOwner
<1>5. \A c \in Listed \cup deferred \cup closed \cup Queued \cup Hands : c \in accepted
  BY <1>1 DEF Apart
<1>6. /\ Listed \cap (deferred \cup closed \cup Hands \cup Queued) = {}
      /\ deferred \cap (closed \cup Hands \cup Queued) = {}
      /\ closed \cap (Hands \cup Queued) = {}
      /\ Hands \cap Queued = {}
  BY <1>1 DEF Apart
<1>. QED
  BY <1>1, <1>2, <1>3, <1>4, <1>5, <1>6, ConnAssumption DEF PlaceParts, PlaceOf

\* Only the connections of S change their place.
Within(S) == /\ accepted' \ S = accepted \ S /\ Listed' \ S = Listed \ S
             /\ deferred' \ S = deferred \ S /\ closed' \ S = closed \ S
             /\ Queued' \ S = Queued \ S /\ AtWork' \ S = AtWork \ S
             /\ Hands' \ S = Hands \ S

LEMMA SamePlace ==
    ASSUME IInv, PlaceParts, PlaceParts', NEW S, Within(S), NEW d \in Conns, d \notin S
    PROVE  PlaceOf(d)' = PlaceOf(d)
<1>1. accepted = Listed \cup deferred \cup closed \cup Hands \cup Queued
  BY DEF IInv, Conn, Apart
<1>2. /\ d \in accepted' <=> d \in accepted
      /\ d \in Listed' <=> d \in Listed
      /\ d \in deferred' <=> d \in deferred
      /\ d \in closed' <=> d \in closed
      /\ d \in Queued' <=> d \in Queued
      /\ d \in AtWork' <=> d \in AtWork
      /\ d \in Hands' <=> d \in Hands
  BY DEF Within
<1>. QED  BY <1>1, <1>2 DEF PlaceParts

LEMMA OnePlace ==
    ASSUME IInv, PlaceParts, PlaceParts', NEW c \in Conns, Within({c})
    PROVE  At' = [At EXCEPT ![c] = PlaceOf(c)']
<1>1. ASSUME NEW d \in Conns, d # c  PROVE PlaceOf(d)' = PlaceOf(d)
  BY <1>1, SamePlace
<1>. QED  BY <1>1 DEF At

LEMMA NoPlace ==
    ASSUME IInv, PlaceParts, PlaceParts', UNCHANGED <<accepted, deferred, closed>>,
           Listed' = Listed, Queued' = Queued, Hands' = Hands, AtWork' = AtWork
    PROVE  At' = At
<1>1. Within({})
  BY DEF Within
<1>. QED  BY <1>1, SamePlace DEF At

\* All connections of one place are closed.
LEMMA AllClosed ==
    ASSUME IInv, PlaceParts, PlaceParts', NEW p, NEW S, Within(S),
           \A c \in Conns : PlaceOf(c) = p <=> c \in S, S \subseteq closed'
    PROVE  At' = [c \in Conns |-> IF At[c] = p THEN "closed" ELSE At[c]]
<1>1. ASSUME NEW c \in Conns
      PROVE  PlaceOf(c)' = IF PlaceOf(c) = p THEN "closed" ELSE PlaceOf(c)
  BY SamePlace DEF PlaceParts
<1>. QED  BY <1>1 DEF At

LEMMA WorkSame ==
    ASSUME \A t \in Threads : /\ pc'[t] = "work" <=> pc[t] = "work"
                              /\ pc[t] = "work" => item'[t] = item[t]
    PROVE  AtWork' = AtWork
BY DEF AtWork

\* A step of the contract in which one connection moves.
LEMMA ContractMove ==
    ASSUME NEW c \in Conns, Contract!Moves(c, PlaceOf(c))
    PROVE  [Contract!Next]_(Contract!vars)
BY DEF Contract!Next

\* What the step lemmas below start from.
Before == IInv /\ Ready /\ PlaceParts /\ PlaceParts'

LEMMA ContractOutside ==
    ASSUME Before, NEW c \in Conns, Outside(c)
    PROVE  [Contract!Next]_(Contract!vars)
<1>. USE DEF threadVars, mainVars
<1>0. TypeOK /\ Conn /\ Apart /\ Hold /\ IInv /\ PlaceParts /\ PlaceParts'
  BY DEF Before, IInv, Conn
<1>1. CASE Request(c) \/ Disconnect(c)
  <2>1. /\ UNCHANGED <<accepted, closed, sockets, queue, deferred, pc, item, mpc, cur, bExit>>
        /\ c \in accepted \ closed
    BY <1>1 DEF Request, Disconnect
  <2>2. At' = At
    BY <1>0, <2>1, WorkSame, NoPlace DEF Listed, Queued, Hands
  <2>3. CASE Request(c)
    <3>1. PlaceOf(c) \in {"listening", "answered"}
      <4>1. CASE c \in sockets \ {cur}
        BY <1>0, <4>1 DEF PlaceParts, Listed
      <4>2. ASSUME NEW t \in Threads, item[t] = c, pc[t] \in {"done", "requeue"}
            PROVE  PlaceOf(c) = "answered"
        <5>1. c \in Hands /\ c # None
          BY <4>2, ConnAssumption DEF Hands
        <5>2. c \notin AtWork
          BY <1>0, <4>2, <5>1 DEF AtWork, Hold
        <5>. QED  BY <1>0, <5>1, <5>2 DEF PlaceParts
      <4>3. ASSUME NEW t \in Threads, item[t] = c, pc[t] = "restart"
            PROVE  PlaceOf(c) = "listening"
        BY <1>0, <2>1, <4>3 DEF PlaceParts, Conn, Restarts
      <4>. QED  BY <2>3, <4>1, <4>2, <4>3 DEF Request, Answered
    <3>2. Contract!Ask(c)
      BY <2>1, <2>2, <2>3, <3>1 DEF Contract!Ask, Contract!Gets, Request, At
    <3>. QED  BY <3>2 DEF Contract!Next
  <2>4. CASE Disconnect(c)
    <3>1. PlaceOf(c) \notin {"nowhere", "closed"}
      BY <1>0, <2>1 DEF PlaceParts, Apart
    <3>2. Contract!HangUp(c)
      BY <2>1, <2>2, <2>4, <3>1 DEF Contract!HangUp, Contract!Gets, Disconnect, At
    <3>. QED  BY <3>2 DEF Contract!Next
  <2>. QED  BY <1>1, <2>3, <2>4
<1>2. CASE Accept(c)
  <2>1. /\ c \notin accepted /\ accepted' = accepted \cup {c} /\ mpc = "poll"
        /\ sockets' = sockets \cup {c} /\ ~bExit
        /\ UNCHANGED <<closed, queue, deferred, pc, item, mpc, pending, bExit>>
    BY <1>2 DEF Accept, InLoop
  <2>2. Hands' = Hands /\ AtWork' = AtWork /\ Queued' = Queued /\ Listed' = Listed \cup {c}
    BY <2>1, WorkSame DEF Hands, Queued, Listed
  <2>3. At' = [At EXCEPT ![c] = PlaceOf(c)']
    BY <1>0, <2>1, <2>2, OnePlace DEF Within
  <2>4. PlaceOf(c) = "nowhere" /\ PlaceOf(c)' = "listening"
    BY <1>0, <2>1, <2>2 DEF PlaceParts
  <2>5. Contract!Moves(c, PlaceOf(c))
    BY <2>1, <2>3, <2>4 DEF Contract!Moves, Contract!Goes, At
  <2>. QED  BY <2>5, ContractMove
<1>3. CASE Answer(c)
  <2>1. /\ Notifier \in Threads /\ pc[Notifier] \notin Busy /\ c \in deferred
        /\ deferred' = deferred \ {c} /\ item' = [item EXCEPT ![Notifier] = c]
        /\ Goto(Notifier, "done") /\ "done" \in Busy \ {"restart"}
        /\ UNCHANGED <<accepted, closed, sockets, queue, mpc, cur, pending, bExit>>
    BY <1>3 DEF Answer, Threads, Busy
  <2>2. c \notin Hands
    BY <1>0, <2>1 DEF Apart
  <2>3. Hands' = Hands \cup {c} /\ Queued' = Queued /\ Listed' = Listed
    BY <1>0, <2>1, <2>2, HoldTake DEF Queued, Listed
  <2>4. AtWork' = AtWork
    <3>1. \A t \in Threads : /\ pc'[t] = "work" <=> pc[t] = "work"
                             /\ pc[t] = "work" => item'[t] = item[t]
      BY <1>0, <2>1 DEF Goto, TypeOK, Busy
    <3>. QED  BY <3>1, WorkSame
  <2>5. At' = [At EXCEPT ![c] = PlaceOf(c)']
    BY <1>0, <2>1, <2>3, <2>4, OnePlace DEF Within
  <2>6. c \notin AtWork
    BY <1>0, <2>2, WorkInHand
  <2>7. PlaceOf(c) = "left" /\ PlaceOf(c)' = "answered"
    BY <1>0, <2>1, <2>3, <2>4, <2>6 DEF PlaceParts
  <2>8. Contract!Moves(c, PlaceOf(c))
    BY <2>1, <2>5, <2>7 DEF Contract!Moves, Contract!Goes, At
  <2>. QED  BY <2>8, ContractMove
<1>. QED  BY <1>1, <1>2, <1>3 DEF Outside

\* A thread that lets go of its connection was the only one at work on it.
LEMMA WorkDrop ==
    ASSUME TypeOK, Hold, NEW t \in Threads, pc[t] \in Busy \ {"restart"}, NEW l,
           l # "work", Goto(t, l), \A u \in Threads \ {t} : item'[u] = item[u]
    PROVE  AtWork' = AtWork \ {item[t]}
<1>1. item[t] # None /\ \A u \in Threads \ {t} : pc[u] = "work" => item[u] # item[t]
  BY DEF Hold
<1>2. pc'[t] # "work" /\ \A u \in Threads \ {t} : pc'[u] = pc[u]
  BY DEF Goto, TypeOK
<1>. QED  BY <1>1, <1>2 DEF AtWork

LEMMA ContractServe ==
    ASSUME Before, NEW t \in Threads, Serve(t)
    PROVE  [Contract!Next]_(Contract!vars)
<1>. USE DEF mainVars
<1>0. TypeOK /\ Conn /\ Apart /\ Hold /\ IInv /\ PlaceParts /\ PlaceParts'
  BY DEF Before, IInv, Conn
<1>c. PICK c \in Conns : c = item[t] /\ c # None
  BY <1>0 DEF Serve, Hold, TypeOK, Busy
<1>. USE <1>c
<1>1. /\ pc[t] = "work" /\ pc[t] \in Busy \ {"restart"} /\ "done" \in Busy \ {"restart"}
      /\ "next" \notin Busy
      /\ UNCHANGED <<accepted, sockets, queue, mpc, cur, bExit>>
  BY DEF Serve, Busy
<1>2. /\ c \in Conns /\ c \in AtWork /\ c \in Hands
      /\ Listed' = Listed /\ Queued' = Queued
  BY <1>0, <1>1, WorkInHand DEF AtWork, Listed, Queued
<1>3. PlaceOf(c) = "reading"
  BY <1>0, <1>2 DEF PlaceParts
<1>4. AtWork' = AtWork \ {c}
  <2>1. PICK l \in {"done", "next"} : Goto(t, l)
    BY DEF Serve
  <2>2. \A u \in Threads \ {t} : item'[u] = item[u]
    BY <1>0 DEF Serve, TypeOK
  <2>. QED  BY <1>0, <1>1, <2>1, <2>2, WorkDrop
<1>5. CASE Goto(t, "done") /\ pending[c] = "data"
  <2>1. /\ pending' = [pending EXCEPT ![c] = "none"] /\ UNCHANGED <<item, deferred, closed>>
    BY <1>0, <1>5 DEF Serve, Goto, TypeOK
  <2>2. Hands' = Hands
    BY <1>0, <1>1, <1>5, <2>1 DEF Hands, Goto, TypeOK
  <2>3. At' = [At EXCEPT ![c] = PlaceOf(c)']
    BY <1>0, <1>1, <1>2, <1>4, <2>1, <2>2, OnePlace DEF Within
  <2>4. PlaceOf(c)' = "answered"
    BY <1>0, <1>2, <1>4, <2>2 DEF PlaceParts
  <2>5. Contract!Serve(c)
    BY <1>1, <1>2, <1>3, <1>5, <2>1, <2>3, <2>4
    DEF Contract!Serve, Contract!Goes, Contract!Gets, At
  <2>. QED  BY <1>2, <2>5 DEF Contract!Next
<1>6. CASE Goto(t, "next") /\ item' = [item EXCEPT ![t] = None]
  <2>1. Hands' = Hands \ {c}
    BY <1>0, <1>1, <1>6, HoldDrop
  <2>2. CASE /\ pending[c] = "data" /\ pending' = [pending EXCEPT ![c] = "none"]
             /\ deferred' = deferred \cup {c} /\ UNCHANGED closed
    <3>1. At' = [At EXCEPT ![c] = PlaceOf(c)']
      BY <1>0, <1>1, <1>2, <1>4, <2>1, <2>2, OnePlace DEF Within
    <3>2. PlaceOf(c)' = "left"
      BY <1>0, <1>2, <2>2 DEF PlaceParts
    <3>3. Contract!Serve(c)
      BY <1>1, <1>2, <1>3, <2>2, <3>1, <3>2
      DEF Contract!Serve, Contract!Goes, Contract!Gets, At
    <3>. QED  BY <1>2, <3>3 DEF Contract!Next
  <2>3. CASE /\ pending[c] = "hup" /\ Close({c}) /\ UNCHANGED <<pending, deferred>>
    <3>1. At' = [At EXCEPT ![c] = PlaceOf(c)']
      BY <1>0, <1>1, <1>2, <1>4, <2>1, <2>3, OnePlace DEF Within, Close
    <3>2. PlaceOf(c)' = "closed"
      BY <1>0, <1>2, <2>3 DEF PlaceParts, Close
    <3>3. Contract!Moves(c, PlaceOf(c))
      BY <1>1, <1>2, <1>3, <2>3, <3>1, <3>2 DEF Contract!Moves, Contract!Goes, At
    <3>. QED  BY <1>2, <3>3, ContractMove
  <2>4. Goto(t, "done") => FALSE
    BY <1>0, <1>6 DEF Goto, TypeOK
  <2>. QED  BY <2>2, <2>3, <2>4 DEF Serve
<1>. QED  BY <1>5, <1>6 DEF Serve

LEMMA ContractTakes ==
    ASSUME Before, NEW t \in Threads, Take(t), pc[t] \notin Busy,
           UNCHANGED <<connVars, mainVars>>
    PROVE  [Contract!Next]_(Contract!vars)
<1>. USE DEF connVars, mainVars
<1>0. TypeOK /\ Conn /\ Apart /\ Hold /\ IInv /\ PlaceParts /\ PlaceParts'
  BY DEF Before, IInv, Conn
<1>1. PICK h \in Conns : /\ h = Head(queue[QueueOf(t)])
                         /\ h \in Queued /\ Queued' = Queued \ {h}
  BY <1>0, LinesTake DEF Conn
<1>2. item' = [item EXCEPT ![t] = h] /\ Goto(t, "work") /\ "work" \in Busy \ {"restart"}
  BY <1>1 DEF Take, Busy
<1>3. h \notin Hands /\ pending[h] # "none"
  BY <1>0, <1>1 DEF Apart, Before, Ready, Way
<1>4. Hands' = Hands \cup {h} /\ Listed' = Listed
  BY <1>0, <1>1, <1>2, <1>3, HoldTake DEF Listed
<1>5. AtWork' = AtWork \cup {h}
  <2>1. item'[t] = h /\ pc'[t] = "work" /\ pc[t] # "work"
    BY <1>0, <1>2 DEF Goto, TypeOK
  <2>2. \A u \in Threads \ {t} : item'[u] = item[u] /\ pc'[u] = pc[u]
    BY <1>0, <1>2 DEF Goto, TypeOK
  <2>. QED  BY <2>1, <2>2 DEF AtWork
<1>6. At' = [At EXCEPT ![h] = PlaceOf(h)']
  BY <1>0, <1>1, <1>4, <1>5, OnePlace DEF Within
<1>7. PlaceOf(h) = "queued" /\ PlaceOf(h)' = "reading"
  BY <1>0, <1>1, <1>5 DEF PlaceParts
<1>8. Contract!Moves(h, PlaceOf(h))
  BY <1>1, <1>3, <1>6, <1>7 DEF Contract!Moves, Contract!Goes, At
<1>. QED  BY <1>1, <1>8, ContractMove

\* A thread closes the connection it has answered, or gives it back.
LEMMA ContractDone ==
    ASSUME Before, NEW t \in Threads, NotifyDone(t) \/ Requeue(t) \/ NotifyRestart(t)
    PROVE  [Contract!Next]_(Contract!vars)
<1>. USE DEF mainVars
<1>0. TypeOK /\ Conn /\ Apart /\ Hold /\ IInv /\ PlaceParts /\ PlaceParts'
  BY DEF Before, IInv, Conn
<1>1. /\ pc[t] \in {"done", "requeue", "restart"} /\ pc[t] \in Busy
      /\ UNCHANGED <<accepted, queue, deferred, mpc, cur, pending, bExit>>
  BY DEF NotifyDone, Requeue, NotifyRestart, Busy
<1>2. PICK c \in Conns : c = item[t] /\ c # None
  BY <1>0, <1>1 DEF Hold, TypeOK
<1>. USE <1>2
<1>3. PICK l \in Pcs \ {"work"} : Goto(t, l)
  BY DEF NotifyDone, Requeue, NotifyRestart, Rest, Pcs
<1>4. AtWork' = AtWork
  <2>1. \A u \in Threads : /\ pc'[u] = "work" <=> pc[u] = "work"
                           /\ pc[u] = "work" => u # t
    BY <1>0, <1>1, <1>3 DEF Goto, TypeOK
  <2>2. \A u \in Threads \ {t} : item'[u] = item[u]
    BY <1>0 DEF NotifyDone, Requeue, NotifyRestart, TypeOK
  <2>. QED  BY <2>1, <2>2, WorkSame
<1>5. Queued' = Queued
  BY <1>1 DEF Queued
<1>6. pc[t] # "restart" => PlaceOf(c) = "answered" /\ c \in Hands
  <2>1. pc[t] # "restart" => c \in Hands /\ c \notin AtWork
    BY <1>0, <1>1, <1>2 DEF Hands, AtWork, Hold
  <2>. QED  BY <1>0, <1>2, <2>1 DEF PlaceParts
<1>7. CASE /\ pc[t] = "done" /\ Close({c}) /\ item' = [item EXCEPT ![t] = None]
           /\ Rest(t) /\ UNCHANGED sockets
  <2>1. PICK k \in {"off", "next"} : Goto(t, k) /\ k \notin Busy
    BY <1>7, RestIsFree
  <2>2. Hands' = Hands \ {c} /\ Listed' = Listed /\ closed' = closed \cup {c}
    BY <1>0, <1>1, <1>7, <2>1, HoldDrop DEF Listed, Close
  <2>3. At' = [At EXCEPT ![c] = PlaceOf(c)']
    BY <1>0, <1>1, <1>2, <1>4, <1>5, <2>2, OnePlace DEF Within
  <2>4. PlaceOf(c)' = "closed"
    BY <1>0, <1>2, <2>2 DEF PlaceParts
  <2>5. Contract!Moves(c, PlaceOf(c))
    BY <1>1, <1>2, <1>6, <1>7, <2>3, <2>4 DEF Contract!Moves, Contract!Goes, At
  <2>. QED  BY <1>2, <2>5, ContractMove
<1>8. CASE pc[t] = "done" /\ Goto(t, "requeue") /\ UNCHANGED <<item, closed, sockets>>
  <2>1. Hands' = Hands /\ Listed' = Listed
    BY <1>0, <1>1, <1>8 DEF Hands, Listed, Goto, TypeOK
  <2>2. At' = At
    BY <1>0, <1>1, <1>4, <1>5, <1>8, <2>1, NoPlace
  <2>. QED  BY <1>1, <2>2 DEF Contract!vars, At
<1>9. CASE Requeue(t)
  <2>1. /\ pc[t] = "requeue" /\ Goto(t, "restart") /\ batch = {}
        /\ sockets' = sockets \cup {c} /\ UNCHANGED <<closed, item>>
    BY <1>9 DEF Requeue, Handling
  <2>2. mpc # "erase"
    BY <1>0, <2>1 DEF Conn, Main
  <2>3. Hands' = Hands \ {c} /\ Listed' = Listed \cup {c}
    BY <1>0, <1>1, <2>1, <2>2, HoldDrop DEF Listed
  <2>4. At' = [At EXCEPT ![c] = PlaceOf(c)']
    BY <1>0, <1>1, <1>2, <1>4, <1>5, <2>1, <2>3, OnePlace DEF Within
  <2>5. PlaceOf(c)' = "listening"
    BY <1>0, <1>2, <2>3 DEF PlaceParts
  <2>6. Contract!Moves(c, PlaceOf(c))
    BY <1>1, <1>2, <1>6, <2>1, <2>4, <2>5 DEF Contract!Moves, Contract!Goes, At
  <2>. QED  BY <1>2, <2>6, ContractMove
<1>10. CASE NotifyRestart(t)
  <2>1. /\ pc[t] = "restart" /\ item' = [item EXCEPT ![t] = None] /\ Rest(t)
        /\ UNCHANGED <<closed, sockets>>
    BY <1>10 DEF NotifyRestart
  <2>2. PICK k \in {"off", "next"} : Goto(t, k) /\ k \notin Busy
    BY <2>1, RestIsFree
  <2>3. Hands' = Hands /\ Listed' = Listed
    BY <1>0, <1>1, <2>1, <2>2, HoldRest DEF Listed
  <2>4. At' = At
    BY <1>0, <1>1, <1>4, <1>5, <2>1, <2>3, NoPlace
  <2>. QED  BY <1>1, <2>4 DEF Contract!vars, At
<1>. QED  BY <1>7, <1>8, <1>9, <1>10 DEF NotifyDone

LEMMA ContractThread ==
    ASSUME Before, NEW t \in Threads, ThreadStep(t) \/ SpuriousWakeup(t)
    PROVE  [Contract!Next]_(Contract!vars)
<1>. USE DEF connVars, mainVars
<1>0. TypeOK /\ IInv /\ PlaceParts /\ PlaceParts'
  BY DEF Before, IInv
<1>1. CASE NextItem(t) \/ NotifyIdle(t) \/ WaitItem(t) \/ Wakeup(t) \/ SpuriousWakeup(t)
  <2>1. pc[t] \notin Busy
    BY <1>1 DEF NextItem, NotifyIdle, WaitItem, Wakeup, SpuriousWakeup, Busy
  <2>2. UNCHANGED <<connVars, mainVars>>
    BY <1>1 DEF NextItem, NotifyIdle, WaitItem, Wakeup, SpuriousWakeup
  <2>3. CASE Take(t)
    BY <2>1, <2>2, <2>3, ContractTakes
  <2>4. CASE /\ UNCHANGED <<queue, item>>
             /\ \E l \in {"off", "next", "idle", "wait", "waiting", "woken"} : Goto(t, l)
    <3>1. \A u \in Threads : /\ pc'[u] = "work" <=> pc[u] = "work"
                             /\ pc'[u] = "restart" <=> pc[u] = "restart"
      BY <1>0, <2>1, <2>4 DEF Goto, TypeOK, Busy
    <3>2. Hands' = Hands /\ AtWork' = AtWork
      BY <2>4, <3>1, WorkSame DEF Hands
    <3>3. At' = At
      BY <1>0, <2>2, <2>4, <3>2, NoPlace DEF Listed, Queued
    <3>. QED  BY <2>2, <3>3 DEF Contract!vars, At
  <2>5. Take(t) \/ (UNCHANGED <<queue, item>> /\
                      \E l \in {"off", "next", "idle", "wait", "waiting", "woken"} : Goto(t, l))
    BY <1>1 DEF NextItem, NotifyIdle, WaitItem, Wakeup, SpuriousWakeup
  <2>. QED  BY <2>3, <2>4, <2>5
<1>. QED  BY <1>1, ContractServe, ContractDone DEF ThreadStep

\* The end of the main loop is the stop of the server.
Stopped == mpc \notin {"poll", "queueing", "erase"} => bExit

LEMMA StoppedKept == Stopped /\ [Next]_vars => Stopped'
<1>. SUFFICES ASSUME Stopped, [Next]_vars  PROVE Stopped'
  OBVIOUS
<1>. USE DEF Stopped, mainVars, Shut
<1>1. CASE MainStep
  BY <1>1 DEF MainStep, EpollWait, QueueItem, EraseSocket, HangUp, LockItems,
              DeleteWatchDog, SetThreadCount0, NotifyAll, JoinThreads, EmptyQueues,
              CloseSockets, InLoop
<1>2. ASSUME NEW t \in Threads, ThreadStep(t) \/ SpuriousWakeup(t)  PROVE Stopped'
  BY <1>2 DEF ThreadStep, NextItem, NotifyIdle, WaitItem, Wakeup, Serve, NotifyDone,
              Requeue, NotifyRestart, SpuriousWakeup
<1>3. ASSUME NEW c \in Conns, Outside(c)  PROVE Stopped'
  BY <1>3 DEF Outside, Request, Disconnect, Accept, Answer
<1>4. CASE Others
  BY <1>4 DEF Others, GetFrontItemAge, ForceAddThread, Hup, HupStep, HupCount,
              HupNotify, ShutDown
<1>5. CASE UNCHANGED vars
  BY <1>5 DEF vars
<1>. QED  BY <1>1, <1>2, <1>3, <1>4, <1>5 DEF Next, Outside, Others

LEMMA ContractOthers ==
    ASSUME Before, Others
    PROVE  [Contract!Next]_(Contract!vars)
<1>. USE DEF connVars, threadVars, mainVars, Shut
<1>0. TypeOK /\ Conn /\ Listing /\ IInv /\ PlaceParts /\ PlaceParts'
  BY DEF Before, IInv, Pool
<1>1. /\ UNCHANGED <<accepted, closed, sockets, deferred, queue, item, cur, mpc, pending>>
      /\ (\E n : Start(n)) \/ (\E K : WakeAll(K)) \/ UNCHANGED pc
  BY DEF Others, GetFrontItemAge, ForceAddThread, Hup, HupStep, HupCount,
         HupNotify, ShutDown
<1>2. \A t \in Threads : /\ pc'[t] = "work" <=> pc[t] = "work"
                         /\ pc'[t] = "restart" <=> pc[t] = "restart"
  <2>1. ASSUME NEW n, Start(n), NEW t \in Threads
        PROVE  pc'[t] = pc[t] \/ (pc[t] = "off" /\ pc'[t] = "next")
    BY <1>0, <2>1 DEF Start, Listing
  <2>2. ASSUME NEW K, WakeAll(K), NEW t \in Threads
        PROVE  pc'[t] = pc[t] \/ (pc[t] = "waiting" /\ pc'[t] = "woken")
    BY <2>2 DEF WakeAll
  <2>. QED  BY <1>1, <2>1, <2>2
<1>3. Hands' = Hands /\ AtWork' = AtWork
  BY <1>1, <1>2, WorkSame DEF Hands
<1>4. At' = At
  BY <1>0, <1>1, <1>3, NoPlace DEF Listed, Queued
<1>5. CASE ShutDown
  <2>1. Contract!Stop
    BY <1>1, <1>4, <1>5 DEF Contract!Stop, ShutDown, At
  <2>. QED  BY <2>1 DEF Contract!Next
<1>6. CASE GetFrontItemAge \/ ForceAddThread \/ Hup \/ HupStep
  <2>1. bExit' = bExit
    BY <1>6 DEF GetFrontItemAge, ForceAddThread, Hup, HupStep, HupCount, HupNotify
  <2>. QED  BY <1>1, <1>4, <2>1 DEF Contract!vars, At
<1>. QED  BY <1>5, <1>6 DEF Others

LEMMA ContractMain ==
    ASSUME Before, Stopped, MainStep
    PROVE  [Contract!Next]_(Contract!vars)
<1>. USE DEF connVars, threadVars, mainVars, hupVars, Shut
<1>0. /\ TypeOK /\ Conn /\ Apart /\ Main /\ Polls /\ Listing
      /\ IInv /\ PlaceParts /\ PlaceParts'
  BY DEF Before, IInv, Conn, Pool
<1>1. /\ UNCHANGED <<accepted, pending, item, deferred, bExit>>
      /\ (\E t : Goto(t, "woken") /\ pc[t] = "waiting") \/ (\E K : WakeAll(K)) \/ UNCHANGED pc
  BY DEF MainStep, EpollWait, QueueItem, EraseSocket, HangUp, LockItems, DeleteWatchDog,
         SetThreadCount0, NotifyAll, JoinThreads, EmptyQueues, CloseSockets, Waiting
<1>2. \A t \in Threads : /\ pc'[t] = "work" <=> pc[t] = "work"
                         /\ pc'[t] = "restart" <=> pc[t] = "restart"
  BY <1>0, <1>1 DEF Goto, WakeAll, TypeOK
<1>3. Hands' = Hands /\ AtWork' = AtWork
  BY <1>1, <1>2, WorkSame DEF Hands
<1>4. CASE \/ EpollWait \/ EraseSocket \/ DeleteWatchDog \/ SetThreadCount0
           \/ NotifyAll \/ JoinThreads \/ \E c \in Conns : LockItems(c)
  <2>1. UNCHANGED <<closed, queue>>
    BY <1>4 DEF EpollWait, EraseSocket, DeleteWatchDog, SetThreadCount0, NotifyAll,
                JoinThreads, LockItems
  <2>2. Listed' = Listed
    BY <1>4 DEF EpollWait, EraseSocket, DeleteWatchDog, SetThreadCount0, NotifyAll,
                JoinThreads, LockItems, InLoop, Listed
  <2>3. At' = At
    BY <1>0, <1>1, <1>3, <2>1, <2>2, NoPlace DEF Queued
  <2>. QED  BY <1>1, <2>3 DEF Contract!vars, At
<1>5. ASSUME NEW c \in Conns, HangUp(c)  PROVE [Contract!Next]_(Contract!vars)
  <2>1. /\ mpc = "poll" /\ mpc' = "poll" /\ c \in batch /\ sockets' = sockets \ {c}
        /\ closed' = closed \cup {c} /\ queue' = queue /\ pending[c] = "hup"
    BY <1>5 DEF HangUp, InLoop, Close
  <2>2. Listed' = Listed \ {c} /\ Queued' = Queued
    BY <2>1 DEF Listed, Queued
  <2>3. c \in Listed
    BY <1>0, <2>1, ConnAssumption DEF Main, Polls
  <2>4. At' = [At EXCEPT ![c] = PlaceOf(c)']
    BY <1>0, <1>1, <1>3, <2>1, <2>2, OnePlace DEF Within
  <2>5. PlaceOf(c) = "listening" /\ PlaceOf(c)' = "closed"
    BY <1>0, <2>1, <2>3 DEF PlaceParts
  <2>6. Contract!Moves(c, PlaceOf(c))
    BY <1>1, <2>1, <2>4, <2>5 DEF Contract!Moves, Contract!Goes, At
  <2>. QED  BY <2>6, ContractMove
<1>6. CASE QueueItem
  <2>1. PICK c \in Conns : c = cur /\ c \in Listed /\ pending[c] # "none"
    BY <1>0, <1>6 DEF QueueItem, Main, Listed, TypeOK, Before, Ready, Way
  <2>2. /\ mpc = "queueing" /\ mpc' = "erase" /\ UNCHANGED <<sockets, cur, closed>>
    BY <1>6 DEF QueueItem
  <2>3. Listed' = Listed \ {c} /\ Queued' = Queued \cup {c}
    BY <1>0, <1>6, <2>1, <2>2, LinesAppend DEF Listed
  <2>4. At' = [At EXCEPT ![c] = PlaceOf(c)']
    BY <1>0, <1>1, <1>3, <2>2, <2>3, OnePlace DEF Within
  <2>5. PlaceOf(c) = "listening" /\ PlaceOf(c)' = "queued"
    BY <1>0, <2>1, <2>3 DEF PlaceParts
  <2>6. Contract!Moves(c, PlaceOf(c))
    BY <1>1, <2>1, <2>4, <2>5 DEF Contract!Moves, Contract!Goes, At
  <2>. QED  BY <2>6, ContractMove
<1>7. CASE EmptyQueues
  <2>1. PICK S : S = Queued
    OBVIOUS
  <2>2. /\ mpc = "empty" /\ mpc' = "close" /\ closed' = closed \cup S
        /\ UNCHANGED <<sockets, cur>>
    BY <1>0, <1>7, <2>1, QueuedIs DEF EmptyQueues, Close
  <2>3. Queued' = {}
    <3>1. \A k \in {"normal", "prio"} : queue'[k] = <<>>
      BY <1>0, <1>7 DEF EmptyQueues, TypeOK
    <3>2. Queued' = Elems(queue'["normal"]) \cup Elems(queue'["prio"])
      BY DEF Queued, Elems
    <3>. QED  BY <3>1, <3>2 DEF Elems
  <2>4. Listed' = Listed
    BY <2>2 DEF Listed
  <2>5. \A c \in Conns : PlaceOf(c) = "queued" <=> c \in S
    BY <1>0, <2>1 DEF PlaceParts, Apart
  <2>6. At' = [c \in Conns |-> IF At[c] = "queued" THEN "closed" ELSE At[c]]
    BY <1>0, <1>1, <1>3, <2>1, <2>2, <2>3, <2>4, <2>5, AllClosed DEF Within
  <2>7. Contract!CloseAll("queued")
    BY <1>1, <2>2, <2>6 DEF Contract!CloseAll, At, Stopped
  <2>. QED  BY <2>7 DEF Contract!Next
<1>8. CASE CloseSockets
  <2>1. PICK S : S = Listed
    OBVIOUS
  <2>2. /\ mpc = "close" /\ mpc' = "exit" /\ sockets' = {} /\ S = sockets
        /\ closed' = closed \cup S /\ queue' = queue
    BY <1>8, <2>1 DEF CloseSockets, Close, Listed
  <2>3. Queued' = Queued /\ Listed' = {}
    BY <2>2 DEF Listed, Queued
  <2>4. \A c \in Conns : PlaceOf(c) = "listening" <=> c \in S
    BY <1>0, <2>1 DEF PlaceParts, Apart
  <2>5. At' = [c \in Conns |-> IF At[c] = "listening" THEN "closed" ELSE At[c]]
    BY <1>0, <1>1, <1>3, <2>1, <2>2, <2>3, <2>4, AllClosed DEF Within
  <2>6. Contract!CloseAll("listening")
    BY <1>1, <2>2, <2>5 DEF Contract!CloseAll, At, Stopped
  <2>. QED  BY <2>6 DEF Contract!Next
<1>. QED  BY <1>4, <1>5, <1>6, <1>7, <1>8 DEF MainStep

LEMMA ContractInit == Init => Contract!Init
<1>. SUFFICES ASSUME Init  PROVE Contract!Init
  OBVIOUS
<1>1. \A c \in Conns : PlaceOf(c) = "nowhere"
  BY DEF Init, PlaceOf
<1>. QED  BY <1>1 DEF Init, Contract!Init

LEMMA ContractStep ==
    Before /\ Stopped /\ [Next]_vars => [Contract!Next]_(Contract!vars)
<1>. SUFFICES ASSUME Before, Stopped, [Next]_vars
              PROVE  [Contract!Next]_(Contract!vars)
  OBVIOUS
<1>1. CASE UNCHANGED vars
  <2>1. At' = At
    BY <1>1, NoPlace DEF Before, vars, Listed, Queued, Hands, AtWork
  <2>. QED  BY <1>1, <2>1 DEF vars, Contract!vars, At
<1>. QED
  BY <1>1, ContractOutside, ContractThread, ContractMain, ContractOthers
  DEF Next, Outside, Others

-----------------------------------------------------------------------------
(* The theorems. *)

\* The variables keep their types; in particular nothing but connections is
\* ever queued, and main never queues "no connection".
THEOREM TypeCorrect == Spec => []TypeOK
<1>1. IInv => TypeOK
  BY DEF IInv
<1>. QED  BY <1>1, Inductive, PTL

\* A connection is listened on, queued, worked on, left to the notification
\* manager or closed, one of them and once: QueueItem, GetNextWorkItem,
\* NotifyDone and MainLoop hand it on without losing or doubling it.
THEOREM OwnedOnce == Spec => []OneOwner
<1>. QED  BY OneOwnerHolds, Inductive, PTL

\* MainLoop finds every event's socket in m_setSockets, and alive; and what it
\* was told of a connection is still so when a worker comes to read from it.
THEOREM EventsFound == Spec => []EventsHold
<1>1. Init => Ready
  BY InitReady
<1>2. IInv /\ Ready /\ [Next]_vars => Ready'
  BY ReadyKept
<1>3. IInv /\ Ready => EventsHold
  <2>. SUFFICES ASSUME IInv, Ready  PROVE EventsHold
    OBVIOUS
  <2>1. polled \cup (batch \ {cur}) \subseteq Listed /\ Listed \cap closed = {}
    BY DEF IInv, Conn, Polls, Apart
  <2>2. OnTheWay = Way
    BY QueuedIs DEF IInv, OnTheWay, Way, AtWork
  <2>. QED  BY <2>1, <2>2 DEF EventsHold, Listed, Ready
<1>. QED  BY <1>1, <1>2, <1>3, Inductive, PTL DEF Spec

\* The dispatcher keeps its contract with every connection, for any connections,
\* threads, signals and wakeups: it is in one place at a time, its request read
\* by one worker that finds it there and answered once, and it is closed only
\* when its client is gone, after an answer or at the end of the server.
THEOREM Implements == Spec => ContractHolds
<1>1. Init => Ready /\ Stopped
  BY InitReady DEF Init, Stopped
<1>2. IInv /\ Ready /\ [Next]_vars => Ready'
  BY ReadyKept
<1>3. Spec => [](IInv /\ Ready /\ Stopped)
  BY <1>1, <1>2, StoppedKept, Inductive, PTL DEF Spec
<1>4. IInv /\ IInv' /\ Ready => Before
  BY PlacesKnown, PTL DEF Before
<1>5. Before /\ Stopped /\ [Next]_vars => [Contract!Next]_(Contract!vars)
  BY ContractStep
<1>. QED  BY <1>3, <1>4, <1>5, ContractInit, PTL DEF Spec, ContractHolds, Contract!Spec

\* No queue has work while all its threads sleep: QueueItem's signal is never
\* lost, whatever NotifyIdle, SetThreadCount and the watchdog do meanwhile.
THEOREM NoneStranded == Spec => []NotStranded
<1>. QED  BY NotStrandedHolds, Inductive, PTL

\* NotifyIdle never takes the pool below the number of threads asked for.
THEOREM ThreadsEnough == Spec => []EnoughThreads
<1>1. IInv => EnoughThreads
  BY DEF IInv, Pool
<1>. QED  BY <1>1, Inductive, PTL
=============================================================================
