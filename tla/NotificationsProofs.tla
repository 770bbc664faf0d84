------------------------- MODULE NotificationsProofs -------------------------
(***************************************************************************)
(* Proofs about Notifications, for any sessions, connections, workers and  *)
(* producers: the types, that no wakeup is lost, that each connection is   *)
(* at one place, and that notifications come once and in order.  Settled   *)
(* is inductive: besides the first two it says what each thread has in     *)
(* hand, and that the manager's copy of the active sessions is worked off  *)
(* before the next one is made (CopyActive would else lose the rest of     *)
(* it).  Places and Order are inductive on top of it, and with them the    *)
(* notifications keep their contract (NotifyContract), in which a call of  *)
(* a client is what CallOf says of its connection.  Joined says how the    *)
(* manager's thread ends.                                                  *)
(***************************************************************************)
EXTENDS Notifications, FiniteSetTheorems, SequenceTheorems, TLAPS

\* What the threads have in hand at each place.
InPlace ==
    /\ \A w \in Workers : /\ wpc[w] = "add" => wses[w] \in Sessions /\ wconn[w] \in Conns
                          /\ wpc[w] = "tell" => wses[w] \in Sessions
    /\ mpc \in {"validate", "update", "take", "send"}
          => ses \in Sessions /\ requests[ses] \in Conns
    /\ mpc = "done" => item \in Conns
    /\ mpc \in {"check", "wait", "scan", "exit"} => todo = {}

Settled == TypeOK /\ InPlace /\ NoLostWakeup

LEMMA SettledInit == Init => Settled
<1> SUFFICES ASSUME Init PROVE Settled
    OBVIOUS
<1>1. TypeOK
    BY BoundAssumption DEF Init, TypeOK, Notes
<1>2. InPlace
    BY DEF Init, InPlace
<1>3. NoLostWakeup
    BY DEF Init, NoLostWakeup
<1>. QED BY <1>1, <1>2, <1>3 DEF Settled

\* The types.
LEMMA TypeStep == Settled /\ [Next]_vars => TypeOK'
<1> SUFFICES ASSUME Settled, [Next]_vars
             PROVE  TypeOK'
    OBVIOUS
<1>1. ASSUME NEW w \in Workers, NEW s \in Sessions, NEW c \in Conns,
       GetItemsCall(w, s, c)
      PROVE  TypeOK'
    BY <1>1, BoundAssumption, NoneAssumption DEF GetItemsCall, reqVars,
       prodVars, manVars, Settled, TypeOK, InPlace, Notes
<1>2. ASSUME NEW w \in Workers, AddRequest(w)
      PROVE  TypeOK'
    BY <1>2, BoundAssumption, NoneAssumption DEF AddRequest, GiveBack,
       RequestsFree, prodVars, manVars, Settled, TypeOK, InPlace, Notes
<1>3. ASSUME NEW w \in Workers, TellRequest(w)
      PROVE  TypeOK'
    BY <1>3, BoundAssumption, NoneAssumption DEF TellRequest, NotifyChange,
       connVars, prodVars, manVars, Settled, TypeOK, InPlace, Notes
<1>4. ASSUME NEW p \in Producers, AddNotification(p)
      PROVE  TypeOK'
  <2>1. produced + 1 \in Notes /\ produced' \in 0 .. MaxNotes
    BY <1>4, BoundAssumption DEF AddNotification, Settled, TypeOK, Notes
  <2>2. list' \in Seq(Notes)
    BY <1>4, <2>1 DEF AddNotification, Settled, TypeOK
  <2>3. ppc' \in [Producers -> {"off", "added", "telling"}]
    BY <1>4 DEF AddNotification, Settled, TypeOK
  <2>. QED BY <1>4, <2>1, <2>2, <2>3 DEF AddNotification, connVars, reqVars,
           workVars, manVars, Settled, TypeOK, Notes
<1>5. ASSUME NEW p \in Producers, LockSessions(p)
      PROVE  TypeOK'
    BY <1>5, BoundAssumption, NoneAssumption DEF LockSessions, Members,
       Telling, connVars, reqVars, workVars, manVars, Settled, TypeOK,
       InPlace, Notes
<1>6. ASSUME NEW p \in Producers, TellSessions(p)
      PROVE  TypeOK'
  <2>1. CASE \E s \in rest[p] : /\ active' = active \cup {s} /\ ppc' = ppc
                               /\ rest' = [rest EXCEPT ![p] = rest[p] \ {s}]
    <3>1. PICK s \in rest[p] : /\ active' = active \cup {s} /\ ppc' = ppc
                               /\ rest' = [rest EXCEPT ![p] = rest[p] \ {s}]
      BY <2>1
    <3>2. s \in Sessions
      BY DEF Settled, TypeOK
    <3>3. active' \in SUBSET Sessions /\ rest' \in [Producers -> SUBSET Sessions]
      BY <3>1, <3>2 DEF Settled, TypeOK
    <3>. QED BY <1>6, <3>1, <3>3 DEF TellSessions, connVars, workVars, manVars,
             Settled, TypeOK, Notes
  <2>2. CASE /\ rest[p] = {} /\ ppc' = [ppc EXCEPT ![p] = "off"]
             /\ UNCHANGED <<active, rest>>
    BY <1>6, <2>2 DEF TellSessions, connVars, workVars, manVars, Settled, TypeOK,
       Notes
  <2>. QED BY <1>6, <2>1, <2>2 DEF TellSessions, NotifyChange
<1>7. ASSUME NEW s \in Sessions, Age(s)
      PROVE  TypeOK'
    BY <1>7, BoundAssumption, NoneAssumption DEF Age, connVars, workVars,
       prodVars, manVars, Settled, TypeOK, InPlace, Notes
<1>8. ASSUME NEW s \in Sessions, Close(s)
      PROVE  TypeOK'
    BY <1>8, BoundAssumption, NoneAssumption DEF Close, NotifyChange,
       connVars, workVars, prodVars, manVars, Settled, TypeOK, InPlace, Notes
<1>9. ASSUME NEW s \in Sessions, Leave(s)
      PROVE  TypeOK'
    BY <1>9, BoundAssumption, NoneAssumption DEF Leave, Telling, Held,
       connVars, reqVars, workVars, prodVars, manVars, Settled, TypeOK,
       InPlace, Notes
<1>10. ASSUME NEW s \in Sessions, TellLeft(s)
      PROVE  TypeOK'
    BY <1>10, BoundAssumption, NoneAssumption DEF TellLeft, NotifyChange,
       connVars, workVars, prodVars, manVars, Settled, TypeOK, InPlace, Notes
<1>11. ASSUME NEW c \in Conns, Break(c)
      PROVE  TypeOK'
    BY <1>11, BoundAssumption, NoneAssumption DEF Break, reqVars, workVars,
       prodVars, manVars, Settled, TypeOK, InPlace, Notes
<1>12. ASSUME CheckExit
      PROVE  TypeOK'
    BY <1>12, BoundAssumption, NoneAssumption DEF CheckExit, World, reqVars,
       workVars, Settled, TypeOK, InPlace, Notes
<1>13. ASSUME CopyActive
      PROVE  TypeOK'
    BY <1>13, BoundAssumption, NoneAssumption DEF CopyActive, World, workVars,
       Settled, TypeOK, InPlace, Notes
<1>14. ASSUME NextSession
      PROVE  TypeOK'
    BY <1>14, BoundAssumption, NoneAssumption DEF NextSession, World, reqVars,
       workVars, Settled, TypeOK, InPlace, Notes
<1>15. ASSUME Validate
      PROVE  TypeOK'
    BY <1>15, BoundAssumption, NoneAssumption DEF Validate, World, reqVars,
       workVars, Settled, TypeOK, InPlace, Notes
<1>16. ASSUME UpdateSessionTime
      PROVE  TypeOK'
    BY <1>16, BoundAssumption, NoneAssumption DEF UpdateSessionTime, Telling,
       World, reqVars, workVars, Settled, TypeOK, InPlace, Notes
<1>17. ASSUME TakeItems
      PROVE  TypeOK'
    BY <1>17, BoundAssumption, NoneAssumption DEF TakeItems, World, reqVars,
       workVars, Settled, TypeOK, InPlace, Notes
<1>18. ASSUME Send
      PROVE  TypeOK'
  <2>1. requests[ses] \in Conns /\ ses \in Sessions
    BY <1>18 DEF Send, Settled, InPlace
  <2>2. /\ item' \in Conns \cup {None} /\ old' \in SUBSET Sessions
        /\ requests' \in [Sessions -> Conns \cup {None}]
    BY <1>18, <2>1 DEF Send, Settled, TypeOK
  <2>3. \A i \in DOMAIN out : out[i] \in Notes
    BY DEF Settled, TypeOK
  <2>4. lost' \in SUBSET Notes
    BY <1>18, <2>3 DEF Send, Settled, TypeOK
  <2>5. handed \o out \in Seq(Notes)
    BY ConcatProperties DEF Settled, TypeOK
  <2>6. out' \in Seq(Notes)
    BY <1>18 DEF Send
  <2>7. handed' = handed \o out \/ handed' = handed
    BY <1>18, Zenon DEF Send
  <2>8. handed' \in Seq(Notes)
    BY <2>5, <2>7 DEF Settled, TypeOK
  <2>. QED BY <1>18, <2>2, <2>4, <2>6, <2>8 DEF Send, World, workVars, Settled, TypeOK,
           Notes
<1>19. ASSUME NotifyDone
      PROVE  TypeOK'
    BY <1>19, BoundAssumption, NoneAssumption DEF NotifyDone, GiveBack, World,
       reqVars, workVars, Settled, TypeOK, InPlace, Notes
<1>20. ASSUME Scan
      PROVE  TypeOK'
    BY <1>20, BoundAssumption, NoneAssumption DEF Scan, NotifyChange, World,
       workVars, Settled, TypeOK, InPlace, Notes
<1>21. ASSUME StopServer
      PROVE  TypeOK'
    BY <1>21, BoundAssumption, NoneAssumption DEF StopServer, Held, Rest,
       prodVars, reqVars, connVars, workVars, manVars, Settled, TypeOK,
       InPlace, Notes
<1>22. ASSUME LockTable
      PROVE  TypeOK'
    BY <1>22, BoundAssumption, NoneAssumption DEF LockTable, Rest, prodVars,
       reqVars, connVars, workVars, manVars, Settled, TypeOK, InPlace, Notes
<1>23. ASSUME SetExit
      PROVE  TypeOK'
    BY <1>23, BoundAssumption, NoneAssumption DEF SetExit, Rest, prodVars,
       reqVars, connVars, workVars, manVars, Settled, TypeOK, InPlace, Notes
<1>24. ASSUME JoinThread
      PROVE  TypeOK'
    BY <1>24, BoundAssumption, NoneAssumption DEF JoinThread, workVars,
       prodVars, manVars, Settled, TypeOK, InPlace, Notes
<1>25. CASE UNCHANGED vars
    BY <1>25, BoundAssumption, NoneAssumption DEF vars, Settled, TypeOK,
       InPlace, Notes
<1>. QED BY <1>1, <1>2, <1>3, <1>4, <1>5, <1>6, <1>7, <1>8, <1>9, <1>10,
       <1>11, <1>12, <1>13, <1>14, <1>15, <1>16, <1>17, <1>18, <1>19, <1>20,
       <1>21, <1>22, <1>23, <1>24, <1>25 DEF Next, WorkerStep, ProducerStep,
       ManagerStep, StopStep

\* What the threads have in hand.
LEMMA PlaceStep == Settled /\ [Next]_vars => InPlace'
<1> SUFFICES ASSUME Settled, [Next]_vars
             PROVE  InPlace'
    OBVIOUS
<1>1. ASSUME NEW w \in Workers, NEW s \in Sessions, NEW c \in Conns,
       GetItemsCall(w, s, c)
      PROVE  InPlace'
    BY <1>1, NoneAssumption DEF GetItemsCall, reqVars, prodVars, manVars,
       Settled, TypeOK, InPlace
<1>2. ASSUME NEW w \in Workers, AddRequest(w)
      PROVE  InPlace'
    BY <1>2, NoneAssumption DEF AddRequest, GiveBack, RequestsFree, prodVars,
       manVars, Settled, TypeOK, InPlace
<1>3. ASSUME NEW w \in Workers, TellRequest(w)
      PROVE  InPlace'
    BY <1>3, NoneAssumption DEF TellRequest, NotifyChange, connVars, prodVars,
       manVars, Settled, TypeOK, InPlace
<1>4. ASSUME NEW p \in Producers, AddNotification(p)
      PROVE  InPlace'
    BY <1>4, NoneAssumption DEF AddNotification, connVars, reqVars, workVars,
       manVars, Settled, TypeOK, InPlace
<1>5. ASSUME NEW p \in Producers, LockSessions(p)
      PROVE  InPlace'
    BY <1>5, NoneAssumption DEF LockSessions, Members, Telling, connVars,
       reqVars, workVars, manVars, Settled, TypeOK, InPlace
<1>6. ASSUME NEW p \in Producers, TellSessions(p)
      PROVE  InPlace'
    BY <1>6, NoneAssumption DEF TellSessions, NotifyChange, connVars,
       workVars, manVars, Settled, TypeOK, InPlace
<1>7. ASSUME NEW s \in Sessions, Age(s)
      PROVE  InPlace'
    BY <1>7, NoneAssumption DEF Age, connVars, workVars, prodVars, manVars,
       Settled, TypeOK, InPlace
<1>8. ASSUME NEW s \in Sessions, Close(s)
      PROVE  InPlace'
    BY <1>8, NoneAssumption DEF Close, NotifyChange, connVars, workVars,
       prodVars, manVars, Settled, TypeOK, InPlace
<1>9. ASSUME NEW s \in Sessions, Leave(s)
      PROVE  InPlace'
    BY <1>9, NoneAssumption DEF Leave, Telling, Held, connVars, reqVars,
       workVars, prodVars, manVars, Settled, TypeOK, InPlace
<1>10. ASSUME NEW s \in Sessions, TellLeft(s)
      PROVE  InPlace'
    BY <1>10, NoneAssumption DEF TellLeft, NotifyChange, connVars, workVars,
       prodVars, manVars, Settled, TypeOK, InPlace
<1>11. ASSUME NEW c \in Conns, Break(c)
      PROVE  InPlace'
    BY <1>11, NoneAssumption DEF Break, reqVars, workVars, prodVars, manVars,
       Settled, TypeOK, InPlace
<1>12. ASSUME CheckExit
      PROVE  InPlace'
    BY <1>12, NoneAssumption DEF CheckExit, World, reqVars, workVars, Settled,
       TypeOK, InPlace
<1>13. ASSUME CopyActive
      PROVE  InPlace'
    BY <1>13, NoneAssumption DEF CopyActive, World, workVars, Settled, TypeOK,
       InPlace
<1>14. ASSUME NextSession
      PROVE  InPlace'
    BY <1>14, NoneAssumption DEF NextSession, World, reqVars, workVars,
       Settled, TypeOK, InPlace
<1>15. ASSUME Validate
      PROVE  InPlace'
    BY <1>15, NoneAssumption DEF Validate, World, reqVars, workVars, Settled,
       TypeOK, InPlace
<1>16. ASSUME UpdateSessionTime
      PROVE  InPlace'
    BY <1>16, NoneAssumption DEF UpdateSessionTime, Telling, World, reqVars,
       workVars, Settled, TypeOK, InPlace
<1>17. ASSUME TakeItems
      PROVE  InPlace'
    BY <1>17, NoneAssumption DEF TakeItems, World, reqVars, workVars, Settled,
       TypeOK, InPlace
<1>18. ASSUME Send
      PROVE  InPlace'
    BY <1>18, NoneAssumption DEF Send, World, workVars, Settled, TypeOK,
       InPlace
<1>19. ASSUME NotifyDone
      PROVE  InPlace'
    BY <1>19, NoneAssumption DEF NotifyDone, GiveBack, World, reqVars,
       workVars, Settled, TypeOK, InPlace
<1>20. ASSUME Scan
      PROVE  InPlace'
    BY <1>20, NoneAssumption DEF Scan, NotifyChange, World, workVars, Settled,
       TypeOK, InPlace
<1>21. ASSUME StopServer
      PROVE  InPlace'
    BY <1>21, NoneAssumption DEF StopServer, Held, Rest, prodVars, reqVars,
       connVars, workVars, manVars, Settled, TypeOK, InPlace
<1>22. ASSUME LockTable
      PROVE  InPlace'
    BY <1>22, NoneAssumption DEF LockTable, Rest, prodVars, reqVars, connVars,
       workVars, manVars, Settled, TypeOK, InPlace
<1>23. ASSUME SetExit
      PROVE  InPlace'
    BY <1>23, NoneAssumption DEF SetExit, Rest, prodVars, reqVars, connVars,
       workVars, manVars, Settled, TypeOK, InPlace
<1>24. ASSUME JoinThread
      PROVE  InPlace'
    BY <1>24, NoneAssumption DEF JoinThread, workVars, prodVars, manVars,
       Settled, TypeOK, InPlace
<1>25. CASE UNCHANGED vars
    BY <1>25, NoneAssumption DEF vars, Settled, TypeOK, InPlace
<1>. QED BY <1>1, <1>2, <1>3, <1>4, <1>5, <1>6, <1>7, <1>8, <1>9, <1>10,
       <1>11, <1>12, <1>13, <1>14, <1>15, <1>16, <1>17, <1>18, <1>19, <1>20,
       <1>21, <1>22, <1>23, <1>24, <1>25 DEF Next, WorkerStep, ProducerStep,
       ManagerStep, StopStep

\* No wakeup is lost by any step.
LEMMA WakeupStep == Settled /\ [Next]_vars => NoLostWakeup'
<1> SUFFICES ASSUME Settled, [Next]_vars
             PROVE  NoLostWakeup'
    OBVIOUS
<1>1. ASSUME NEW w \in Workers, NEW s \in Sessions, NEW c \in Conns,
       GetItemsCall(w, s, c)
      PROVE  NoLostWakeup'
    BY <1>1, NoneAssumption DEF GetItemsCall, reqVars, prodVars, manVars,
       Settled, TypeOK, InPlace, NoLostWakeup, InView
<1>2. ASSUME NEW w \in Workers, AddRequest(w)
      PROVE  NoLostWakeup'
    BY <1>2, NoneAssumption DEF AddRequest, GiveBack, RequestsFree, prodVars,
       manVars, Settled, TypeOK, InPlace, NoLostWakeup, InView
<1>3. ASSUME NEW w \in Workers, TellRequest(w)
      PROVE  NoLostWakeup'
    BY <1>3, NoneAssumption DEF TellRequest, NotifyChange, connVars, prodVars,
       manVars, Settled, TypeOK, InPlace, NoLostWakeup, InView
<1>4. ASSUME NEW p \in Producers, AddNotification(p)
      PROVE  NoLostWakeup'
    BY <1>4, NoneAssumption DEF AddNotification, connVars, reqVars, workVars,
       manVars, Settled, TypeOK, InPlace, NoLostWakeup, InView
<1>5. ASSUME NEW p \in Producers, LockSessions(p)
      PROVE  NoLostWakeup'
    BY <1>5, NoneAssumption DEF LockSessions, Members, Telling, connVars,
       reqVars, workVars, manVars, Settled, TypeOK, InPlace, NoLostWakeup,
       InView
<1>6. ASSUME NEW p \in Producers, TellSessions(p)
      PROVE  NoLostWakeup'
    BY <1>6, NoneAssumption DEF TellSessions, NotifyChange, connVars,
       workVars, manVars, Settled, TypeOK, InPlace, NoLostWakeup, InView
<1>7. ASSUME NEW s \in Sessions, Age(s)
      PROVE  NoLostWakeup'
    BY <1>7, NoneAssumption DEF Age, connVars, workVars, prodVars, manVars,
       Settled, TypeOK, InPlace, NoLostWakeup, InView
<1>8. ASSUME NEW s \in Sessions, Close(s)
      PROVE  NoLostWakeup'
    BY <1>8, NoneAssumption DEF Close, NotifyChange, connVars, workVars,
       prodVars, manVars, Settled, TypeOK, InPlace, NoLostWakeup, InView
<1>9. ASSUME NEW s \in Sessions, Leave(s)
      PROVE  NoLostWakeup'
  <2>1. /\ UNCHANGED <<list, ppc, rest, active, requests, wpc, wses, mpc, ses,
                       item, todo, stop>>
        /\ stage' = [stage EXCEPT ![s] = "left"] /\ ~Telling
    BY <1>9 DEF Leave, connVars, reqVars, workVars, prodVars, manVars
  <2>2. ASSUME NEW t \in Sessions, stage'[t] = "open"
        PROVE  stage[t] = "open"
    BY <2>1, <2>2 DEF Settled, TypeOK
  <2>3. ASSUME NEW t \in Sessions, InView(t) PROVE InView(t)'
    BY <2>1, <2>3 DEF InView, Telling
  <2>. QED BY <2>1, <2>2, <2>3 DEF Settled, NoLostWakeup
<1>10. ASSUME NEW s \in Sessions, TellLeft(s)
      PROVE  NoLostWakeup'
    BY <1>10, NoneAssumption DEF TellLeft, NotifyChange, connVars, workVars,
       prodVars, manVars, Settled, TypeOK, InPlace, NoLostWakeup, InView
<1>11. ASSUME NEW c \in Conns, Break(c)
      PROVE  NoLostWakeup'
    BY <1>11, NoneAssumption DEF Break, reqVars, workVars, prodVars, manVars,
       Settled, TypeOK, InPlace, NoLostWakeup, InView
<1>12. ASSUME CheckExit
      PROVE  NoLostWakeup'
    BY <1>12, NoneAssumption DEF CheckExit, World, reqVars, workVars, Settled,
       TypeOK, InPlace, NoLostWakeup, InView
<1>13. ASSUME CopyActive
      PROVE  NoLostWakeup'
    BY <1>13, NoneAssumption DEF CopyActive, World, workVars, Settled, TypeOK,
       InPlace, NoLostWakeup, InView
<1>14. ASSUME NextSession
      PROVE  NoLostWakeup'
    BY <1>14, NoneAssumption DEF NextSession, World, reqVars, workVars,
       Settled, TypeOK, InPlace, NoLostWakeup, InView
<1>15. ASSUME Validate
      PROVE  NoLostWakeup'
    BY <1>15, NoneAssumption DEF Validate, World, reqVars, workVars, Settled,
       TypeOK, InPlace, NoLostWakeup, InView
<1>16. ASSUME UpdateSessionTime
      PROVE  NoLostWakeup'
    BY <1>16, NoneAssumption DEF UpdateSessionTime, Telling, World, reqVars,
       workVars, Settled, TypeOK, InPlace, NoLostWakeup, InView
<1>17. ASSUME TakeItems
      PROVE  NoLostWakeup'
    BY <1>17, NoneAssumption DEF TakeItems, World, reqVars, workVars, Settled,
       TypeOK, InPlace, NoLostWakeup, InView
<1>18. ASSUME Send
      PROVE  NoLostWakeup'
    BY <1>18, NoneAssumption DEF Send, World, workVars, Settled, TypeOK,
       InPlace, NoLostWakeup, InView
<1>19. ASSUME NotifyDone
      PROVE  NoLostWakeup'
    BY <1>19, NoneAssumption DEF NotifyDone, GiveBack, World, reqVars,
       workVars, Settled, TypeOK, InPlace, NoLostWakeup, InView
<1>20. ASSUME Scan
      PROVE  NoLostWakeup'
    BY <1>20, NoneAssumption DEF Scan, NotifyChange, World, workVars, Settled,
       TypeOK, InPlace, NoLostWakeup, InView
<1>21. ASSUME StopServer
      PROVE  NoLostWakeup'
    BY <1>21, NoneAssumption DEF StopServer, Held, Rest, prodVars, reqVars,
       connVars, workVars, manVars, Settled, TypeOK, InPlace, NoLostWakeup,
       InView
<1>22. ASSUME LockTable
      PROVE  NoLostWakeup'
    BY <1>22, NoneAssumption DEF LockTable, Rest, prodVars, reqVars, connVars,
       workVars, manVars, Settled, TypeOK, InPlace, NoLostWakeup, InView
<1>23. ASSUME SetExit
      PROVE  NoLostWakeup'
    BY <1>23, NoneAssumption DEF SetExit, Rest, prodVars, reqVars, connVars,
       workVars, manVars, Settled, TypeOK, InPlace, NoLostWakeup, InView
<1>24. ASSUME JoinThread
      PROVE  NoLostWakeup'
    BY <1>24, NoneAssumption DEF JoinThread, workVars, prodVars, manVars,
       Settled, TypeOK, InPlace, NoLostWakeup, InView
<1>25. CASE UNCHANGED vars
    BY <1>25, NoneAssumption DEF vars, Settled, TypeOK, InPlace, NoLostWakeup,
       InView
<1>. QED BY <1>1, <1>2, <1>3, <1>4, <1>5, <1>6, <1>7, <1>8, <1>9, <1>10,
       <1>11, <1>12, <1>13, <1>14, <1>15, <1>16, <1>17, <1>18, <1>19, <1>20,
       <1>21, <1>22, <1>23, <1>24, <1>25 DEF Next, WorkerStep, ProducerStep,
       ManagerStep, StopStep

LEMMA SettledStep == Settled /\ [Next]_vars => Settled'
BY TypeStep, PlaceStep, WakeupStep DEF Settled

THEOREM SettledInvariant == Spec => []Settled
BY SettledInit, SettledStep, PTL DEF Spec

\* The queue, the request map and the threads keep their types.
THEOREM TypeCorrect == Spec => []TypeOK
BY SettledInvariant, PTL DEF Settled

\* A request of an open session never sleeps on notifications that are there,
\* however many producers and workers there are.
THEOREM NoneSleeps == Spec => []NoLostWakeup
BY SettledInvariant, PTL DEF Settled

-----------------------------------------------------------------------------
(* Connections are at one place each. *)

\* Those that are given back, of the worker, of the map, on their way back.
Free == idle \cup closed
Adding == {wconn[w] : w \in Workers} \ {None}
Waiting == {requests[s] : s \in Sessions} \ {None}
Giving == {item} \ {None}

Apart == /\ Conns = Free \cup Adding \cup Waiting \cup Giving
         /\ idle \cap closed = {}
         /\ Free \cap (Adding \cup Waiting \cup Giving) = {}
         /\ Adding \cap (Waiting \cup Giving) = {}
         /\ Waiting \cap Giving = {}
Once == /\ \A s, r \in Sessions : requests[s] = requests[r] /\ requests[s] # None => s = r
        /\ \A w, v \in Workers : wconn[w] = wconn[v] /\ wconn[w] # None => w = v
Hands == /\ \A w \in Workers : wconn[w] # None <=> wpc[w] = "add"
         /\ item # None <=> mpc = "done"
Places == Apart /\ Once /\ Hands

LEMMA PlacesFrame ==
    ASSUME Places, UNCHANGED <<idle, closed, requests, wconn, item>>,
           \A w \in Workers : wpc'[w] = "add" <=> wpc[w] = "add",
           mpc' = "done" <=> mpc = "done"
    PROVE  Places'
BY DEF Places, Apart, Once, Hands, Free, Adding, Waiting, Giving

LEMMA GiveBackFacts ==
    ASSUME NEW c, GiveBack(c), c \notin Free, idle \cap closed = {}
    PROVE  Free' = Free \cup {c} /\ idle' \cap closed' = {}
BY DEF GiveBack, Free

LEMMA PlacesInit == Init => Places
BY DEF Init, Places, Apart, Once, Hands, Free, Adding, Waiting, Giving

LEMMA CallPlaces ==
    ASSUME Settled, Places, NEW w \in Workers, NEW s \in Sessions, NEW c \in Conns,
           GetItemsCall(w, s, c)
    PROVE  Places'
<1>1. /\ c \in idle /\ idle' = idle \ {c} /\ c # None
      /\ wpc[w] = "off" /\ wpc' = [wpc EXCEPT ![w] = "add"]
      /\ wconn' = [wconn EXCEPT ![w] = c]
      /\ UNCHANGED <<closed, requests, item, mpc>>
  BY NoneAssumption DEF GetItemsCall, reqVars, manVars
<1>2. wconn[w] = None /\ wconn'[w] = c /\ wpc'[w] = "add"
      /\ \A v \in Workers \ {w} : wconn'[v] = wconn[v] /\ wpc'[v] = wpc[v]
  BY <1>1 DEF Places, Hands, Settled, TypeOK
<1>3. Adding' = Adding \cup {c}
  BY <1>1, <1>2 DEF Adding
<1>4. Waiting' = Waiting /\ Giving' = Giving /\ Free' = Free \ {c} /\ c \in Free
  BY <1>1 DEF Waiting, Giving, Free, Places, Apart
<1>5. Apart'
  BY <1>1, <1>3, <1>4 DEF Places, Apart
<1>6. c \notin Adding
  BY <1>4 DEF Places, Apart
<1>7. Once'
  BY <1>1, <1>2, <1>6 DEF Places, Once, Adding
<1>8. Hands'
  BY <1>1, <1>2 DEF Places, Hands
<1>. QED  BY <1>5, <1>7, <1>8 DEF Places

\* The map changes at session s, which had r there.
LEMMA WaitingAt ==
    ASSUME Settled, Once, NEW s \in Sessions, NEW c \in Conns \cup {None},
           c \notin Waiting, requests' = [requests EXCEPT ![s] = c]
    PROVE  /\ Waiting' = (Waiting \ {requests[s]}) \cup ({c} \ {None})
           /\ \A q, r \in Sessions : requests'[q] = requests'[r] /\ requests'[q] # None => q = r
<1>1. requests'[s] = c /\ \A r \in Sessions \ {s} : requests'[r] = requests[r]
  BY DEF Settled, TypeOK
<1>2. \A r \in Sessions \ {s} : requests[r] # None => requests[r] # requests[s]
  BY DEF Once
<1>3. ASSUME NEW x \in Waiting'  PROVE x \in (Waiting \ {requests[s]}) \cup ({c} \ {None})
  BY <1>1, <1>2, <1>3 DEF Waiting
<1>4. ASSUME NEW x \in (Waiting \ {requests[s]}) \cup ({c} \ {None})  PROVE x \in Waiting'
  BY <1>1, <1>4 DEF Waiting
<1>. QED  BY <1>1, <1>3, <1>4 DEF Once, Waiting

LEMMA AddPlaces ==
    ASSUME Settled, Places, NEW w \in Workers, AddRequest(w)
    PROVE  Places'
<1>. DEFINE s == wses[w]
            c == wconn[w]
            r == requests[wses[w]]
<1>1. /\ s \in Sessions /\ c \in Conns /\ wpc[w] = "add"
      /\ requests' = [requests EXCEPT ![s] = c]
      /\ wconn' = [wconn EXCEPT ![w] = None] /\ wpc' = [wpc EXCEPT ![w] = "tell"]
      /\ IF r = None THEN UNCHANGED <<idle, closed>> ELSE GiveBack(r)
      /\ UNCHANGED <<item, mpc>>
  BY DEF AddRequest, Settled, InPlace, manVars
<1>2. c \in Adding /\ c # None /\ c \notin Waiting
  BY <1>1, NoneAssumption DEF Adding, Places, Apart
<1>3. r # None => r \in Waiting
  BY <1>1 DEF Waiting
<1>4. wconn'[w] = None /\ wpc'[w] = "tell"
      /\ \A v \in Workers \ {w} : wconn'[v] = wconn[v] /\ wpc'[v] = wpc[v]
  BY <1>1 DEF Settled, TypeOK
<1>5. Waiting' = (Waiting \ {r}) \cup {c}
  <2>1. Waiting' = (Waiting \ {requests[s]}) \cup ({c} \ {None})
    <3>1. Once /\ c \in Conns \cup {None}
      BY <1>1 DEF Places
    <3>. QED  BY <1>1, <1>2, <3>1, WaitingAt
  <2>. QED  BY <1>2, <2>1
<1>6. Adding' = Adding \ {c}
  <2>1. \A v \in Workers \ {w} : wconn[v] # c
    BY <1>2 DEF Places, Once
  <2>. QED  BY <1>2, <1>4, <2>1 DEF Adding
<1>7. Giving' = Giving
  BY <1>1 DEF Giving
<1>8. Free' = Free \cup ({r} \ {None}) /\ idle' \cap closed' = {}
  <2>1. CASE r = None
    BY <1>1, <2>1 DEF Free, Places, Apart
  <2>2. CASE r # None
    BY <1>1, <1>3, <2>2, GiveBackFacts DEF Places, Apart
  <2>. QED  BY <2>1, <2>2
<1>9. None \notin Waiting
  BY DEF Waiting
<1>10. Apart'
  <2>1. Conns = Free' \cup Adding' \cup Waiting' \cup Giving'
    BY <1>1, <1>2, <1>3, <1>5, <1>6, <1>7, <1>8, <1>9 DEF Places, Apart
  <2>2. /\ Free' \cap (Adding' \cup Waiting' \cup Giving') = {}
        /\ Adding' \cap (Waiting' \cup Giving') = {}
        /\ Waiting' \cap Giving' = {}
    BY <1>2, <1>3, <1>5, <1>6, <1>7, <1>8, <1>9 DEF Places, Apart
  <2>. QED  BY <1>8, <2>1, <2>2 DEF Apart
<1>11. Once'
  <2>1. \A q, p \in Sessions : requests'[q] = requests'[p] /\ requests'[q] # None => q = p
    BY <1>1, <1>2, WaitingAt DEF Places
  <2>2. \A v, u \in Workers : wconn'[v] = wconn'[u] /\ wconn'[v] # None => v = u
    BY <1>4 DEF Places, Once
  <2>. QED  BY <2>1, <2>2 DEF Once
<1>12. Hands'
  BY <1>1, <1>4 DEF Places, Hands
<1>. QED  BY <1>10, <1>11, <1>12 DEF Places

LEMMA SendPlaces ==
    ASSUME Settled, Places, Send
    PROVE  Places'
<1>. DEFINE r == requests[ses]
<1>1. /\ ses \in Sessions /\ r \in Conns /\ r # None /\ mpc = "send" /\ mpc' = "done"
      /\ item' = r /\ requests' = [requests EXCEPT ![ses] = None]
      /\ UNCHANGED <<idle, closed, wpc, wconn>>
  BY NoneAssumption DEF Send, Settled, InPlace, World, workVars
<1>2. item = None /\ Giving = {} /\ Giving' = {r} /\ r \in Waiting
  BY <1>1 DEF Places, Hands, Giving, Waiting
<1>3. None \notin Waiting
  BY DEF Waiting
<1>4. /\ Waiting' = Waiting \ {r}
      /\ \A q, p \in Sessions : requests'[q] = requests'[p] /\ requests'[q] # None => q = p
  <2>1. Once /\ None \in Conns \cup {None} /\ {None} \ {None} = {}
    BY DEF Places
  <2>2. /\ Waiting' = (Waiting \ {requests[ses]}) \cup ({None} \ {None})
        /\ \A q, p \in Sessions : requests'[q] = requests'[p] /\ requests'[q] # None => q = p
    BY <1>1, <1>3, <2>1, WaitingAt
  <2>. QED  BY <2>1, <2>2
<1>5. Free' = Free /\ Adding' = Adding
  BY <1>1 DEF Free, Adding
<1>6. Apart'
  BY <1>1, <1>2, <1>4, <1>5 DEF Places, Apart
<1>7. Once' /\ Hands'
  BY <1>1, <1>4 DEF Places, Once, Hands
<1>. QED  BY <1>6, <1>7 DEF Places

LEMMA DonePlaces ==
    ASSUME Settled, Places, NotifyDone
    PROVE  Places'
<1>1. /\ mpc = "done" /\ mpc' = "next" /\ item # None /\ item' = None /\ GiveBack(item)
      /\ UNCHANGED <<requests, wpc, wconn>>
  BY DEF NotifyDone, Places, Hands, reqVars, World, workVars
<1>2. Giving = {item} /\ Giving' = {} /\ item \notin Free
  BY <1>1 DEF Giving, Places, Apart
<1>3. Free' = Free \cup {item} /\ idle' \cap closed' = {}
  BY <1>1, <1>2, GiveBackFacts DEF Places, Apart
<1>4. Waiting' = Waiting /\ Adding' = Adding
  BY <1>1 DEF Waiting, Adding
<1>5. Apart'
  BY <1>2, <1>3, <1>4 DEF Places, Apart
<1>6. Once' /\ Hands'
  BY <1>1 DEF Places, Once, Hands
<1>. QED  BY <1>5, <1>6 DEF Places

LEMMA JoinPlaces ==
    ASSUME Settled, Places, JoinThread
    PROVE  Places'
<1>1. /\ closed' = closed \cup Waiting /\ requests' = [s \in Sessions |-> None]
      /\ UNCHANGED <<idle, wpc, wconn, mpc, item>>
  BY DEF JoinThread, Waiting, workVars, manVars
<1>2. Waiting' = {} /\ Adding' = Adding /\ Giving' = Giving
  BY <1>1 DEF Waiting, Adding, Giving
<1>3. Apart'
  BY <1>1, <1>2 DEF Places, Apart, Free
<1>4. Once' /\ Hands'
  BY <1>1 DEF Places, Once, Hands
<1>. QED  BY <1>3, <1>4 DEF Places

LEMMA PlacesStep == Settled /\ Places /\ [Next]_vars => Places'
<1>. SUFFICES ASSUME Settled, Places, [Next]_vars  PROVE Places'
  OBVIOUS
<1>. USE DEF prodVars, reqVars, connVars, workVars, manVars, World, Rest
<1>1. ASSUME NEW w \in Workers, NEW s \in Sessions, NEW c \in Conns, GetItemsCall(w, s, c)
      PROVE  Places'
  BY <1>1, CallPlaces
<1>2. ASSUME NEW w \in Workers, AddRequest(w)  PROVE Places'
  BY <1>2, AddPlaces
<1>3. ASSUME NEW w \in Workers, TellRequest(w)  PROVE Places'
  <2>1. \A v \in Workers : wpc'[v] = "add" <=> wpc[v] = "add"
    BY <1>3 DEF TellRequest, Settled, TypeOK
  <2>. QED  BY <1>3, <2>1, PlacesFrame DEF TellRequest
<1>4. ASSUME NEW p \in Producers, AddNotification(p) \/ ProducerStep(p)  PROVE Places'
  <2>1. UNCHANGED <<idle, closed, requests, wconn, item, wpc, mpc>>
    BY <1>4 DEF AddNotification, ProducerStep, LockSessions, TellSessions
  <2>. QED  BY <2>1, PlacesFrame
<1>5. ASSUME NEW s \in Sessions, Age(s) \/ Close(s) \/ Leave(s) \/ TellLeft(s)
      PROVE  Places'
  <2>1. UNCHANGED <<idle, closed, requests, wconn, item, wpc, mpc>>
    BY <1>5 DEF Age, Close, Leave, TellLeft
  <2>. QED  BY <2>1, PlacesFrame
<1>6. ASSUME NEW c \in Conns, Break(c)  PROVE Places'
  BY <1>6, PlacesFrame DEF Break
<1>7. CASE CheckExit \/ CopyActive \/ NextSession \/ Validate \/ UpdateSessionTime
           \/ TakeItems \/ Scan
  <2>1. /\ UNCHANGED <<idle, closed, requests, wconn, item, wpc>>
        /\ mpc # "done" /\ mpc' # "done"
    BY <1>7 DEF CheckExit, CopyActive, NextSession, Validate, UpdateSessionTime,
                TakeItems, Scan
  <2>. QED  BY <2>1, PlacesFrame
<1>8. CASE Send \/ NotifyDone
  BY <1>8, SendPlaces, DonePlaces
<1>9. CASE StopServer \/ LockTable \/ SetExit
  <2>1. UNCHANGED <<idle, closed, requests, wconn, item, wpc, mpc>>
    BY <1>9 DEF StopServer, LockTable, SetExit
  <2>. QED  BY <2>1, PlacesFrame
<1>10. CASE JoinThread
  BY <1>10, JoinPlaces
<1>11. CASE UNCHANGED vars
  BY <1>11, PlacesFrame DEF vars
<1>. QED
  BY <1>1, <1>2, <1>3, <1>4, <1>5, <1>6, <1>7, <1>8, <1>9, <1>10, <1>11
  DEF Next, WorkerStep, ManagerStep, StopStep

LEMMA HoldersCount ==
    ASSUME Once, NEW c, c # None
    PROVE  /\ Cardinality({s \in Sessions : requests[s] = c}) = In(c, Waiting)
           /\ Cardinality({w \in Workers : wconn[w] = c}) = In(c, Adding)
<1>. DEFINE S == {s \in Sessions : requests[s] = c}
            W == {w \in Workers : wconn[w] = c}
<1>1. Cardinality(S) = In(c, Waiting)
  <2>1. CASE c \in Waiting
    <3>1. PICK s \in Sessions : S = {s}
      BY <2>1 DEF Waiting, Once
    <3>. QED  BY <2>1, <3>1, FS_Singleton DEF In
  <2>2. CASE c \notin Waiting
    <3>1. S = {}
      BY <2>2 DEF Waiting
    <3>. QED  BY <2>2, <3>1, FS_EmptySet DEF In
  <2>. QED  BY <2>1, <2>2
<1>2. Cardinality(W) = In(c, Adding)
  <2>1. CASE c \in Adding
    <3>1. PICK w \in Workers : W = {w}
      BY <2>1 DEF Adding, Once
    <3>. QED  BY <2>1, <3>1, FS_Singleton DEF In
  <2>2. CASE c \notin Adding
    <3>1. W = {}
      BY <2>2 DEF Adding
    <3>. QED  BY <2>2, <3>1, FS_EmptySet DEF In
  <2>. QED  BY <2>1, <2>2
<1>. QED  BY <1>1, <1>2

LEMMA PlacesHolder == Settled /\ Places => OneHolder
<1>. SUFFICES ASSUME Settled, Places, NEW c \in Conns  PROVE Holders(c) = 1
  BY DEF OneHolder
<1>1. c # None /\ Apart /\ Once
  BY NoneAssumption DEF Places
<1>2. Holders(c) = In(c, idle) + In(c, closed) + In(c, {item}) + In(c, Waiting) + In(c, Adding)
  BY <1>1, HoldersCount DEF Holders
<1>3. In(c, {item}) = In(c, Giving)
  BY <1>1 DEF In, Giving
<1>4. CASE c \in idle
  BY <1>1, <1>2, <1>3, <1>4 DEF Apart, In, Free
<1>5. CASE c \in closed
  BY <1>1, <1>2, <1>3, <1>5 DEF Apart, In, Free
<1>6. CASE c \in Giving
  BY <1>1, <1>2, <1>3, <1>6 DEF Apart, In, Free
<1>7. CASE c \in Waiting
  BY <1>1, <1>2, <1>3, <1>7 DEF Apart, In, Free
<1>8. CASE c \in Adding
  BY <1>1, <1>2, <1>3, <1>8 DEF Apart, In, Free
<1>. QED  BY <1>1, <1>4, <1>5, <1>6, <1>7, <1>8 DEF Apart, Free

\* A connection is with the dispatcher, with the worker that adds it, waiting
\* for one session, on its way back or closed, whatever the other requests,
\* clients and the end of the server do.
THEOREM HolderIsOne == Spec => []OneHolder
BY SettledInvariant, PlacesInit, PlacesStep, PlacesHolder, PTL DEF Spec

-----------------------------------------------------------------------------
(* Notifications come once and in order. *)

Rising(q) == \A i, j \in DOMAIN q : i < j => q[i] < q[j]
Below(A, B) == \A n \in B : \A k \in A : k < n

\* What was sent is older than what is being sent, and that is older than what
\* is queued.
Order == /\ Rising(handed) /\ Rising(out) /\ Rising(list)
         /\ Below(Seen(handed), Seen(out))
         /\ Below(Seen(handed) \cup lost \cup Seen(out), Seen(list))
         /\ Seen(handed) \cup lost \cup Seen(out) \cup Seen(list) = 1 .. produced
         /\ out # <<>> => mpc = "send"

LEMMA SeenEmpty == Seen(<<>>) = {} /\ Rising(<<>>)
BY DEF Seen, Rising

LEMMA SeenAppend ==
    ASSUME NEW q \in Seq(Nat), NEW n \in Nat, Rising(q), Below(Seen(q), {n})
    PROVE  Rising(Append(q, n)) /\ Seen(Append(q, n)) = Seen(q) \cup {n}
<1>. DEFINE a == Append(q, n)
<1>1. /\ Len(q) \in Nat /\ DOMAIN q = 1 .. Len(q) /\ DOMAIN a = 1 .. Len(q) + 1
      /\ a[Len(q) + 1] = n /\ \A i \in 1 .. Len(q) : a[i] = q[i]
  OBVIOUS
<1>. HIDE DEF a
<1>2. \A i \in 1 .. Len(q) + 1 : i \in 1 .. Len(q) \/ i = Len(q) + 1
  BY <1>1
<1>3. \A i \in 1 .. Len(q) : q[i] < n
  BY <1>1 DEF Below, Seen
<1>4. Rising(a)
  <2>. SUFFICES ASSUME NEW i \in 1 .. Len(q) + 1, NEW j \in 1 .. Len(q) + 1, i < j
                PROVE  a[i] < a[j]
    BY <1>1 DEF Rising
  <2>1. i \in 1 .. Len(q)
    BY <1>1
  <2>2. CASE j \in 1 .. Len(q)
    BY <1>1, <2>1, <2>2 DEF Rising
  <2>3. CASE j = Len(q) + 1
    BY <1>1, <1>3, <2>1, <2>3
  <2>. QED  BY <1>2, <2>2, <2>3
<1>5. Seen(a) = Seen(q) \cup {n}
  <2>1. 1 .. Len(q) \subseteq 1 .. Len(q) + 1 /\ Len(q) + 1 \in 1 .. Len(q) + 1
    BY <1>1
  <2>. QED  BY <1>1, <1>2, <2>1 DEF Seen
<1>. QED  BY <1>4, <1>5 DEF a

LEMMA SeenConcat ==
    ASSUME NEW p \in Seq(Nat), NEW q \in Seq(Nat), Rising(p), Rising(q),
           Below(Seen(p), Seen(q))
    PROVE  Rising(p \o q) /\ Seen(p \o q) = Seen(p) \cup Seen(q)
<1>. DEFINE a == p \o q
<1>1. /\ Len(p) \in Nat /\ Len(q) \in Nat /\ DOMAIN p = 1 .. Len(p) /\ DOMAIN q = 1 .. Len(q)
      /\ DOMAIN a = 1 .. Len(p) + Len(q)
      /\ \A i \in 1 .. Len(p) + Len(q) : a[i] = IF i <= Len(p) THEN p[i] ELSE q[i - Len(p)]
  OBVIOUS
<1>. HIDE DEF a
<1>2. \A i \in DOMAIN a : \/ i \in 1 .. Len(p) /\ a[i] = p[i]
                          \/ i - Len(p) \in 1 .. Len(q) /\ i > Len(p) /\ a[i] = q[i - Len(p)]
  BY <1>1
<1>3. \A i \in 1 .. Len(p) : \A j \in 1 .. Len(q) : p[i] < q[j]
  BY <1>1 DEF Below, Seen
<1>4. Rising(a)
  <2>. SUFFICES ASSUME NEW i \in DOMAIN a, NEW j \in DOMAIN a, i < j  PROVE a[i] < a[j]
    BY DEF Rising
  <2>0. i \in Nat /\ j \in Nat
    BY <1>1
  <2>1. CASE i \in 1 .. Len(p) /\ j \in 1 .. Len(p)
    BY <1>1, <2>1 DEF Rising
  <2>2. CASE i \in 1 .. Len(p) /\ j > Len(p)
    BY <1>2, <1>3, <2>2
  <2>3. CASE i > Len(p) /\ j > Len(p)
    <3>1. /\ i - Len(p) \in 1 .. Len(q) /\ a[i] = q[i - Len(p)]
          /\ j - Len(p) \in 1 .. Len(q) /\ a[j] = q[j - Len(p)]
          /\ i - Len(p) < j - Len(p)
      BY <1>1, <1>2, <2>0, <2>3
    <3>. QED  BY <1>1, <3>1 DEF Rising
  <2>. QED  BY <1>1, <1>2, <2>0, <2>1, <2>2, <2>3
<1>5. Seen(a) = Seen(p) \cup Seen(q)
  <2>1. ASSUME NEW x \in Seen(a)  PROVE x \in Seen(p) \cup Seen(q)
    BY <1>1, <1>2, <2>1 DEF Seen
  <2>2. ASSUME NEW x \in Seen(p)  PROVE x \in Seen(a)
    <3>1. PICK i \in 1 .. Len(p) : x = p[i]
      BY <1>1, <2>2 DEF Seen
    <3>2. i \in DOMAIN a /\ a[i] = x
      BY <1>1, <3>1
    <3>. QED  BY <3>2 DEF Seen
  <2>3. ASSUME NEW x \in Seen(q)  PROVE x \in Seen(a)
    <3>1. PICK i \in 1 .. Len(q) : x = q[i]
      BY <1>1, <2>3 DEF Seen
    <3>2. i + Len(p) \in DOMAIN a /\ ~(i + Len(p) <= Len(p)) /\ (i + Len(p)) - Len(p) = i
      BY <1>1, <3>1
    <3>3. a[i + Len(p)] = x
      BY <1>1, <3>1, <3>2
    <3>. QED  BY <3>2, <3>3 DEF Seen
  <2>. QED  BY <2>1, <2>2, <2>3
<1>. QED  BY <1>4, <1>5 DEF a

LEMMA OrderInit == Init => Order
BY SeenEmpty DEF Init, Order, Below

LEMMA OrderStep == Settled /\ Order /\ [Next]_vars => Order'
<1>. SUFFICES ASSUME Settled, Order, [Next]_vars  PROVE Order'
  OBVIOUS
<1>. USE DEF prodVars, reqVars, connVars, workVars, manVars, World, Rest
<1>0. /\ handed \in Seq(Nat) /\ out \in Seq(Nat) /\ list \in Seq(Nat)
      /\ produced \in Nat /\ lost \subseteq Nat
  BY BoundAssumption DEF Settled, TypeOK, Notes
<1>1. ASSUME NEW p \in Producers, AddNotification(p)  PROVE Order'
  <2>. DEFINE n == produced + 1
  <2>1. /\ produced' = n /\ list' = Append(list, n)
        /\ UNCHANGED <<handed, lost, out, mpc>>
    BY <1>1 DEF AddNotification
  <2>2. \A k \in Seen(handed) \cup lost \cup Seen(out) \cup Seen(list) : k < n
    BY <1>0 DEF Order
  <2>3. Rising(list') /\ Seen(list') = Seen(list) \cup {n}
    <3>1. n \in Nat /\ Below(Seen(list), {n}) /\ Rising(list)
      BY <1>0, <2>2 DEF Below, Order
    <3>. QED  BY <1>0, <2>1, <3>1, SeenAppend
  <2>4. 1 .. n = (1 .. produced) \cup {n}
    BY <1>0
  <2>. QED  BY <2>1, <2>2, <2>3, <2>4 DEF Order, Below
<1>2. CASE TakeItems
  <2>1. /\ out' = list /\ list' = <<>> /\ mpc = "take"
        /\ list # <<>> => mpc' = "send"
        /\ UNCHANGED <<handed, lost, produced>>
    BY <1>2 DEF TakeItems
  <2>2. out = <<>> /\ Seen(out) = {} /\ Seen(list') = {} /\ Rising(list')
    BY <2>1, SeenEmpty DEF Order
  <2>. QED  BY <2>1, <2>2 DEF Order, Below
<1>3. CASE Send
  <2>1. /\ out' = <<>> /\ UNCHANGED <<list, produced>>
        /\ \/ handed' = handed \o out /\ lost' = lost
           \/ handed' = handed /\ lost' = lost \cup Seen(out)
    BY <1>3 DEF Send, Seen
  <2>2. Seen(out') = {} /\ Rising(out')
    BY <2>1, SeenEmpty
  <2>3. Rising(handed') /\ Seen(handed') \cup lost' = Seen(handed) \cup lost \cup Seen(out)
    <3>1. CASE handed' = handed \o out /\ lost' = lost
      BY <1>0, <3>1, SeenConcat DEF Order
    <3>2. CASE handed' = handed /\ lost' = lost \cup Seen(out)
      BY <3>2 DEF Order
    <3>. QED  BY <2>1, <3>1, <3>2
  <2>. QED  BY <2>1, <2>2, <2>3 DEF Order, Below
<1>4. CASE Validate
  <2>1. out = <<>> /\ out' = <<>> /\ UNCHANGED <<list, produced, handed, lost>>
    BY <1>4 DEF Validate, Order
  <2>. QED  BY <2>1 DEF Order, Below
<1>5. CASE /\ UNCHANGED <<list, produced, handed, lost, out>>
           /\ mpc # "send" \/ mpc' = mpc
  BY <1>5 DEF Order, Below
<1>6. ASSUME NEW w \in Workers, NEW s \in Sessions, NEW c \in Conns,
             GetItemsCall(w, s, c)
      PROVE  Order'
  BY <1>5, <1>6 DEF GetItemsCall
<1>7. ASSUME NEW w \in Workers, WorkerStep(w)  PROVE Order'
  BY <1>5, <1>7 DEF WorkerStep, AddRequest, TellRequest
<1>8. ASSUME NEW p \in Producers, ProducerStep(p)  PROVE Order'
  BY <1>5, <1>8 DEF ProducerStep, LockSessions, TellSessions
<1>9. ASSUME NEW s \in Sessions, Age(s) \/ Close(s) \/ Leave(s) \/ TellLeft(s)
      PROVE  Order'
  BY <1>5, <1>9 DEF Age, Close, Leave, TellLeft
<1>10. ASSUME NEW c \in Conns, Break(c)  PROVE Order'
  BY <1>5, <1>10 DEF Break
<1>11. CASE CheckExit \/ CopyActive \/ NextSession \/ UpdateSessionTime \/ NotifyDone
            \/ Scan
  BY <1>5, <1>11 DEF CheckExit, CopyActive, NextSession, UpdateSessionTime, NotifyDone,
                     Scan
<1>12. CASE StopServer \/ StopStep
  BY <1>5, <1>12 DEF StopServer, StopStep, LockTable, SetExit, JoinThread
<1>13. CASE UNCHANGED vars
  BY <1>5, <1>13 DEF vars
<1>. QED
  BY <1>1, <1>2, <1>3, <1>4, <1>6, <1>7, <1>8, <1>9, <1>10, <1>11, <1>12, <1>13
  DEF Next, ManagerStep

\* Clients get every notification of the group once and in order, but for
\* those sent to a client that was gone.
THEOREM HandedInOrder == Spec => []InOrder
<1>1. Order => InOrder
  BY DEF Order, InOrder, Rising, Below
<1>. QED  BY <1>1, SettledInvariant, OrderInit, OrderStep, PTL DEF Spec

-----------------------------------------------------------------------------
(* The contract.                                                           *)

Over(s) == stage[s] # "open"

\* An answer with nothing in it has its reason, and no call arrives any more
\* when the server stops.
Reasons == /\ mpc = "send" /\ out = <<>> => Over(ses) \/ ses \in old
           /\ stop # "off" => \A w \in Workers : wpc[w] = "off"

LEMMA ReasonsInit == Init => Reasons
BY DEF Init, Reasons

LEMMA ReasonsStep == Settled /\ Reasons /\ [Next]_vars => Reasons'
<1>. SUFFICES ASSUME Settled, Reasons, [Next]_vars  PROVE Reasons'
  OBVIOUS
<1>. USE DEF prodVars, reqVars, connVars, workVars, manVars, World, Rest, Over
<1>1. ASSUME NEW w \in Workers, NEW s \in Sessions, NEW c \in Conns,
             GetItemsCall(w, s, c)
      PROVE  Reasons'
  BY <1>1 DEF GetItemsCall, Reasons
<1>2. ASSUME NEW w \in Workers, WorkerStep(w)  PROVE Reasons'
  BY <1>2 DEF WorkerStep, AddRequest, TellRequest, RequestsFree, Reasons, Settled, TypeOK
<1>3. ASSUME NEW p \in Producers, AddNotification(p) \/ ProducerStep(p)
      PROVE  Reasons'
  BY <1>3 DEF AddNotification, ProducerStep, LockSessions, TellSessions, Reasons
<1>4. ASSUME NEW s \in Sessions, Age(s) \/ Close(s) \/ Leave(s) \/ TellLeft(s)
      PROVE  Reasons'
  BY <1>4 DEF Age, Close, Leave, TellLeft, Reasons, Settled, TypeOK, InPlace
<1>5. ASSUME NEW c \in Conns, Break(c)  PROVE Reasons'
  BY <1>5 DEF Break, Reasons
<1>6. CASE CheckExit \/ CopyActive \/ NextSession \/ UpdateSessionTime \/ Send
           \/ NotifyDone \/ Scan
  BY <1>6 DEF CheckExit, CopyActive, NextSession, UpdateSessionTime, Send, NotifyDone,
              Scan, Reasons
<1>7. CASE Validate \/ TakeItems
  BY <1>7 DEF Validate, TakeItems, Reasons
<1>8. CASE StopServer
  BY <1>8 DEF StopServer, Reasons, Settled, InPlace
<1>9. CASE StopStep
  BY <1>9 DEF StopStep, LockTable, SetExit, JoinThread, Reasons
<1>10. CASE UNCHANGED vars
  BY <1>10 DEF vars, Reasons
<1>. QED
  BY <1>1, <1>2, <1>3, <1>4, <1>5, <1>6, <1>7, <1>8, <1>9, <1>10 DEF Next, ManagerStep

\* A connection is at one of five places ...
Somewhere(c) == \/ c \in idle \/ c \in closed \/ c = item
                \/ \E s \in Sessions : requests[s] = c
                \/ \E w \in Workers : wconn[w] = c

\* ... and each tells what its call has come to.
Told(c) == /\ c \in idle => CallOf(c) = "home"
           /\ c \in closed => CallOf(c) = "closed"
           /\ c = item => CallOf(c) = "answered"
           /\ \A s \in Sessions : requests[s] = c =>
                 CallOf(c) = IF Over(s) \/ s \in old THEN "late" ELSE "asked"
           /\ \A w \in Workers : wconn[w] = c =>
                 CallOf(c) = IF Over(wses[w]) THEN "late" ELSE "asked"
Calls == \A c \in Conns : Somewhere(c) /\ Told(c)

LEMMA PlacesCalls == Places => Calls
<1>. SUFFICES ASSUME Places, NEW c \in Conns  PROVE Somewhere(c) /\ Told(c)
  BY DEF Calls
<1>1. c # None
  BY NoneAssumption
<1>2. Somewhere(c)
  BY DEF Somewhere, Places, Apart, Free, Adding, Waiting, Giving
<1>3. c \in idle => CallOf(c) = "home"
  BY DEF CallOf
<1>4. c \in closed => CallOf(c) = "closed"
  BY DEF CallOf, Places, Apart
<1>5. c = item => CallOf(c) = "answered"
  BY <1>1 DEF CallOf, Places, Apart, Free, Giving
<1>6. ASSUME NEW s \in Sessions, requests[s] = c
      PROVE  CallOf(c) = IF Over(s) \/ s \in old THEN "late" ELSE "asked"
  <2>1. c \in Waiting /\ c \notin Free /\ c # item /\ \A w \in Workers : wconn[w] # c
    BY <1>1, <1>6 DEF Waiting, Adding, Giving, Places, Apart
  <2>2. \A r \in Sessions : requests[r] = c => r = s
    BY <1>1, <1>6 DEF Places, Once
  <2>3. Late(c) <=> Over(s) \/ s \in old
    BY <1>6, <2>1, <2>2 DEF Late, Over
  <2>. QED  BY <2>1, <2>3 DEF CallOf, Free
<1>7. ASSUME NEW w \in Workers, wconn[w] = c
      PROVE  CallOf(c) = IF Over(wses[w]) THEN "late" ELSE "asked"
  <2>1. c \in Adding /\ c \notin Free /\ c # item /\ \A s \in Sessions : requests[s] # c
    BY <1>1, <1>7 DEF Waiting, Adding, Giving, Places, Apart
  <2>2. wpc[w] = "add" /\ \A v \in Workers : wconn[v] = c => v = w
    BY <1>1, <1>7 DEF Places, Once, Hands
  <2>3. Late(c) <=> Over(wses[w])
    BY <1>7, <2>1, <2>2 DEF Late, Over
  <2>. QED  BY <2>1, <2>3 DEF CallOf, Free
<1>. QED  BY <1>2, <1>3, <1>4, <1>5, <1>6, <1>7 DEF Told

\* What is queued and handed out does not change, nor do clients and the server.
Aside == UNCHANGED <<produced, list, out, handed, lost, broken, stop>>

\* No connection changes its place; the sessions and the time may go on.
LEMMA Expiring ==
    ASSUME Calls, Calls', Aside, UNCHANGED <<idle, closed, item, requests, wconn>>,
           \A s \in Sessions : Over(s) => Over(s)',
           \A s \in Sessions : s \in old /\ requests[s] # None => s \in old',
           \A w \in Workers : wconn[w] # None => wses[w] \in Sessions /\ wses'[w] = wses[w]
    PROVE  [Contract!Next]_(Contract!vars)
<1>1. \A c \in Conns : \/ CallOf(c)' = CallOf(c)
                       \/ CallOf(c) = "asked" /\ CallOf(c)' = "late"
  <2>. SUFFICES ASSUME NEW c \in Conns
                PROVE  \/ CallOf(c)' = CallOf(c)
                       \/ CallOf(c) = "asked" /\ CallOf(c)' = "late"
    OBVIOUS
  <2>1. c # None /\ Told(c) /\ Told(c)' /\ Somewhere(c)
    BY NoneAssumption DEF Calls
  <2>2. CASE c \in idle \/ c \in closed \/ c = item
    BY <2>1, <2>2 DEF Told
  <2>3. ASSUME NEW s \in Sessions, requests[s] = c
        PROVE  \/ CallOf(c)' = CallOf(c)
               \/ CallOf(c) = "asked" /\ CallOf(c)' = "late"
    BY <2>1, <2>3 DEF Told
  <2>4. ASSUME NEW w \in Workers, wconn[w] = c
        PROVE  \/ CallOf(c)' = CallOf(c)
               \/ CallOf(c) = "asked" /\ CallOf(c)' = "late"
    BY <2>1, <2>4 DEF Told, Over
  <2>. QED  BY <2>1, <2>2, <2>3, <2>4 DEF Somewhere
<1>. DEFINE S == {c \in Conns : CallOf(c) = "asked" /\ CallOf(c)' = "late"}
<1>2. Contract!Expire(S)
  BY <1>1 DEF Contract!Expire, Aside
<1>. QED  BY <1>2 DEF Contract!Next

\* The place and the excuse of a connection stay.
Same(c) == \/ c \in idle /\ c \in idle'
           \/ c \in closed /\ c \in closed'
           \/ c = item /\ c = item'
           \/ \E s \in Sessions : /\ requests[s] = c /\ requests'[s] = c
                                  /\ Over(s)' = Over(s)
                                  /\ (s \in old') = (s \in old)
           \/ \E w \in Workers : /\ wconn[w] = c /\ wconn'[w] = c
                                 /\ Over(wses[w])' = Over(wses[w])

LEMMA SameCall ==
    ASSUME Calls, Calls', NEW c \in Conns, Same(c)
    PROVE  CallOf(c)' = CallOf(c)
<1>1. Told(c) /\ Told(c)'
  BY DEF Calls
<1>. QED  BY <1>1 DEF Same, Told

LEMMA ContractCall ==
    ASSUME Settled, Places, Calls, Calls', NEW w \in Workers, NEW s \in Sessions,
           NEW c \in Conns, GetItemsCall(w, s, c)
    PROVE  [Contract!Next]_(Contract!vars)
<1>1. /\ stop = "off" /\ c \in idle /\ c \notin broken /\ stage[s] = "open"
      /\ wpc[w] = "off" /\ wconn[w] = None
      /\ wses' = [wses EXCEPT ![w] = s] /\ wconn' = [wconn EXCEPT ![w] = c]
      /\ idle' = idle \ {c}
      /\ UNCHANGED <<produced, list, out, handed, lost, broken, closed, requests, old,
                     stage, item, stop>>
  BY DEF GetItemsCall, Places, Hands, prodVars, reqVars, manVars
<1>2. /\ wses'[w] = s /\ wconn'[w] = c
      /\ \A v \in Workers \ {w} : wses'[v] = wses[v] /\ wconn'[v] = wconn[v]
  BY <1>1 DEF Settled, TypeOK
<1>3. CallOf(c) = "home" /\ CallOf(c)' = "asked"
  <2>1. Told(c) /\ Told(c)' /\ ~Over(wses[w])'
    BY <1>1, <1>2 DEF Calls, Over
  <2>. QED  BY <1>1, <1>2, <2>1 DEF Told
<1>4. ASSUME NEW d \in Conns, d # c  PROVE CallOf(d)' = CallOf(d)
  <2>1. Somewhere(d) /\ d # None
    BY NoneAssumption DEF Calls
  <2>2. Same(d)
    <3>1. CASE \E v \in Workers : wconn[v] = d
      BY <1>1, <1>2, <2>1, <3>1 DEF Same, Over
    <3>2. CASE ~ \E v \in Workers : wconn[v] = d
      BY <1>1, <1>4, <2>1, <3>2 DEF Somewhere, Same, Over
    <3>. QED  BY <3>1, <3>2
  <2>. QED  BY <2>2, SameCall
<1>5. Contract!Ask(c)
  BY <1>1, <1>3, <1>4 DEF Contract!Ask
<1>. QED  BY <1>5 DEF Contract!Next

LEMMA ContractAdd ==
    ASSUME Settled, Places, Calls, Calls', NEW w \in Workers, AddRequest(w)
    PROVE  [Contract!Next]_(Contract!vars)
<1>1. PICK s \in Sessions, d \in Conns, c \in Conns \cup {None} :
        /\ s = wses[w] /\ d = wconn[w] /\ c = requests[s] /\ wpc[w] = "add"
        /\ requests' = [requests EXCEPT ![s] = d] /\ old' = old \ {s}
        /\ wconn' = [wconn EXCEPT ![w] = None]
        /\ IF c = None THEN UNCHANGED <<idle, closed>> ELSE GiveBack(c)
        /\ UNCHANGED <<produced, list, out, handed, lost, broken, stage, item, wses, stop>>
  BY DEF AddRequest, Settled, TypeOK, InPlace, prodVars, manVars
<1>2. /\ requests'[s] = d /\ \A r \in Sessions \ {s} : requests'[r] = requests[r]
      /\ wconn'[w] = None /\ \A v \in Workers \ {w} : wconn'[v] = wconn[v]
  BY <1>1 DEF Settled, TypeOK
<1>3. d # c
  BY <1>1, NoneAssumption DEF Places, Apart, Adding, Waiting
<1>4. Told(d) /\ Told(d)'
  BY <1>1 DEF Calls
<1>5. /\ CallOf(d) = IF Over(s) THEN "late" ELSE "asked"
      /\ CallOf(d)' = IF Over(s)' \/ s \in old' THEN "late" ELSE "asked"
  BY <1>1, <1>2, <1>4 DEF Told
<1>6. CallOf(d)' = CallOf(d) /\ CallOf(d) \in {"late", "asked"}
  BY <1>1, <1>5 DEF Over
<1>7. ASSUME NEW e \in Conns, e # d, e # c  PROVE CallOf(e)' = CallOf(e)
  <2>1. Somewhere(e) /\ e # None
    BY NoneAssumption DEF Calls
  <2>2. Same(e)
    <3>1. CASE e \in idle \/ e \in closed
      BY <1>1, <3>1 DEF Same, GiveBack
    <3>2. CASE e = item
      BY <1>1, <3>2 DEF Same
    <3>3. CASE \E r \in Sessions : requests[r] = e
      BY <1>1, <1>2, <1>7, <3>3 DEF Same, Over
    <3>4. CASE \E v \in Workers : wconn[v] = e
      BY <1>1, <1>2, <1>7, <3>4 DEF Same, Over
    <3>. QED  BY <2>1, <3>1, <3>2, <3>3, <3>4 DEF Somewhere
  <2>. QED  BY <2>2, SameCall
<1>8. CASE c = None
  <2>1. \A e \in Conns : CallOf(e)' = CallOf(e)
    BY <1>6, <1>7, <1>8, NoneAssumption
  <2>. QED  BY <1>1, <2>1 DEF Contract!vars
<1>9. CASE c # None
  <2>1. c \in Conns /\ Told(c) /\ Told(c)'
    BY <1>1, <1>9 DEF Calls
  <2>2. CallOf(c) \in {"late", "asked"}
    BY <1>1, <2>1 DEF Told
  <2>3. CallOf(c)' = IF c \in broken \/ stop # "off" THEN "closed" ELSE "home"
    BY <1>1, <1>9, <2>1 DEF Told, GiveBack
  <2>4. Contract!Open(c) /\ Contract!Open(d)
    BY <1>1, <1>6, <2>1, <2>2 DEF Contract!Open
  <2>5. Contract!Return(c)
    BY <1>6, <1>7, <2>1, <2>3 DEF Contract!Return
  <2>6. Contract!Replace(c)
    BY <1>1, <1>3, <2>4, <2>5 DEF Contract!Replace
  <2>. QED  BY <2>1, <2>6 DEF Contract!Next
<1>. QED  BY <1>8, <1>9

\* No connection changes its place, and no session or request its age.
LEMMA Unmoved ==
    ASSUME Calls, Calls', UNCHANGED <<idle, closed, item, requests, wconn, stage, old>>,
           \A w \in Workers : wconn[w] # None => wses'[w] = wses[w]
    PROVE  \A c \in Conns : CallOf(c)' = CallOf(c)
<1>. SUFFICES ASSUME NEW c \in Conns  PROVE CallOf(c)' = CallOf(c)
  OBVIOUS
<1>1. Somewhere(c) /\ c # None
  BY NoneAssumption DEF Calls
<1>2. Same(c)
  <2>1. CASE \E w \in Workers : wconn[w] = c
    BY <1>1, <2>1 DEF Same, Over
  <2>2. CASE ~ \E w \in Workers : wconn[w] = c
    BY <1>1, <2>2 DEF Somewhere, Same, Over
  <2>. QED  BY <2>1, <2>2
<1>. QED  BY <1>2, SameCall

LEMMA ContractMake ==
    ASSUME Settled, Calls, Calls', NEW p \in Producers, AddNotification(p)
    PROVE  [Contract!Next]_(Contract!vars)
<1>1. /\ stop = "off" /\ produced' = produced + 1 /\ list' = Append(list, produced + 1)
      /\ UNCHANGED <<out, handed, lost, broken, idle, closed, item, requests, wconn, wses,
                     stage, old, stop>>
  BY DEF AddNotification, reqVars, connVars, workVars, manVars
<1>2. \A c \in Conns : CallOf(c)' = CallOf(c)
  BY <1>1, Unmoved
<1>3. out \o Append(list, produced + 1) = Append(out \o list, produced + 1)
  <2>1. list \in Seq(Nat) /\ out \in Seq(Nat) /\ produced + 1 \in Nat
    BY BoundAssumption DEF Settled, TypeOK, Notes
  <2>. QED  BY <2>1, AppendIsConcat, ConcatAssociative, ConcatProperties
<1>4. Contract!Make
  BY <1>1, <1>2, <1>3 DEF Contract!Make
<1>. QED  BY <1>4 DEF Contract!Next

LEMMA ContractBreak ==
    ASSUME Calls, Calls', NEW c \in Conns, Break(c)
    PROVE  [Contract!Next]_(Contract!vars)
<1>1. /\ broken' = broken \cup {c} /\ \E s \in Sessions : requests[s] = c
      /\ UNCHANGED <<produced, list, out, handed, lost, idle, closed, item, requests, wconn,
                     wses, stage, old, stop>>
  BY DEF Break, prodVars, reqVars, workVars, manVars
<1>2. \A d \in Conns : CallOf(d)' = CallOf(d)
  BY <1>1, Unmoved
<1>3. Told(c)
  BY DEF Calls
<1>4. CallOf(c) \in {"late", "asked"}
  BY <1>1, <1>3 DEF Told
<1>5. Contract!Lose(c)
  BY <1>1, <1>2, <1>4 DEF Contract!Lose, Contract!Open
<1>. QED  BY <1>5 DEF Contract!Next

LEMMA ContractTake ==
    ASSUME Settled, Order, Calls, Calls', TakeItems
    PROVE  [Contract!Next]_(Contract!vars)
<1>1. /\ mpc = "take" /\ out' = list /\ list' = <<>>
      /\ UNCHANGED <<produced, handed, lost, broken, idle, closed, item, requests, wconn,
                     wses, stage, old, stop>>
  BY DEF TakeItems, World, reqVars, workVars
<1>2. out = <<>> /\ list \in Seq(Nat)
  BY <1>1, BoundAssumption DEF Order, Settled, TypeOK, Notes
<1>3. out' \o list' = out \o list
  BY <1>1, <1>2, ConcatEmptySeq
<1>4. \A c \in Conns : CallOf(c)' = CallOf(c)
  BY <1>1, Unmoved
<1>. QED  BY <1>1, <1>3, <1>4 DEF Contract!vars

\* What has been taken out of the queue is its oldest part.
LEMMA FirstPart ==
    ASSUME NEW p \in Seq(Nat), NEW q \in Seq(Nat)
    PROVE  /\ Len(p) \in 0 .. Len(p \o q)
           /\ SubSeq(p \o q, 1, Len(p)) = p
           /\ SubSeq(p \o q, Len(p) + 1, Len(p \o q)) = q
<1>1. Len(p) \in Nat /\ Len(q) \in Nat /\ Len(p \o q) = Len(p) + Len(q)
  OBVIOUS
<1>2. SubSeq(p \o q, 1, Len(p)) = p
  <2>1. CASE Len(p) = 0
    BY <2>1, <1>1, SubSeqEmpty, EmptySeq
  <2>2. CASE Len(p) # 0
    <3>1. 1 \in 1 .. Len(p) /\ Len(p) \in 1 .. Len(p)
      BY <1>1, <2>2
    <3>. QED  BY <3>1, SubSeqOfConcat1, SubSeqFull
  <2>. QED  BY <2>1, <2>2
<1>3. SubSeq(p \o q, Len(p) + 1, Len(p \o q)) = q
  <2>1. CASE Len(q) = 0
    BY <2>1, <1>1, SubSeqEmpty, EmptySeq
  <2>2. CASE Len(q) # 0
    <3>1. /\ Len(p) + 1 \in Len(p) + 1 .. Len(p) + Len(q)
          /\ Len(p) + Len(q) \in Len(p) + 1 .. Len(p) + Len(q)
          /\ Len(p) + 1 - Len(p) = 1 /\ Len(p) + Len(q) - Len(p) = Len(q)
      BY <1>1, <2>2
    <3>. QED  BY <1>1, <3>1, SubSeqOfConcat2, SubSeqFull
  <2>. QED  BY <2>1, <2>2
<1>. QED  BY <1>1, <1>2, <1>3

\* An answer: the oldest part of the queue, and nothing only when that is due.
LEMMA ContractSend ==
    ASSUME Settled, Reasons, Order, Places, Calls, Calls', Send
    PROVE  [Contract!Next]_(Contract!vars)
<1>1. PICK s \in Sessions, c \in Conns :
        /\ s = ses /\ c = requests[s] /\ mpc = "send" /\ item' = c
        /\ requests' = [requests EXCEPT ![s] = None] /\ old' = old \ {s}
        /\ IF c \in broken
           THEN lost' = lost \cup {out[i] : i \in DOMAIN out} /\ UNCHANGED handed
           ELSE handed' = handed \o out /\ UNCHANGED lost
        /\ out' = <<>>
        /\ UNCHANGED <<produced, list, broken, idle, closed, wconn, wses, stage, stop>>
  BY DEF Send, Settled, InPlace, World, workVars
<1>2. \A r \in Sessions \ {s} : requests'[r] = requests[r]
  BY <1>1 DEF Settled, TypeOK
<1>3. item = None
  BY <1>1 DEF Places, Hands
<1>4. Told(c) /\ Told(c)'
  BY DEF Calls
<1>5. /\ CallOf(c) = IF Over(s) \/ s \in old THEN "late" ELSE "asked"
      /\ CallOf(c)' = "answered"
  BY <1>1, <1>4 DEF Told
<1>6. ASSUME NEW e \in Conns, e # c  PROVE CallOf(e)' = CallOf(e)
  <2>1. Somewhere(e) /\ e # None
    BY NoneAssumption DEF Calls
  <2>2. Same(e)
    <3>1. CASE e \in idle \/ e \in closed
      BY <1>1, <3>1 DEF Same
    <3>2. CASE \E r \in Sessions : requests[r] = e
      BY <1>1, <1>2, <1>6, <3>2 DEF Same, Over
    <3>3. CASE \E v \in Workers : wconn[v] = e
      BY <1>1, <3>3 DEF Same, Over
    <3>. QED  BY <1>3, <2>1, <3>1, <3>2, <3>3 DEF Somewhere
  <2>. QED  BY <2>2, SameCall
<1>7. out \in Seq(Nat) /\ list \in Seq(Nat) /\ DOMAIN out = 1 .. Len(out)
  BY BoundAssumption DEF Settled, TypeOK, Notes
<1>8. PICK n \in 0 .. Len(out \o list) :
        /\ n = Len(out) /\ SubSeq(out \o list, 1, n) = out
        /\ SubSeq(out \o list, n + 1, Len(out \o list)) = list
  BY <1>7, FirstPart
<1>9. out' \o list' = list
  BY <1>1, <1>7, ConcatEmptySeq
<1>10. n = 0 => CallOf(c) = "late"
  BY <1>1, <1>5, <1>7, <1>8, EmptySeq DEF Reasons
<1>11. Contract!Open(c)
  BY <1>5 DEF Contract!Open
<1>12. [e \in Conns |-> CallOf(e)]' = [[e \in Conns |-> CallOf(e)] EXCEPT ![c] = "answered"]
  BY <1>5, <1>6
<1>13. Contract!Answer(c)
  <2>. SUFFICES \E m \in 0 .. Len(out \o list) :
                  LET q == SubSeq(out \o list, 1, m) IN
                  /\ m = 0 => [e \in Conns |-> CallOf(e)][c] = "late"
                  /\ out' \o list' = SubSeq(out \o list, m + 1, Len(out \o list))
                  /\ IF c \in broken
                     THEN /\ lost' = lost \cup {q[i] : i \in 1 .. m}
                          /\ UNCHANGED handed
                     ELSE handed' = handed \o q /\ UNCHANGED lost
    BY <1>1, <1>11, <1>12 DEF Contract!Answer
  <2>. WITNESS n \in 0 .. Len(out \o list)
  <2>. QED  BY <1>1, <1>7, <1>8, <1>9, <1>10
<1>. QED  BY <1>13 DEF Contract!Next

LEMMA ContractDone ==
    ASSUME Settled, Places, Calls, Calls', NotifyDone
    PROVE  [Contract!Next]_(Contract!vars)
<1>1. PICK c \in Conns :
        /\ c = item /\ GiveBack(c) /\ item' = None
        /\ UNCHANGED <<produced, list, out, handed, lost, broken, requests, wconn, wses,
                       stage, old, stop>>
  BY DEF NotifyDone, Settled, InPlace, World, reqVars, workVars
<1>2. Told(c) /\ Told(c)'
  BY DEF Calls
<1>3. /\ CallOf(c) = "answered"
      /\ CallOf(c)' = IF c \in broken \/ stop # "off" THEN "closed" ELSE "home"
  BY <1>1, <1>2 DEF Told, GiveBack
<1>4. ASSUME NEW e \in Conns, e # c  PROVE CallOf(e)' = CallOf(e)
  <2>1. Somewhere(e) /\ e # None
    BY NoneAssumption DEF Calls
  <2>2. Same(e)
    <3>1. CASE e \in idle \/ e \in closed
      BY <1>1, <3>1 DEF Same, GiveBack
    <3>2. CASE \E r \in Sessions : requests[r] = e
      BY <1>1, <3>2 DEF Same, Over
    <3>3. CASE \E v \in Workers : wconn[v] = e
      BY <1>1, <3>3 DEF Same, Over
    <3>. QED  BY <1>1, <1>4, <2>1, <3>1, <3>2, <3>3 DEF Somewhere
  <2>. QED  BY <2>2, SameCall
<1>5. Contract!Return(c)
  BY <1>1, <1>3, <1>4 DEF Contract!Return
<1>6. Contract!Free(c)
  BY <1>1, <1>3, <1>5 DEF Contract!Free
<1>. QED  BY <1>6 DEF Contract!Next

\* The connections of workers and the manager are gone when the server stops.
LEMMA ContractStop ==
    ASSUME Settled, Places, Calls, Calls', StopServer
    PROVE  [Contract!Next]_(Contract!vars)
<1>1. /\ stop = "off" /\ stop' = "stopping" /\ stage' = [s \in Sessions |-> "left"]
      /\ \A w \in Workers : wconn[w] = None
      /\ UNCHANGED <<produced, list, out, handed, lost, broken, idle, closed, item,
                     requests, wconn, wses, old>>
  BY DEF StopServer, Places, Hands, Rest, prodVars, reqVars, connVars, workVars, manVars
<1>2. ASSUME NEW c \in Conns
      PROVE  CallOf(c)' = IF CallOf(c) \in {"asked", "late"} THEN "late" ELSE CallOf(c)
  <2>1. Told(c) /\ Told(c)' /\ Somewhere(c) /\ c # None
    BY NoneAssumption DEF Calls
  <2>2. CASE c \in idle \/ c \in closed \/ c = item
    BY <1>1, <2>1, <2>2 DEF Told
  <2>3. CASE \E s \in Sessions : requests[s] = c
    BY <1>1, <2>1, <2>3 DEF Told, Over
  <2>. QED  BY <1>1, <2>1, <2>2, <2>3 DEF Somewhere
<1>3. Contract!Stop
  BY <1>1, <1>2 DEF Contract!Stop, Contract!Open
<1>. QED  BY <1>3 DEF Contract!Next

LEMMA ContractJoin ==
    ASSUME Settled, Reasons, Places, Calls, Calls', JoinThread
    PROVE  [Contract!Next]_(Contract!vars)
<1>1. /\ stop = "exit" /\ stop' = "freed" /\ item = None
      /\ closed' = closed \cup ({requests[s] : s \in Sessions} \ {None})
      /\ \A w \in Workers : wconn[w] = None
      /\ UNCHANGED <<produced, list, out, handed, lost, broken, idle, item>>
  BY DEF JoinThread, Reasons, Places, Hands, prodVars, workVars, manVars
<1>2. ASSUME NEW c \in Conns
      PROVE  CallOf(c)' = IF CallOf(c) \in {"asked", "late"} THEN "closed" ELSE CallOf(c)
  <2>1. Told(c) /\ Told(c)' /\ Somewhere(c) /\ c # None
    BY NoneAssumption DEF Calls
  <2>2. CASE c \in idle \/ c \in closed
    BY <1>1, <2>1, <2>2 DEF Told
  <2>3. CASE \E s \in Sessions : requests[s] = c
    <3>1. CallOf(c) \in {"asked", "late"} /\ c \in closed'
      BY <1>1, <2>1, <2>3 DEF Told
    <3>. QED  BY <2>1, <3>1 DEF Told
  <2>. QED  BY <1>1, <2>1, <2>2, <2>3 DEF Somewhere
<1>3. Contract!Finish
  BY <1>1, <1>2 DEF Contract!Finish, Contract!Open
<1>. QED  BY <1>3 DEF Contract!Next

LEMMA ContractInit == Init => Contract!Init
<1>. SUFFICES ASSUME Init  PROVE Contract!Init
  OBVIOUS
<1>1. \A c \in Conns : CallOf(c) = "home"
  BY DEF Init, CallOf
<1>2. out \o list = <<>>
  BY DEF Init
<1>. QED  BY <1>1, <1>2 DEF Init, Contract!Init

LEMMA ContractStep ==
    ASSUME Settled, Settled', Places, Places', Order, Reasons, [Next]_vars
    PROVE  [Contract!Next]_(Contract!vars)
<1>. USE DEF prodVars, reqVars, connVars, workVars, manVars, World, Rest
<1>0. Calls /\ Calls'
  BY PlacesCalls, PTL
<1>1. ASSUME NEW w \in Workers, NEW s \in Sessions, NEW c \in Conns, GetItemsCall(w, s, c)
      PROVE  [Contract!Next]_(Contract!vars)
  BY <1>0, <1>1, ContractCall
<1>2. ASSUME NEW w \in Workers, AddRequest(w)  PROVE [Contract!Next]_(Contract!vars)
  BY <1>0, <1>2, ContractAdd
<1>3. CASE /\ Aside /\ UNCHANGED <<idle, closed, item, requests, wconn>>
           /\ \A s \in Sessions : Over(s) => Over(s)'
           /\ \A s \in Sessions : s \in old /\ requests[s] # None => s \in old'
           /\ \A w \in Workers : wconn[w] # None => wses'[w] = wses[w]
  <2>1. \A w \in Workers : wconn[w] # None => wses[w] \in Sessions
    BY DEF Places, Hands, Settled, InPlace
  <2>. QED  BY <1>0, <1>3, <2>1, Expiring
<1>4. ASSUME NEW w \in Workers, TellRequest(w)  PROVE [Contract!Next]_(Contract!vars)
  <2>1. wconn[w] = None /\ \A v \in Workers \ {w} : wses'[v] = wses[v]
    BY <1>4 DEF TellRequest, Places, Hands, Settled, TypeOK
  <2>. QED  BY <1>3, <1>4, <2>1 DEF TellRequest, Aside, Over
<1>5. ASSUME NEW p \in Producers, AddNotification(p)  PROVE [Contract!Next]_(Contract!vars)
  BY <1>0, <1>5, ContractMake
<1>6. ASSUME NEW p \in Producers, ProducerStep(p)  PROVE [Contract!Next]_(Contract!vars)
  BY <1>3, <1>6 DEF ProducerStep, LockSessions, TellSessions, Aside, Over
<1>7. ASSUME NEW s \in Sessions, Age(s) \/ Close(s) \/ Leave(s) \/ TellLeft(s)
      PROVE  [Contract!Next]_(Contract!vars)
  <2>1. \A r \in Sessions : Over(r) => Over(r)'
    BY <1>7 DEF Age, Close, Leave, TellLeft, Over, Settled, TypeOK
  <2>. QED  BY <1>3, <1>7, <2>1 DEF Age, Close, Leave, TellLeft, Aside
<1>8. ASSUME NEW c \in Conns, Break(c)  PROVE [Contract!Next]_(Contract!vars)
  BY <1>0, <1>8, ContractBreak
<1>9. CASE CheckExit \/ CopyActive \/ NextSession \/ UpdateSessionTime \/ Scan
  BY <1>3, <1>9 DEF CheckExit, CopyActive, NextSession, UpdateSessionTime, Scan, Aside, Over
<1>10. CASE Validate
  <2>1. out' = out
    BY <1>10 DEF Validate, Order
  <2>. QED  BY <1>3, <1>10, <2>1 DEF Validate, Aside, Over
<1>11. CASE TakeItems \/ Send \/ NotifyDone
  BY <1>0, <1>11, ContractTake, ContractSend, ContractDone
<1>12. CASE StopServer \/ JoinThread
  BY <1>0, <1>12, ContractStop, ContractJoin
<1>13. CASE LockTable \/ SetExit
  BY <1>13, <1>0, Unmoved DEF LockTable, SetExit, Contract!vars
<1>14. CASE UNCHANGED vars
  BY <1>3, <1>14 DEF vars, Aside, Over
<1>. QED
  BY <1>1, <1>2, <1>4, <1>5, <1>6, <1>7, <1>8, <1>9, <1>10, <1>11, <1>12, <1>13, <1>14
  DEF Next, WorkerStep, ManagerStep, StopStep

\* The notifications of a group keep their contract, for any sessions, clients
\* and threads: each is sent once and in order in answer to an open call, and a
\* call is answered once, and with nothing only when that is due.
THEOREM Implements == Spec => ContractHolds
<1>1. /\ Settled /\ Settled' /\ Places /\ Places' /\ Order /\ Reasons /\ [Next]_vars
         => [Contract!Next]_(Contract!vars)
  BY ContractStep
<1>2. Spec => [](Settled /\ Places /\ Order /\ Reasons)
  BY SettledInvariant, PlacesInit, PlacesStep, OrderInit, OrderStep, ReasonsInit,
     ReasonsStep, PTL DEF Spec
<1>. QED  BY <1>1, <1>2, ContractInit, PTL DEF Spec, ContractHolds, Contract!Spec

-----------------------------------------------------------------------------
(* The end of the manager.                                                 *)

\* The thread ends when it is told to, with nothing in hand, and is joined
\* before the requests are closed; none comes after that.
Joined == /\ mpc = "exit" => stop \in {"exit", "freed"}
          /\ stop = "freed" => mpc = "exit" /\ Waiting = {}

LEMMA JoinedInit == Init => Joined
BY DEF Init, Joined

LEMMA JoinedStep == Settled /\ Reasons /\ Joined /\ [Next]_vars => Joined'
<1>. SUFFICES ASSUME Settled, Reasons, Joined, [Next]_vars  PROVE Joined'
  OBVIOUS
<1>. USE DEF prodVars, reqVars, connVars, workVars, manVars, World, Rest
<1>1. CASE UNCHANGED <<requests, mpc, stop>>
  BY <1>1 DEF Joined, Waiting
<1>2. ASSUME NEW w \in Workers, NEW s \in Sessions, NEW c \in Conns,
             GetItemsCall(w, s, c)
      PROVE  Joined'
  BY <1>1, <1>2 DEF GetItemsCall
<1>3. ASSUME NEW w \in Workers, WorkerStep(w)  PROVE Joined'
  <2>1. stop = "off" /\ UNCHANGED <<mpc, stop>>
    BY <1>3 DEF WorkerStep, AddRequest, TellRequest, Reasons, Settled, TypeOK
  <2>. QED  BY <2>1 DEF Joined
<1>4. ASSUME NEW p \in Producers, AddNotification(p) \/ ProducerStep(p)
      PROVE  Joined'
  BY <1>1, <1>4 DEF AddNotification, ProducerStep, LockSessions, TellSessions
<1>5. ASSUME NEW s \in Sessions, Age(s) \/ Close(s) \/ Leave(s) \/ TellLeft(s)
      PROVE  Joined'
  BY <1>1, <1>5 DEF Age, Close, Leave, TellLeft
<1>6. ASSUME NEW c \in Conns, Break(c)  PROVE Joined'
  BY <1>1, <1>6 DEF Break
<1>7. CASE CheckExit \/ CopyActive \/ NextSession \/ Validate \/ UpdateSessionTime
           \/ TakeItems \/ Send \/ NotifyDone \/ Scan
  <2>1. stop # "freed" /\ stop' = stop /\ (mpc' = "exit" => stop = "exit")
    BY <1>7 DEF CheckExit, CopyActive, NextSession, Validate, UpdateSessionTime,
                TakeItems, Send, NotifyDone, Scan, Joined
  <2>. QED  BY <2>1 DEF Joined
<1>8. CASE StopServer \/ LockTable \/ SetExit
  <2>1. /\ mpc' = mpc /\ stop # "freed" /\ stop' # "freed"
        /\ stop \in {"exit", "freed"} => stop' \in {"exit", "freed"}
    BY <1>8 DEF StopServer, LockTable, SetExit
  <2>. QED  BY <2>1 DEF Joined
<1>9. CASE JoinThread
  BY <1>9 DEF JoinThread, Joined, Waiting
<1>10. CASE UNCHANGED vars
  BY <1>1, <1>10 DEF vars
<1>. QED
  BY <1>2, <1>3, <1>4, <1>5, <1>6, <1>7, <1>8, <1>9, <1>10 DEF Next, ManagerStep, StopStep

\* When the notification manager is deleted, no connection is left with it, on
\* its way to it or on its way back, whatever was asked, answered and waited
\* for before (~ECNotificationManager, Work).
THEOREM EndsClean == Spec => []NoneLeftOpen
<1>1. Settled /\ Places /\ Reasons /\ Joined => NoneLeftOpen
  <2>. SUFFICES ASSUME Places, Reasons, Joined, stop = "freed"
                PROVE  idle \cup closed = Conns
    BY DEF NoneLeftOpen
  <2>1. Waiting = {} /\ Giving = {}
    BY DEF Joined, Places, Hands, Giving
  <2>2. Adding = {}
    BY DEF Reasons, Places, Hands, Adding
  <2>. QED  BY <2>1, <2>2 DEF Places, Apart, Free
<1>. QED
  BY <1>1, SettledInvariant, PlacesInit, PlacesStep, ReasonsInit, ReasonsStep,
     JoinedInit, JoinedStep, PTL DEF Spec
==============================================================================
