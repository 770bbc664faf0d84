--------------------------- MODULE SessionsProofs ---------------------------
(***************************************************************************)
(* Proofs about Sessions, for any number of workers, sessions and group    *)
(* ids.  The first part proves the life of a session: Life is an inductive *)
(* invariant that says where each thread is, which sessions it alone is    *)
(* answerable for, and that the reference counts are right; RefCounted,    *)
(* SafeDelete and OneDeleter are conjuncts of it.  The second part adds    *)
(* the session groups (Grouping), for MembersAlive and NoOrphanLeft.       *)
(***************************************************************************)
EXTENDS Sessions, FiniteSetTheorems, TLAPS

\* What a thread has in its hands at each place.
Places_ == \A a \in Actors :
    /\ pc[a] = "busy" => held[a] \in Sids
    /\ pc[a] \in {"idle", "upgrade", "register", "remove"} => held[a] = None
    /\ pc[a] \in {"upgrade", "register", "remove", "shutdown", "release", "orphan"}
          => cur[a] \in Sids
    /\ pc[a] \in {"idle", "upgrade", "register", "busy", "remove"} => doomed[a] = {}

\* The stage of the sessions a thread makes or deletes.
Staged == \A a \in Actors :
    /\ \A s \in doomed[a] : sess[s] = "removed"
    /\ pc[a] \in {"upgrade", "register"} => sess[cur[a]] = "new"
    /\ pc[a] = "shutdown" => /\ sess[cur[a]] = "removed"
                             /\ cur[a] \notin cancelled \cup doomed[a]
    /\ pc[a] \in {"release", "orphan"} => sess[cur[a]] = "dying"

\* Only a session that has been in the table is held or cancelled.
HeldOnce == \A a \in Actors, s \in Sids : held[a] = s => sess[s] \notin {"none", "new"}
Cancelled == \A s \in cancelled : sess[s] \in {"removed", "dying", "freed"}

Life == /\ TypeOK /\ Places_ /\ Staged /\ HeldOnce /\ Cancelled
        /\ RefCounted /\ SafeDelete /\ OneDeleter

-----------------------------------------------------------------------------
\* Users (m_ulRefCount) is a set of threads, of which there are finitely many.
LEMMA UsersFinite == ASSUME NEW s \in Sids PROVE IsFiniteSet(Users(s))
<1>1. IsFiniteSet(Actors)
    <2>1. IsFiniteSet(Workers \cup {Notifier})
        BY ActorAssumption, FS_AddElement
    <2>2. IsFiniteSet((Workers \cup {Notifier}) \cup {Cleaner})
        BY <2>1, FS_AddElement
    <2>3. IsFiniteSet(((Workers \cup {Notifier}) \cup {Cleaner}) \cup {Main})
        BY <2>2, FS_AddElement
    <2>4. Actors = ((Workers \cup {Notifier}) \cup {Cleaner}) \cup {Main}
        BY DEF Actors
    <2>. QED BY <2>3, <2>4
<1>2. Users(s) \subseteq Actors
    BY DEF Users
<1>. QED BY <1>1, <1>2, FS_Subset

\* A session without users has the count 0, and the other way round.
LEMMA NoUsers == ASSUME Life, NEW s \in Sids
                 PROVE  refs[s] = 0 <=> Users(s) = {}
BY UsersFinite, FS_EmptySet DEF Life, RefCounted

\* The count of a session that is held can fall.
LEMMA HeldCounts == ASSUME Life, NEW a \in Actors, held[a] \in Sids
                    PROVE  refs[held[a]] - 1 \in Nat
<1>1. refs[held[a]] # 0
    BY NoUsers DEF Users
<1>. QED BY <1>1 DEF Life, TypeOK

\* What a thread has in hand is on its way in or out.
LEMMA InHandStage == ASSUME Life, NEW a \in Actors, NEW s \in InHand(a)
                     PROVE  sess[s] \in {"new", "removed", "dying"}
BY DEF Life, Staged, InHand

\* A thread without a session takes one: its count grows by one.
LEMMA UsersAdd ==
    ASSUME TypeOK, NEW a \in Actors, NEW s \in Sids, held[a] = None,
           held' = [held EXCEPT ![a] = s]
    PROVE  /\ Cardinality(Users(s))' = Cardinality(Users(s)) + 1
           /\ \A t \in Sids \ {s} : Users(t)' = Users(t)
<1>1. Users(s)' = Users(s) \cup {a} /\ a \notin Users(s)
    BY IdAssumption DEF Users, TypeOK
<1>2. Cardinality(Users(s) \cup {a}) = Cardinality(Users(s)) + 1
    BY <1>1, UsersFinite, FS_AddElement
<1>3. ASSUME NEW t \in Sids \ {s} PROVE Users(t)' = Users(t)
    BY IdAssumption DEF Users, TypeOK
<1>. QED BY <1>1, <1>2, <1>3

\* A thread lets go of its session: the count falls by one.
LEMMA UsersDrop ==
    ASSUME TypeOK, NEW a \in Actors, NEW s \in Sids, held[a] = s,
           held' = [held EXCEPT ![a] = None]
    PROVE  /\ Cardinality(Users(s))' = Cardinality(Users(s)) - 1
           /\ \A t \in Sids \ {s} : Users(t)' = Users(t)
<1>1. Users(s)' = Users(s) \ {a} /\ a \in Users(s)
    BY IdAssumption DEF Users, TypeOK
<1>2. Cardinality(Users(s) \ {a}) = Cardinality(Users(s)) - 1
    BY <1>1, UsersFinite, FS_RemoveElement
<1>3. ASSUME NEW t \in Sids \ {s} PROVE Users(t)' = Users(t)
    BY IdAssumption DEF Users, TypeOK
<1>. QED BY <1>1, <1>2, <1>3

\* What the end of a destructor does beside the groups.
LEMMA OrphanEffect ==
    ASSUME NEW a \in Actors, DeleteIfOrphaned(a)
    PROVE  /\ pc[a] = "orphan" /\ pc' = [pc EXCEPT ![a] = "next"]
           /\ cur' = [cur EXCEPT ![a] = None]
           /\ sess' = [sess EXCEPT ![cur[a]] = "freed"]
           /\ UNCHANGED <<refs, cancelled, gid, group, members, held, doomed,
                          stopping>>
BY DEF DeleteIfOrphaned, Goto

-----------------------------------------------------------------------------
(* The life of a session, step by step: one lemma per conjunct of Life.    *)

LEMMA LifeInit == Init => Life
<1> SUFFICES ASSUME Init PROVE Life
    OBVIOUS
<1>1. TypeOK
    BY DEF Init, TypeOK, Stages, Places
<1>2. Places_ /\ Staged /\ HeldOnce /\ Cancelled /\ SafeDelete /\ OneDeleter
    BY IdAssumption DEF Init, Places_, Staged, HeldOnce, Cancelled, SafeDelete,
       Users, OneDeleter, InHand
<1>3. RefCounted
    <2> SUFFICES ASSUME NEW s \in Sids PROVE refs[s] = Cardinality(Users(s))
        BY DEF RefCounted
    <2>1. Users(s) = {}
        BY IdAssumption DEF Init, Users
    <2>. QED BY <2>1, FS_EmptySet DEF Init
<1>. QED BY <1>1, <1>2, <1>3 DEF Life

\* The types.
LEMMA TypeStep == Life /\ [Next]_vars => TypeOK'
<1> SUFFICES ASSUME Life, [Next]_vars
             PROVE  TypeOK'
    OBVIOUS
<1>1. ASSUME NEW w \in Workers, NEW s \in Sids, NEW i \in Gids \cup
       {OwnGroup}, Logon(w, s, i)
      PROVE  TypeOK'
    BY <1>1 DEF Logon, Ready, Goto, Attach, NewGroup, TypeOK, Stages, Places,
       Life, Actors
<1>2. ASSUME NEW w \in Workers, UpgradeGroup(w)
      PROVE  TypeOK'
    <2>1. w \in Actors /\ cur[w] \in Sids
        BY <1>2 DEF UpgradeGroup, Life, Places_, Actors
    <2>2. /\ group' \in [Sids -> Sids \cup {None}]
          /\ members' \in [Sids -> SUBSET Sids]
        BY <1>2, <2>1 DEF UpgradeGroup, Attach, Life, TypeOK
    <2>3. gstate' \in [Sids -> {"none", "alive", "freed"}]
        BY <1>2, <2>1 DEF UpgradeGroup, NewGroup, Life, TypeOK
    <2>4. gmap' \in [Gids -> Sids \cup {None}]
        BY <1>2, <2>1 DEF UpgradeGroup, Life, TypeOK
    <2>5. pc' \in [Actors -> Places]
        BY <1>2, <2>1 DEF UpgradeGroup, Goto, Places, Life, TypeOK
    <2>6. UNCHANGED <<sess, refs, cancelled, gid, cur, held, doomed, stopping>>
        BY <1>2 DEF UpgradeGroup, tableVars
    <2>. QED BY <2>2, <2>3, <2>4, <2>5, <2>6 DEF Life, TypeOK
<1>3. ASSUME NEW w \in Workers, RegisterSession(w)
      PROVE  TypeOK'
    BY <1>3 DEF RegisterSession, Goto, groupVars, TypeOK, Stages, Places,
       Life, Actors, Places_
<1>4. ASSUME NEW w \in Workers, CreateFails(w)
      PROVE  TypeOK'
    BY <1>4 DEF CreateFails, Goto, groupVars, TypeOK, Stages, Places, Life,
       Actors
<1>5. ASSUME NEW w \in Workers, LogoffUnlock(w)
      PROVE  TypeOK'
    BY <1>5, HeldCounts DEF LogoffUnlock, LetGo, Goto, groupVars, TypeOK,
       Stages, Places, Life, Actors, Places_
<1>6. ASSUME NEW w \in Workers, RemoveSession(w)
      PROVE  TypeOK'
    BY <1>6 DEF RemoveSession, TakeOut, Live, Goto, groupVars, TypeOK, Stages,
       Places, Life, Actors
<1>7. ASSUME NEW w \in Workers, CancelAllSessions(w)
      PROVE  TypeOK'
    BY <1>7 DEF CancelAllSessions, TakeOut, Live, Goto, groupVars, TypeOK,
       Stages, Places, Life, Actors
<1>8. ASSUME NEW a \in Actors, NEW s \in Sids, ValidateSession(a, s)
      PROVE  TypeOK'
    BY <1>8 DEF ValidateSession, Ready, Goto, groupVars, TypeOK, Stages,
       Places, Life, Actors, Places_
<1>9. ASSUME NEW a \in Actors, Unlock(a)
      PROVE  TypeOK'
    BY <1>9, HeldCounts DEF Unlock, LetGo, Goto, groupVars, TypeOK, Stages,
       Places, Life, Actors, Places_
<1>10. ASSUME NEW a \in Actors, NextDoomed(a)
      PROVE  TypeOK'
    BY <1>10 DEF NextDoomed, Goto, groupVars, TypeOK, Stages, Places, Life,
       Actors
<1>11. ASSUME NEW a \in Actors, Shutdown(a)
      PROVE  TypeOK'
    BY <1>11 DEF Shutdown, Goto, groupVars, TypeOK, Stages, Places, Life,
       Actors
<1>12. ASSUME NEW a \in Actors, ShutdownTimeout(a)
      PROVE  TypeOK'
    BY <1>12 DEF ShutdownTimeout, Goto, groupVars, TypeOK, Stages, Places,
       Life, Actors
<1>13. ASSUME NEW a \in Actors, ReleaseSession(a)
      PROVE  TypeOK'
    BY <1>13 DEF ReleaseSession, Goto, tableVars, TypeOK, Stages, Places,
       Life, Actors
<1>14. ASSUME NEW a \in Actors, DeleteIfOrphaned(a)
      PROVE  TypeOK'
    BY <1>14 DEF DeleteIfOrphaned, DeleteGroup, Goto, TypeOK, Stages, Places,
       Life, Actors
<1>15. ASSUME NEW S \in SUBSET Sids, SessionCleaner(S)
      PROVE  TypeOK'
    BY <1>15 DEF SessionCleaner, TakeOut, Live, Goto, groupVars, TypeOK,
       Stages, Places, Life, Actors
<1>16. ASSUME ServerStop
      PROVE  TypeOK'
    BY <1>16 DEF ServerStop, tableVars, groupVars, threadVars, TypeOK, Stages,
       Places, Life, Actors
<1>17. ASSUME RemoveAllSessions
      PROVE  TypeOK'
    BY <1>17 DEF RemoveAllSessions, TakeOut, Live, Goto, groupVars, TypeOK,
       Stages, Places, Life, Actors
<1>18. CASE UNCHANGED vars
    BY <1>18 DEF vars, TypeOK, Stages, Places, Life, Actors
<1>. QED BY <1>1, <1>2, <1>3, <1>4, <1>5, <1>6, <1>7, <1>8, <1>9, <1>10,
       <1>11, <1>12, <1>13, <1>14, <1>15, <1>16, <1>17, <1>18 DEF Next,
       DeleteStep

\* What each thread has in its hands.
LEMMA PlacesStep == Life /\ [Next]_vars => Places_'
<1> SUFFICES ASSUME Life, [Next]_vars
             PROVE  Places_'
    OBVIOUS
<1>1. ASSUME NEW w \in Workers, NEW s \in Sids, NEW i \in Gids \cup
       {OwnGroup}, Logon(w, s, i)
      PROVE  Places_'
    BY <1>1, ActorAssumption, IdAssumption DEF Logon, Ready, Goto, Attach,
       NewGroup, Life, TypeOK, Places_, Actors
<1>2. ASSUME NEW w \in Workers, UpgradeGroup(w)
      PROVE  Places_'
    BY <1>2, ActorAssumption, IdAssumption DEF UpgradeGroup, Goto, Attach,
       NewGroup, tableVars, Life, TypeOK, Places_, Actors
<1>3. ASSUME NEW w \in Workers, RegisterSession(w)
      PROVE  Places_'
    BY <1>3, ActorAssumption, IdAssumption DEF RegisterSession, Goto,
       groupVars, Life, TypeOK, Places_, Actors
<1>4. ASSUME NEW w \in Workers, CreateFails(w)
      PROVE  Places_'
    BY <1>4, ActorAssumption, IdAssumption DEF CreateFails, Goto, groupVars,
       Life, TypeOK, Places_, Actors
<1>5. ASSUME NEW w \in Workers, LogoffUnlock(w)
      PROVE  Places_'
    BY <1>5, ActorAssumption, IdAssumption DEF LogoffUnlock, LetGo, Goto,
       groupVars, Life, TypeOK, Places_, Actors
<1>6. ASSUME NEW w \in Workers, RemoveSession(w)
      PROVE  Places_'
    BY <1>6, ActorAssumption, IdAssumption DEF RemoveSession, TakeOut, Live,
       Goto, groupVars, Life, TypeOK, Places_, Actors
<1>7. ASSUME NEW w \in Workers, CancelAllSessions(w)
      PROVE  Places_'
    BY <1>7, ActorAssumption, IdAssumption DEF CancelAllSessions, TakeOut,
       Live, Goto, groupVars, Life, TypeOK, Places_, Actors
<1>8. ASSUME NEW a \in Actors, NEW s \in Sids, ValidateSession(a, s)
      PROVE  Places_'
    BY <1>8, ActorAssumption, IdAssumption DEF ValidateSession, Ready, Goto,
       groupVars, Life, TypeOK, Places_, Actors
<1>9. ASSUME NEW a \in Actors, Unlock(a)
      PROVE  Places_'
    BY <1>9, ActorAssumption, IdAssumption DEF Unlock, LetGo, Goto, groupVars,
       Life, TypeOK, Places_, Actors
<1>10. ASSUME NEW a \in Actors, NextDoomed(a)
      PROVE  Places_'
    BY <1>10, ActorAssumption, IdAssumption DEF NextDoomed, Goto, groupVars,
       Life, TypeOK, Places_, Actors
<1>11. ASSUME NEW a \in Actors, Shutdown(a)
      PROVE  Places_'
    BY <1>11, ActorAssumption, IdAssumption DEF Shutdown, Goto, groupVars,
       Life, TypeOK, Places_, Actors
<1>12. ASSUME NEW a \in Actors, ShutdownTimeout(a)
      PROVE  Places_'
    BY <1>12, ActorAssumption, IdAssumption DEF ShutdownTimeout, Goto,
       groupVars, Life, TypeOK, Places_, Actors
<1>13. ASSUME NEW a \in Actors, ReleaseSession(a)
      PROVE  Places_'
    BY <1>13, ActorAssumption, IdAssumption DEF ReleaseSession, Goto,
       tableVars, Life, TypeOK, Places_, Actors
<1>14. ASSUME NEW a \in Actors, DeleteIfOrphaned(a)
      PROVE  Places_'
    BY <1>14, OrphanEffect, ActorAssumption, IdAssumption DEF Life, TypeOK,
       Places_, Actors
<1>15. ASSUME NEW S \in SUBSET Sids, SessionCleaner(S)
      PROVE  Places_'
    BY <1>15, ActorAssumption, IdAssumption DEF SessionCleaner, TakeOut, Live,
       Goto, groupVars, Life, TypeOK, Places_, Actors
<1>16. ASSUME ServerStop
      PROVE  Places_'
    BY <1>16, ActorAssumption, IdAssumption DEF ServerStop, tableVars,
       groupVars, threadVars, Life, TypeOK, Places_, Actors
<1>17. ASSUME RemoveAllSessions
      PROVE  Places_'
    BY <1>17, ActorAssumption, IdAssumption DEF RemoveAllSessions, TakeOut,
       Live, Goto, groupVars, Life, TypeOK, Places_, Actors
<1>18. CASE UNCHANGED vars
    BY <1>18, ActorAssumption, IdAssumption DEF vars, Life, TypeOK, Places_,
       Actors
<1>. QED BY <1>1, <1>2, <1>3, <1>4, <1>5, <1>6, <1>7, <1>8, <1>9, <1>10,
       <1>11, <1>12, <1>13, <1>14, <1>15, <1>16, <1>17, <1>18 DEF Next,
       DeleteStep

\* The stage of what is in hand.
LEMMA StagedStep == Life /\ [Next]_vars => Staged'
<1> SUFFICES ASSUME Life, [Next]_vars
             PROVE  Staged'
    OBVIOUS
<1>1. ASSUME NEW w \in Workers, NEW s \in Sids, NEW i \in Gids \cup
       {OwnGroup}, Logon(w, s, i)
      PROVE  Staged'
    BY <1>1, ActorAssumption DEF Logon, Ready, Goto, Attach, NewGroup, Life,
       TypeOK, Places_, Staged, OneDeleter, InHand, Cancelled, Actors
<1>2. ASSUME NEW w \in Workers, UpgradeGroup(w)
      PROVE  Staged'
    BY <1>2, ActorAssumption DEF UpgradeGroup, Goto, Attach, NewGroup,
       tableVars, Life, TypeOK, Places_, Staged, OneDeleter, InHand,
       Cancelled, Actors
<1>3. ASSUME NEW w \in Workers, RegisterSession(w)
      PROVE  Staged'
    BY <1>3, ActorAssumption DEF RegisterSession, Goto, groupVars, Life,
       TypeOK, Places_, Staged, OneDeleter, InHand, Cancelled, Actors
<1>4. ASSUME NEW w \in Workers, CreateFails(w)
      PROVE  Staged'
    BY <1>4, ActorAssumption DEF CreateFails, Goto, groupVars, Life, TypeOK,
       Places_, Staged, OneDeleter, InHand, Cancelled, Actors
<1>5. ASSUME NEW w \in Workers, LogoffUnlock(w)
      PROVE  Staged'
    BY <1>5, ActorAssumption DEF LogoffUnlock, LetGo, Goto, groupVars, Life,
       TypeOK, Places_, Staged, OneDeleter, InHand, Cancelled, Actors
<1>6. ASSUME NEW w \in Workers, RemoveSession(w)
      PROVE  Staged'
    BY <1>6, ActorAssumption DEF RemoveSession, TakeOut, Live, Goto,
       groupVars, Life, TypeOK, Places_, Staged, OneDeleter, InHand,
       Cancelled, Actors
<1>7. ASSUME NEW w \in Workers, CancelAllSessions(w)
      PROVE  Staged'
    BY <1>7, ActorAssumption DEF CancelAllSessions, TakeOut, Live, Goto,
       groupVars, Life, TypeOK, Places_, Staged, OneDeleter, InHand,
       Cancelled, Actors
<1>8. ASSUME NEW a \in Actors, NEW s \in Sids, ValidateSession(a, s)
      PROVE  Staged'
    BY <1>8, ActorAssumption DEF ValidateSession, Ready, Goto, groupVars,
       Life, TypeOK, Places_, Staged, OneDeleter, InHand, Cancelled, Actors
<1>9. ASSUME NEW a \in Actors, Unlock(a)
      PROVE  Staged'
    BY <1>9, ActorAssumption DEF Unlock, LetGo, Goto, groupVars, Life, TypeOK,
       Places_, Staged, OneDeleter, InHand, Cancelled, Actors
<1>10. ASSUME NEW a \in Actors, NextDoomed(a)
      PROVE  Staged'
    BY <1>10, ActorAssumption DEF NextDoomed, Goto, groupVars, Life, TypeOK,
       Places_, Staged, OneDeleter, InHand, Cancelled, Actors
<1>11. ASSUME NEW a \in Actors, Shutdown(a)
      PROVE  Staged'
    BY <1>11, ActorAssumption DEF Shutdown, Goto, groupVars, Life, TypeOK,
       Places_, Staged, OneDeleter, InHand, Cancelled, Actors
<1>12. ASSUME NEW a \in Actors, ShutdownTimeout(a)
      PROVE  Staged'
    BY <1>12, ActorAssumption DEF ShutdownTimeout, Goto, groupVars, Life,
       TypeOK, Places_, Staged, OneDeleter, InHand, Cancelled, Actors
<1>13. ASSUME NEW a \in Actors, ReleaseSession(a)
      PROVE  Staged'
    BY <1>13, ActorAssumption DEF ReleaseSession, Goto, tableVars, Life,
       TypeOK, Places_, Staged, OneDeleter, InHand, Cancelled, Actors
<1>14. ASSUME NEW a \in Actors, DeleteIfOrphaned(a)
      PROVE  Staged'
    BY <1>14, OrphanEffect, ActorAssumption DEF Life, TypeOK, Places_,
       Staged, OneDeleter, InHand, Cancelled, Actors
<1>15. ASSUME NEW S \in SUBSET Sids, SessionCleaner(S)
      PROVE  Staged'
    BY <1>15, ActorAssumption DEF SessionCleaner, TakeOut, Live, Goto,
       groupVars, Life, TypeOK, Places_, Staged, OneDeleter, InHand,
       Cancelled, Actors
<1>16. ASSUME ServerStop
      PROVE  Staged'
    BY <1>16, ActorAssumption DEF ServerStop, tableVars, groupVars,
       threadVars, Life, TypeOK, Places_, Staged, OneDeleter, InHand,
       Cancelled, Actors
<1>17. ASSUME RemoveAllSessions
      PROVE  Staged'
    BY <1>17, ActorAssumption DEF RemoveAllSessions, TakeOut, Live, Goto,
       groupVars, Life, TypeOK, Places_, Staged, OneDeleter, InHand,
       Cancelled, Actors
<1>18. CASE UNCHANGED vars
    BY <1>18, ActorAssumption DEF vars, Life, TypeOK, Places_, Staged,
       OneDeleter, InHand, Cancelled, Actors
<1>. QED BY <1>1, <1>2, <1>3, <1>4, <1>5, <1>6, <1>7, <1>8, <1>9, <1>10,
       <1>11, <1>12, <1>13, <1>14, <1>15, <1>16, <1>17, <1>18 DEF Next,
       DeleteStep

\* What is held has been in the table.
LEMMA HeldStep == Life /\ [Next]_vars => HeldOnce'
<1> SUFFICES ASSUME Life, [Next]_vars
             PROVE  HeldOnce'
    OBVIOUS
<1>1. ASSUME NEW w \in Workers, NEW s \in Sids, NEW i \in Gids \cup
       {OwnGroup}, Logon(w, s, i)
      PROVE  HeldOnce'
    BY <1>1, IdAssumption DEF Logon, Ready, Goto, Attach, NewGroup, Life,
       TypeOK, Places_, Staged, HeldOnce, Actors
<1>2. ASSUME NEW w \in Workers, UpgradeGroup(w)
      PROVE  HeldOnce'
    BY <1>2, IdAssumption DEF UpgradeGroup, Goto, Attach, NewGroup, tableVars,
       Life, TypeOK, Places_, Staged, HeldOnce, Actors
<1>3. ASSUME NEW w \in Workers, RegisterSession(w)
      PROVE  HeldOnce'
    BY <1>3, IdAssumption DEF RegisterSession, Goto, groupVars, Life, TypeOK,
       Places_, Staged, HeldOnce, Actors
<1>4. ASSUME NEW w \in Workers, CreateFails(w)
      PROVE  HeldOnce'
    BY <1>4, IdAssumption DEF CreateFails, Goto, groupVars, Life, TypeOK,
       Places_, Staged, HeldOnce, Actors
<1>5. ASSUME NEW w \in Workers, LogoffUnlock(w)
      PROVE  HeldOnce'
    BY <1>5, IdAssumption DEF LogoffUnlock, LetGo, Goto, groupVars, Life,
       TypeOK, Places_, Staged, HeldOnce, Actors
<1>6. ASSUME NEW w \in Workers, RemoveSession(w)
      PROVE  HeldOnce'
    BY <1>6, IdAssumption DEF RemoveSession, TakeOut, Live, Goto, groupVars,
       Life, TypeOK, Places_, Staged, HeldOnce, Actors
<1>7. ASSUME NEW w \in Workers, CancelAllSessions(w)
      PROVE  HeldOnce'
    BY <1>7, IdAssumption DEF CancelAllSessions, TakeOut, Live, Goto,
       groupVars, Life, TypeOK, Places_, Staged, HeldOnce, Actors
<1>8. ASSUME NEW a \in Actors, NEW s \in Sids, ValidateSession(a, s)
      PROVE  HeldOnce'
    BY <1>8, IdAssumption DEF ValidateSession, Ready, Goto, groupVars, Life,
       TypeOK, Places_, Staged, HeldOnce, Actors
<1>9. ASSUME NEW a \in Actors, Unlock(a)
      PROVE  HeldOnce'
    BY <1>9, IdAssumption DEF Unlock, LetGo, Goto, groupVars, Life, TypeOK,
       Places_, Staged, HeldOnce, Actors
<1>10. ASSUME NEW a \in Actors, NextDoomed(a)
      PROVE  HeldOnce'
    BY <1>10, IdAssumption DEF NextDoomed, Goto, groupVars, Life, TypeOK,
       Places_, Staged, HeldOnce, Actors
<1>11. ASSUME NEW a \in Actors, Shutdown(a)
      PROVE  HeldOnce'
    BY <1>11, IdAssumption DEF Shutdown, Goto, groupVars, Life, TypeOK,
       Places_, Staged, HeldOnce, Actors
<1>12. ASSUME NEW a \in Actors, ShutdownTimeout(a)
      PROVE  HeldOnce'
    BY <1>12, IdAssumption DEF ShutdownTimeout, Goto, groupVars, Life, TypeOK,
       Places_, Staged, HeldOnce, Actors
<1>13. ASSUME NEW a \in Actors, ReleaseSession(a)
      PROVE  HeldOnce'
    BY <1>13, IdAssumption DEF ReleaseSession, Goto, tableVars, Life, TypeOK,
       Places_, Staged, HeldOnce, Actors
<1>14. ASSUME NEW a \in Actors, DeleteIfOrphaned(a)
      PROVE  HeldOnce'
    BY <1>14, OrphanEffect, IdAssumption DEF Life, TypeOK, Places_, Staged,
       HeldOnce, Actors
<1>15. ASSUME NEW S \in SUBSET Sids, SessionCleaner(S)
      PROVE  HeldOnce'
    BY <1>15, IdAssumption DEF SessionCleaner, TakeOut, Live, Goto, groupVars,
       Life, TypeOK, Places_, Staged, HeldOnce, Actors
<1>16. ASSUME ServerStop
      PROVE  HeldOnce'
    BY <1>16, IdAssumption DEF ServerStop, tableVars, groupVars, threadVars,
       Life, TypeOK, Places_, Staged, HeldOnce, Actors
<1>17. ASSUME RemoveAllSessions
      PROVE  HeldOnce'
    BY <1>17, IdAssumption DEF RemoveAllSessions, TakeOut, Live, Goto,
       groupVars, Life, TypeOK, Places_, Staged, HeldOnce, Actors
<1>18. CASE UNCHANGED vars
    BY <1>18, IdAssumption DEF vars, Life, TypeOK, Places_, Staged, HeldOnce,
       Actors
<1>. QED BY <1>1, <1>2, <1>3, <1>4, <1>5, <1>6, <1>7, <1>8, <1>9, <1>10,
       <1>11, <1>12, <1>13, <1>14, <1>15, <1>16, <1>17, <1>18 DEF Next,
       DeleteStep

\* What is deleted without waiting.
LEMMA CancelledStep == Life /\ [Next]_vars => Cancelled'
<1> SUFFICES ASSUME Life, [Next]_vars
             PROVE  Cancelled'
    OBVIOUS
<1>1. ASSUME NEW w \in Workers, NEW s \in Sids, NEW i \in Gids \cup
       {OwnGroup}, Logon(w, s, i)
      PROVE  Cancelled'
    BY <1>1 DEF Logon, Ready, Goto, Attach, NewGroup, Life, TypeOK, Places_,
       Staged, Cancelled, Actors
<1>2. ASSUME NEW w \in Workers, UpgradeGroup(w)
      PROVE  Cancelled'
    BY <1>2 DEF UpgradeGroup, Goto, Attach, NewGroup, tableVars, Life, TypeOK,
       Places_, Staged, Cancelled, Actors
<1>3. ASSUME NEW w \in Workers, RegisterSession(w)
      PROVE  Cancelled'
    BY <1>3 DEF RegisterSession, Goto, groupVars, Life, TypeOK, Places_,
       Staged, Cancelled, Actors
<1>4. ASSUME NEW w \in Workers, CreateFails(w)
      PROVE  Cancelled'
    BY <1>4 DEF CreateFails, Goto, groupVars, Life, TypeOK, Places_, Staged,
       Cancelled, Actors
<1>5. ASSUME NEW w \in Workers, LogoffUnlock(w)
      PROVE  Cancelled'
    BY <1>5 DEF LogoffUnlock, LetGo, Goto, groupVars, Life, TypeOK, Places_,
       Staged, Cancelled, Actors
<1>6. ASSUME NEW w \in Workers, RemoveSession(w)
      PROVE  Cancelled'
    BY <1>6 DEF RemoveSession, TakeOut, Live, Goto, groupVars, Life, TypeOK,
       Places_, Staged, Cancelled, Actors
<1>7. ASSUME NEW w \in Workers, CancelAllSessions(w)
      PROVE  Cancelled'
    BY <1>7 DEF CancelAllSessions, TakeOut, Live, Goto, groupVars, Life,
       TypeOK, Places_, Staged, Cancelled, Actors
<1>8. ASSUME NEW a \in Actors, NEW s \in Sids, ValidateSession(a, s)
      PROVE  Cancelled'
    BY <1>8 DEF ValidateSession, Ready, Goto, groupVars, Life, TypeOK,
       Places_, Staged, Cancelled, Actors
<1>9. ASSUME NEW a \in Actors, Unlock(a)
      PROVE  Cancelled'
    BY <1>9 DEF Unlock, LetGo, Goto, groupVars, Life, TypeOK, Places_, Staged,
       Cancelled, Actors
<1>10. ASSUME NEW a \in Actors, NextDoomed(a)
      PROVE  Cancelled'
    BY <1>10 DEF NextDoomed, Goto, groupVars, Life, TypeOK, Places_, Staged,
       Cancelled, Actors
<1>11. ASSUME NEW a \in Actors, Shutdown(a)
      PROVE  Cancelled'
    BY <1>11 DEF Shutdown, Goto, groupVars, Life, TypeOK, Places_, Staged,
       Cancelled, Actors
<1>12. ASSUME NEW a \in Actors, ShutdownTimeout(a)
      PROVE  Cancelled'
    BY <1>12 DEF ShutdownTimeout, Goto, groupVars, Life, TypeOK, Places_,
       Staged, Cancelled, Actors
<1>13. ASSUME NEW a \in Actors, ReleaseSession(a)
      PROVE  Cancelled'
    BY <1>13 DEF ReleaseSession, Goto, tableVars, Life, TypeOK, Places_,
       Staged, Cancelled, Actors
<1>14. ASSUME NEW a \in Actors, DeleteIfOrphaned(a)
      PROVE  Cancelled'
    BY <1>14, OrphanEffect DEF Life, TypeOK, Places_, Staged, Cancelled,
       Actors
<1>15. ASSUME NEW S \in SUBSET Sids, SessionCleaner(S)
      PROVE  Cancelled'
    BY <1>15 DEF SessionCleaner, TakeOut, Live, Goto, groupVars, Life, TypeOK,
       Places_, Staged, Cancelled, Actors
<1>16. ASSUME ServerStop
      PROVE  Cancelled'
    BY <1>16 DEF ServerStop, tableVars, groupVars, threadVars, Life, TypeOK,
       Places_, Staged, Cancelled, Actors
<1>17. ASSUME RemoveAllSessions
      PROVE  Cancelled'
    BY <1>17 DEF RemoveAllSessions, TakeOut, Live, Goto, groupVars, Life,
       TypeOK, Places_, Staged, Cancelled, Actors
<1>18. CASE UNCHANGED vars
    BY <1>18 DEF vars, Life, TypeOK, Places_, Staged, Cancelled, Actors
<1>. QED BY <1>1, <1>2, <1>3, <1>4, <1>5, <1>6, <1>7, <1>8, <1>9, <1>10,
       <1>11, <1>12, <1>13, <1>14, <1>15, <1>16, <1>17, <1>18 DEF Next,
       DeleteStep

\* The reference counts: the four actions that lock or unlock a session, and
\* a look at the rest.
LEMMA CountStep == Life /\ [Next]_vars => RefCounted'
<1> SUFFICES ASSUME Life, [Next]_vars
             PROVE  RefCounted'
    OBVIOUS
<1>0. TypeOK /\ RefCounted
    BY DEF Life
<1>1. CASE UNCHANGED <<refs, held>>
    BY <1>0, <1>1 DEF RefCounted, Users
<1>2. ASSUME NEW w \in Workers, RegisterSession(w)
      PROVE  RefCounted'
    <2>1. w \in Actors /\ cur[w] \in Sids /\ held[w] = None /\ sess[cur[w]] = "new"
        BY <1>2 DEF RegisterSession, Life, Places_, Staged, Actors
    <2>2. PICK s \in Sids : s = cur[w]
        BY <2>1
    <2>3. Users(s) = {}
        BY <2>1, <2>2 DEF Life, HeldOnce, Users
    <2>4. Cardinality(Users(s)) = 0
        BY <2>3, FS_EmptySet
    <2>5. refs' = [refs EXCEPT ![s] = 1] /\ held' = [held EXCEPT ![w] = s]
        BY <1>2, <2>2 DEF RegisterSession
    <2>6. /\ Cardinality(Users(s))' = Cardinality(Users(s)) + 1
          /\ \A t \in Sids \ {s} : Users(t)' = Users(t)
        BY <1>0, <2>1, <2>5, UsersAdd
    <2>. QED BY <1>0, <2>4, <2>5, <2>6 DEF RefCounted, TypeOK
<1>3. ASSUME NEW a \in Actors, NEW s \in Sids, ValidateSession(a, s)
      PROVE  RefCounted'
    <2>1. held[a] = None
        BY <1>3 DEF ValidateSession, Ready, Life, Places_
    <2>2. /\ Cardinality(Users(s))' = Cardinality(Users(s)) + 1
          /\ \A t \in Sids \ {s} : Users(t)' = Users(t)
        BY <1>0, <1>3, <2>1, UsersAdd DEF ValidateSession
    <2>3. refs' = [refs EXCEPT ![s] = @ + 1]
        BY <1>3 DEF ValidateSession
    <2>. QED BY <1>0, <2>2, <2>3 DEF RefCounted, TypeOK
<1>4. ASSUME NEW a \in Actors, pc[a] = "busy", LetGo(a)
      PROVE  RefCounted'
    <2>1. PICK s \in Sids : held[a] = s
        BY <1>4 DEF Life, Places_
    <2>2. refs' = [refs EXCEPT ![s] = @ - 1] /\ held' = [held EXCEPT ![a] = None]
        BY <1>4, <2>1 DEF LetGo
    <2>3. /\ Cardinality(Users(s))' = Cardinality(Users(s)) - 1
          /\ \A t \in Sids \ {s} : Users(t)' = Users(t)
        BY <1>0, <2>1, <2>2, UsersDrop
    <2>. QED BY <1>0, <2>2, <2>3 DEF RefCounted, TypeOK
<1>5. ASSUME NEW w \in Workers, LogoffUnlock(w)
      PROVE  RefCounted'
    BY <1>4, <1>5 DEF LogoffUnlock, Actors
<1>6. ASSUME NEW a \in Actors, Unlock(a)
      PROVE  RefCounted'
    BY <1>4, <1>6 DEF Unlock
<1>7. UNCHANGED vars => UNCHANGED <<refs, held>>
    BY DEF vars
<1>8. ASSUME NEW w \in Workers,
             \/ \E s \in Sids, i \in Gids \cup {OwnGroup} : Logon(w, s, i)
             \/ UpgradeGroup(w) \/ CreateFails(w) \/ RemoveSession(w)
             \/ CancelAllSessions(w)
      PROVE  UNCHANGED <<refs, held>>
    BY <1>8 DEF Logon, UpgradeGroup, CreateFails, RemoveSession,
       CancelAllSessions, tableVars
<1>9. ASSUME NEW a \in Actors, DeleteStep(a)
      PROVE  UNCHANGED <<refs, held>>
    BY <1>9 DEF DeleteStep, NextDoomed, Shutdown, ShutdownTimeout,
       ReleaseSession, DeleteIfOrphaned, tableVars
<1>10. (\E S \in SUBSET Sids : SessionCleaner(S)) \/ ServerStop \/ RemoveAllSessions
          => UNCHANGED <<refs, held>>
    BY DEF SessionCleaner, ServerStop, RemoveAllSessions, tableVars, threadVars
<1>. QED BY <1>1, <1>2, <1>3, <1>5, <1>6, <1>7, <1>8, <1>9, <1>10 DEF Next

\* No session dies in the hands of a thread.
LEMMA SafeStep == Life /\ [Next]_vars => SafeDelete'
<1> SUFFICES ASSUME Life, [Next]_vars
             PROVE  SafeDelete'
    OBVIOUS
<1>1. ASSUME NEW w \in Workers, NEW s \in Sids, NEW i \in Gids \cup
       {OwnGroup}, Logon(w, s, i)
      PROVE  SafeDelete'
    BY <1>1, IdAssumption DEF Logon, Ready, Goto, Attach, NewGroup, Life,
       TypeOK, Places_, Staged, SafeDelete, Users, HeldOnce, Cancelled, Actors
<1>2. ASSUME NEW w \in Workers, UpgradeGroup(w)
      PROVE  SafeDelete'
    BY <1>2, IdAssumption DEF UpgradeGroup, Goto, Attach, NewGroup, tableVars,
       Life, TypeOK, Places_, Staged, SafeDelete, Users, HeldOnce, Cancelled,
       Actors
<1>3. ASSUME NEW w \in Workers, RegisterSession(w)
      PROVE  SafeDelete'
    BY <1>3, IdAssumption DEF RegisterSession, Goto, groupVars, Life, TypeOK,
       Places_, Staged, SafeDelete, Users, HeldOnce, Cancelled, Actors
<1>4. ASSUME NEW w \in Workers, CreateFails(w)
      PROVE  SafeDelete'
    BY <1>4, IdAssumption DEF CreateFails, Goto, groupVars, Life, TypeOK,
       Places_, Staged, SafeDelete, Users, HeldOnce, Cancelled, Actors
<1>5. ASSUME NEW w \in Workers, LogoffUnlock(w)
      PROVE  SafeDelete'
    BY <1>5, IdAssumption DEF LogoffUnlock, LetGo, Goto, groupVars, Life,
       TypeOK, Places_, Staged, SafeDelete, Users, HeldOnce, Cancelled, Actors
<1>6. ASSUME NEW w \in Workers, RemoveSession(w)
      PROVE  SafeDelete'
    BY <1>6, IdAssumption DEF RemoveSession, TakeOut, Live, Goto, groupVars,
       Life, TypeOK, Places_, Staged, SafeDelete, Users, HeldOnce, Cancelled,
       Actors
<1>7. ASSUME NEW w \in Workers, CancelAllSessions(w)
      PROVE  SafeDelete'
    BY <1>7, IdAssumption DEF CancelAllSessions, TakeOut, Live, Goto,
       groupVars, Life, TypeOK, Places_, Staged, SafeDelete, Users, HeldOnce,
       Cancelled, Actors
<1>8. ASSUME NEW a \in Actors, NEW s \in Sids, ValidateSession(a, s)
      PROVE  SafeDelete'
    BY <1>8, IdAssumption DEF ValidateSession, Ready, Goto, groupVars, Life,
       TypeOK, Places_, Staged, SafeDelete, Users, HeldOnce, Cancelled, Actors
<1>9. ASSUME NEW a \in Actors, Unlock(a)
      PROVE  SafeDelete'
    BY <1>9, IdAssumption DEF Unlock, LetGo, Goto, groupVars, Life, TypeOK,
       Places_, Staged, SafeDelete, Users, HeldOnce, Cancelled, Actors
<1>10. ASSUME NEW a \in Actors, NextDoomed(a)
      PROVE  SafeDelete'
    BY <1>10, IdAssumption DEF NextDoomed, Goto, groupVars, Life, TypeOK,
       Places_, Staged, SafeDelete, Users, HeldOnce, Cancelled, Actors
<1>11. ASSUME NEW a \in Actors, Shutdown(a)
      PROVE  SafeDelete'
    BY <1>11, IdAssumption, NoUsers DEF Shutdown, Goto, groupVars, Life,
       TypeOK, Places_, Staged, SafeDelete, Users, HeldOnce, Cancelled, Actors
<1>12. ASSUME NEW a \in Actors, ShutdownTimeout(a)
      PROVE  SafeDelete'
    BY <1>12, IdAssumption DEF ShutdownTimeout, Goto, groupVars, Life, TypeOK,
       Places_, Staged, SafeDelete, Users, HeldOnce, Cancelled, Actors
<1>13. ASSUME NEW a \in Actors, ReleaseSession(a)
      PROVE  SafeDelete'
    BY <1>13, IdAssumption DEF ReleaseSession, Goto, tableVars, Life, TypeOK,
       Places_, Staged, SafeDelete, Users, HeldOnce, Cancelled, Actors
<1>14. ASSUME NEW a \in Actors, DeleteIfOrphaned(a)
      PROVE  SafeDelete'
    BY <1>14, OrphanEffect, IdAssumption DEF Life, TypeOK, Places_, Staged,
       SafeDelete, Users, HeldOnce, Cancelled, Actors
<1>15. ASSUME NEW S \in SUBSET Sids, SessionCleaner(S)
      PROVE  SafeDelete'
    BY <1>15, IdAssumption DEF SessionCleaner, TakeOut, Live, Goto, groupVars,
       Life, TypeOK, Places_, Staged, SafeDelete, Users, HeldOnce, Cancelled,
       Actors
<1>16. ASSUME ServerStop
      PROVE  SafeDelete'
    BY <1>16, IdAssumption DEF ServerStop, tableVars, groupVars, threadVars,
       Life, TypeOK, Places_, Staged, SafeDelete, Users, HeldOnce, Cancelled,
       Actors
<1>17. ASSUME RemoveAllSessions
      PROVE  SafeDelete'
    BY <1>17, IdAssumption DEF RemoveAllSessions, TakeOut, Live, Goto,
       groupVars, Life, TypeOK, Places_, Staged, SafeDelete, Users, HeldOnce,
       Cancelled, Actors
<1>18. CASE UNCHANGED vars
    BY <1>18, IdAssumption DEF vars, Life, TypeOK, Places_, Staged,
       SafeDelete, Users, HeldOnce, Cancelled, Actors
<1>. QED BY <1>1, <1>2, <1>3, <1>4, <1>5, <1>6, <1>7, <1>8, <1>9, <1>10,
       <1>11, <1>12, <1>13, <1>14, <1>15, <1>16, <1>17, <1>18 DEF Next,
       DeleteStep

\* Every session on its way in or out is in one thread's hands.
LEMMA OneStep == Life /\ [Next]_vars => OneDeleter'
<1> SUFFICES ASSUME Life, [Next]_vars
             PROVE  OneDeleter'
    OBVIOUS
<1>1. ASSUME NEW w \in Workers, NEW s \in Sids, NEW i \in Gids \cup
       {OwnGroup}, Logon(w, s, i)
      PROVE  OneDeleter'
    <2>1. /\ sess[s] = "none" /\ w \in Actors /\ pc[w] = "idle" /\ doomed[w] = {}
          /\ sess' = [sess EXCEPT ![s] = "new"]
          /\ cur' = [cur EXCEPT ![w] = s] /\ doomed' = doomed
          /\ pc' = [pc EXCEPT ![w] = pc'[w]] /\ pc'[w] \in {"upgrade", "register"}
        BY <1>1 DEF Logon, Ready, Goto, Life, TypeOK, Places_, Actors
    <2>2. \A a \in Actors : InHand(a)' = IF a = w THEN {s} ELSE InHand(a)
        BY <2>1 DEF InHand, Life, TypeOK
    <2>3. \A a \in Actors : s \notin InHand(a)
        BY <2>1, InHandStage
    <2>4. InHand(w) = {}
        BY <2>1 DEF InHand
    <2>5. OneDeleter /\ sess \in [Sids -> Stages]
        BY DEF Life, TypeOK
    <2>6. \A a, b \in Actors : a # b => (InHand(a) \cap InHand(b) = {})'
        BY <2>2, <2>3, <2>5 DEF OneDeleter
    <2>7. \A t \in Sids : sess'[t] \in {"new", "removed", "dying"}
                              => \E a \in Actors : t \in InHand(a)'
        BY <2>1, <2>2, <2>4, <2>5 DEF OneDeleter
    <2>. QED BY <2>6, <2>7 DEF OneDeleter
<1>2. ASSUME NEW w \in Workers, UpgradeGroup(w)
      PROVE  OneDeleter'
    BY <1>2, ActorAssumption DEF UpgradeGroup, Goto, Attach, NewGroup,
       tableVars, Life, TypeOK, Places_, Staged, OneDeleter, InHand, Actors
<1>3. ASSUME NEW w \in Workers, RegisterSession(w)
      PROVE  OneDeleter'
    BY <1>3, ActorAssumption DEF RegisterSession, Goto, groupVars, Life,
       TypeOK, Places_, Staged, OneDeleter, InHand, Actors
<1>4. ASSUME NEW w \in Workers, CreateFails(w)
      PROVE  OneDeleter'
    BY <1>4, ActorAssumption DEF CreateFails, Goto, groupVars, Life, TypeOK,
       Places_, Staged, OneDeleter, InHand, Actors
<1>5. ASSUME NEW w \in Workers, LogoffUnlock(w)
      PROVE  OneDeleter'
    BY <1>5, ActorAssumption DEF LogoffUnlock, LetGo, Goto, groupVars, Life,
       TypeOK, Places_, Staged, OneDeleter, InHand, Actors
<1>6. ASSUME NEW w \in Workers, RemoveSession(w)
      PROVE  OneDeleter'
    BY <1>6, ActorAssumption DEF RemoveSession, TakeOut, Live, Goto,
       groupVars, Life, TypeOK, Places_, Staged, OneDeleter, InHand, Actors
<1>7. ASSUME NEW w \in Workers, CancelAllSessions(w)
      PROVE  OneDeleter'
    BY <1>7, ActorAssumption DEF CancelAllSessions, TakeOut, Live, Goto,
       groupVars, Life, TypeOK, Places_, Staged, OneDeleter, InHand, Actors
<1>8. ASSUME NEW a \in Actors, NEW s \in Sids, ValidateSession(a, s)
      PROVE  OneDeleter'
    BY <1>8, ActorAssumption DEF ValidateSession, Ready, Goto, groupVars,
       Life, TypeOK, Places_, Staged, OneDeleter, InHand, Actors
<1>9. ASSUME NEW a \in Actors, Unlock(a)
      PROVE  OneDeleter'
    BY <1>9, ActorAssumption DEF Unlock, LetGo, Goto, groupVars, Life, TypeOK,
       Places_, Staged, OneDeleter, InHand, Actors
<1>10. ASSUME NEW a \in Actors, NextDoomed(a)
      PROVE  OneDeleter'
    BY <1>10, ActorAssumption DEF NextDoomed, Goto, groupVars, Life, TypeOK,
       Places_, Staged, OneDeleter, InHand, Actors
<1>11. ASSUME NEW a \in Actors, Shutdown(a)
      PROVE  OneDeleter'
    BY <1>11, ActorAssumption DEF Shutdown, Goto, groupVars, Life, TypeOK,
       Places_, Staged, OneDeleter, InHand, Actors
<1>12. ASSUME NEW a \in Actors, ShutdownTimeout(a)
      PROVE  OneDeleter'
    BY <1>12, ActorAssumption DEF ShutdownTimeout, Goto, groupVars, Life,
       TypeOK, Places_, Staged, OneDeleter, InHand, Actors
<1>13. ASSUME NEW a \in Actors, ReleaseSession(a)
      PROVE  OneDeleter'
    BY <1>13, ActorAssumption DEF ReleaseSession, Goto, tableVars, Life,
       TypeOK, Places_, Staged, OneDeleter, InHand, Actors
<1>14. ASSUME NEW a \in Actors, DeleteIfOrphaned(a)
      PROVE  OneDeleter'
    BY <1>14, OrphanEffect, ActorAssumption DEF Life, TypeOK, Places_,
       Staged, OneDeleter, InHand, Actors
<1>15. ASSUME NEW S \in SUBSET Sids, SessionCleaner(S)
      PROVE  OneDeleter'
    BY <1>15, ActorAssumption DEF SessionCleaner, TakeOut, Live, Goto,
       groupVars, Life, TypeOK, Places_, Staged, OneDeleter, InHand, Actors
<1>16. ASSUME ServerStop
      PROVE  OneDeleter'
    BY <1>16, ActorAssumption DEF ServerStop, tableVars, groupVars,
       threadVars, Life, TypeOK, Places_, Staged, OneDeleter, InHand, Actors
<1>17. ASSUME RemoveAllSessions
      PROVE  OneDeleter'
    BY <1>17, ActorAssumption DEF RemoveAllSessions, TakeOut, Live, Goto,
       groupVars, Life, TypeOK, Places_, Staged, OneDeleter, InHand, Actors
<1>18. CASE UNCHANGED vars
    BY <1>18, ActorAssumption DEF vars, Life, TypeOK, Places_, Staged,
       OneDeleter, InHand, Actors
<1>. QED BY <1>1, <1>2, <1>3, <1>4, <1>5, <1>6, <1>7, <1>8, <1>9, <1>10,
       <1>11, <1>12, <1>13, <1>14, <1>15, <1>16, <1>17, <1>18 DEF Next,
       DeleteStep

-----------------------------------------------------------------------------
LEMMA LifeStep == Life /\ [Next]_vars => Life'
BY TypeStep, PlacesStep, StagedStep, HeldStep, CancelledStep, CountStep,
   SafeStep, OneStep DEF Life

THEOREM LifeInvariant == Spec => []Life
BY LifeInit, LifeStep, PTL DEF Spec

\* Type correctness of the session table, its groups and its threads.
THEOREM TypeCorrect == Spec => []TypeOK
BY LifeInvariant, PTL DEF Life

\* m_ulRefCount counts the threads that hold a session, always.
THEOREM CountsRight == Spec => []RefCounted
BY LifeInvariant, PTL DEF Life

\* No session that a logoff or the cleaner removed dies in a thread's hands.
THEOREM DeletionSafe == Spec => []SafeDelete
BY LifeInvariant, PTL DEF Life

\* Each session that is to be deleted has exactly one thread to delete it.
THEOREM DeletedOnce == Spec => []OneDeleter
BY LifeInvariant, PTL DEF Life

-----------------------------------------------------------------------------
(* Session groups.                                                         *)

\* A session that does not hang on a group yet.
Unattached(s) == sess[s] = "none" \/ \E a \in Actors : pc[a] = "upgrade" /\ cur[a] = s

\* A session hangs on a group of its own id; id 0 on a group of its own.
Attached == \A s \in Sids :
    IF Unattached(s) THEN group[s] = None /\ gstate[s] = "none" /\ members[s] = {}
    ELSE /\ group[s] \in Sids /\ gstate[group[s]] # "none"
         /\ gid[group[s]] = gid[s]
         /\ gid[s] = OwnGroup => group[s] = s

\* What the threads between two steps on a group know of it.
Passing == \A a \in Actors :
    /\ pc[a] = "upgrade" => gid[cur[a]] \in Gids
    /\ pc[a] = "orphan" => cur[a] \notin members[group[cur[a]]]

\* The group table holds groups that exist, under their id.
Mapped == \A i \in Gids : gmap[i] # None => /\ gstate[gmap[i]] = "alive"
                                            /\ gid[gmap[i]] = i

Grouping == Attached /\ Passing /\ Mapped /\ MembersAlive /\ NoOrphanLeft

LEMMA GroupingInit == Init => Grouping
BY IdAssumption DEF Init, Grouping, Attached, Unattached, Passing, Mapped,
   MembersAlive, NoOrphanLeft

\* A step that no group notices.
Quiet == /\ UNCHANGED groupVars
         /\ \A a \in Actors : /\ pc'[a] = "upgrade" <=> pc[a] = "upgrade"
                              /\ pc'[a] = "orphan" <=> pc[a] = "orphan"
                              /\ pc[a] \in {"upgrade", "orphan"} => cur'[a] = cur[a]
         /\ \A s \in Sids : /\ sess'[s] = "none" <=> sess[s] = "none"
                            /\ sess'[s] = "freed" <=> sess[s] = "freed"

LEMMA QuietStep == Life /\ Grouping /\ Quiet => Grouping'
<1> SUFFICES ASSUME Life, Grouping, Quiet
             PROVE  Grouping'
    OBVIOUS
<1>1. \A s \in Sids : Unattached(s)' <=> Unattached(s)
    BY DEF Quiet, Unattached
<1>2. Attached'
    BY <1>1 DEF Grouping, Quiet, Attached, groupVars
<1>3. Passing'
    BY DEF Grouping, Quiet, Passing, groupVars
<1>4. Mapped'
    BY DEF Grouping, Quiet, Mapped, groupVars
<1>5. MembersAlive'
    BY DEF Grouping, Quiet, MembersAlive, groupVars, Life, TypeOK
<1>6. NoOrphanLeft'
    BY DEF Grouping, Quiet, NoOrphanLeft, groupVars
<1>. QED BY <1>2, <1>3, <1>4, <1>5, <1>6 DEF Grouping

\* The steps that no group notices: all but four.
LEMMA QuietSteps ==
    ASSUME Life, [Next]_vars
    PROVE  \/ Quiet
           \/ \E w \in Workers : \/ \E s \in Sids, i \in Gids \cup {OwnGroup} : Logon(w, s, i)
                                 \/ UpgradeGroup(w)
           \/ \E a \in Actors : ReleaseSession(a) \/ DeleteIfOrphaned(a)
<1>1. ASSUME NEW w \in Workers, RegisterSession(w)
      PROVE  Quiet
    BY <1>1 DEF RegisterSession, Goto, groupVars, Quiet, Life, TypeOK,
       Places_, Staged, Actors
<1>2. ASSUME NEW w \in Workers, CreateFails(w)
      PROVE  Quiet
    BY <1>2 DEF CreateFails, Goto, groupVars, Quiet, Life, TypeOK, Places_,
       Staged, Actors
<1>3. ASSUME NEW w \in Workers, LogoffUnlock(w)
      PROVE  Quiet
    BY <1>3 DEF LogoffUnlock, LetGo, Goto, groupVars, Quiet, Life, TypeOK,
       Places_, Staged, Actors
<1>4. ASSUME NEW w \in Workers, RemoveSession(w)
      PROVE  Quiet
    BY <1>4 DEF RemoveSession, TakeOut, Live, Goto, groupVars, Quiet, Life,
       TypeOK, Places_, Staged, Actors
<1>5. ASSUME NEW w \in Workers, CancelAllSessions(w)
      PROVE  Quiet
    BY <1>5 DEF CancelAllSessions, TakeOut, Live, Goto, groupVars, Quiet,
       Life, TypeOK, Places_, Staged, Actors
<1>6. ASSUME NEW a \in Actors, NEW s \in Sids, ValidateSession(a, s)
      PROVE  Quiet
    BY <1>6 DEF ValidateSession, Ready, Goto, groupVars, Quiet, Life, TypeOK,
       Places_, Staged, Actors
<1>7. ASSUME NEW a \in Actors, Unlock(a)
      PROVE  Quiet
    BY <1>7 DEF Unlock, LetGo, Goto, groupVars, Quiet, Life, TypeOK, Places_,
       Staged, Actors
<1>8. ASSUME NEW a \in Actors, NextDoomed(a)
      PROVE  Quiet
    BY <1>8 DEF NextDoomed, Goto, groupVars, Quiet, Life, TypeOK, Places_,
       Staged, Actors
<1>9. ASSUME NEW a \in Actors, Shutdown(a)
      PROVE  Quiet
    BY <1>9 DEF Shutdown, Goto, groupVars, Quiet, Life, TypeOK, Places_,
       Staged, Actors
<1>10. ASSUME NEW a \in Actors, ShutdownTimeout(a)
      PROVE  Quiet
    BY <1>10 DEF ShutdownTimeout, Goto, groupVars, Quiet, Life, TypeOK,
       Places_, Staged, Actors
<1>11. ASSUME NEW S \in SUBSET Sids, SessionCleaner(S)
      PROVE  Quiet
    BY <1>11 DEF SessionCleaner, TakeOut, Live, Goto, groupVars, Quiet, Life,
       TypeOK, Places_, Staged, Actors
<1>12. ServerStop => Quiet
    BY DEF ServerStop, tableVars, groupVars, threadVars, Quiet, Life, TypeOK,
       Places_, Staged, Actors
<1>13. RemoveAllSessions => Quiet
    BY DEF RemoveAllSessions, TakeOut, Live, Goto, groupVars, Quiet, Life,
       TypeOK, Places_, Staged, Actors
<1>14. UNCHANGED vars => Quiet
    BY DEF vars, Quiet, groupVars
<1>. QED BY <1>1, <1>2, <1>3, <1>4, <1>5, <1>6, <1>7, <1>8, <1>9, <1>10,
       <1>11, <1>12, <1>13, <1>14 DEF Next, DeleteStep

\* A session that is on its way out hangs on its group.
LEMMA DyingAttached ==
    ASSUME Life, Grouping, NEW a \in Actors, pc[a] \in {"release", "orphan"}
    PROVE  ~Unattached(cur[a]) /\ cur[a] \in Sids /\ sess[cur[a]] = "dying"
BY DEF Life, Staged, Places_, Unattached

\* Logon: the session joins a group, makes its own, or has yet to.
LEMMA LogonStep ==
    ASSUME Life, Life', Grouping, NEW w \in Workers, NEW s \in Sids,
           NEW i \in Gids \cup {OwnGroup}, Logon(w, s, i)
    PROVE  Grouping'
<1>1. /\ w \in Actors /\ pc[w] = "idle" /\ sess[s] = "none"
      /\ sess' = [sess EXCEPT ![s] = "new"] /\ gid' = [gid EXCEPT ![s] = i]
      /\ cur' = [cur EXCEPT ![w] = s] /\ gmap' = gmap
      /\ pc' = [pc EXCEPT ![w] = pc'[w]]
    BY DEF Logon, Ready, Goto, Actors, Life, TypeOK
<1>2. /\ group[s] = None /\ gstate[s] = "none" /\ members[s] = {}
      /\ Unattached(s)
    BY <1>1 DEF Grouping, Attached, Unattached
<1>3. /\ \A t \in Sids : group[t] # s
      /\ \A g \in Sids : s \notin members[g]
      /\ \A j \in Gids : gmap[j] # s
      /\ \A a \in Actors : pc[a] \in {"orphan", "upgrade"} => cur[a] # s
    <2>1. \A t \in Sids : group[t] # s
        BY <1>2, IdAssumption DEF Grouping, Attached
    <2>2. \A g \in Sids : s \notin members[g]
        BY <1>2, IdAssumption DEF Grouping, MembersAlive
    <2>3. \A j \in Gids : gmap[j] # s
        BY <1>2, IdAssumption DEF Grouping, Mapped
    <2>4. \A a \in Actors : pc[a] \in {"orphan", "upgrade"} => cur[a] # s
        BY <1>1 DEF Life, Staged
    <2>. QED BY <2>1, <2>2, <2>3, <2>4
<1>4. \A t \in Sids \ {s} : Unattached(t)' <=> Unattached(t)
    BY <1>1 DEF Unattached, Life, TypeOK
<1>5. CASE i \in Gids /\ gmap[i] = None
    <2>1. UNCHANGED <<gstate, group, members>> /\ pc'[w] = "upgrade"
        BY <1>5, IdAssumption DEF Logon, Goto, Life, TypeOK, Ready, Actors
    <2>2. Unattached(s)'
        BY <1>1, <2>1 DEF Unattached, Life, TypeOK
    <2>3. Attached'
        BY <1>1, <1>2, <1>3, <1>4, <2>1, <2>2 DEF Grouping, Attached, Life, TypeOK
    <2>4. Passing'
        BY <1>1, <1>3, <1>5, <2>1 DEF Grouping, Passing, Life, TypeOK
    <2>5. Mapped'
        BY <1>1, <1>3, <2>1 DEF Grouping, Mapped, Life, TypeOK
    <2>6. MembersAlive'
        BY <1>1, <1>3, <2>1 DEF Grouping, MembersAlive, Life, TypeOK
    <2>7. NoOrphanLeft'
        BY <1>1, <2>1 DEF Grouping, NoOrphanLeft, Life, TypeOK
    <2>. QED BY <2>3, <2>4, <2>5, <2>6, <2>7 DEF Grouping
<1>6. ASSUME NEW g \in Sids, Attach(s, g), pc'[w] = "register",
             gstate'[g] = "alive",
             \A t \in Sids \ {g} : gstate'[t] = gstate[t],
             g = s \/ gstate[g] = "alive",
             gid'[g] = i, i = OwnGroup => g = s
      PROVE  Grouping'
    <2>1. group' = [group EXCEPT ![s] = g] /\ members' = [members EXCEPT ![g] = @ \cup {s}]
        BY <1>6 DEF Attach
    <2>2. ~Unattached(s)'
        BY <1>1, <1>3, <1>6 DEF Unattached, Life, TypeOK
    <2>3. Attached'
        <3> SUFFICES ASSUME NEW t \in Sids
                     PROVE  IF Unattached(t)'
                            THEN group'[t] = None /\ gstate'[t] = "none" /\ members'[t] = {}
                            ELSE /\ group'[t] \in Sids /\ gstate'[group'[t]] # "none"
                                 /\ gid'[group'[t]] = gid'[t]
                                 /\ gid'[t] = OwnGroup => group'[t] = t
            BY DEF Attached
        <3>1. CASE t = s
            BY <1>1, <1>6, <2>1, <2>2, <3>1 DEF Life, TypeOK
        <3>2. CASE t # s /\ Unattached(t)
            <4>1. t # g
                BY <3>2, <1>6 DEF Grouping, Attached
            <4>. QED BY <1>4, <1>6, <2>1, <3>2, <4>1 DEF Grouping, Attached, Life, TypeOK
        <3>3. CASE t # s /\ ~Unattached(t)
            BY <1>1, <1>3, <1>4, <1>6, <2>1, <3>3 DEF Grouping, Attached, Life, TypeOK
        <3>. QED BY <3>1, <3>2, <3>3
    <2>4. Passing'
        BY <1>1, <1>3, <1>6, <2>1 DEF Grouping, Passing, Life, TypeOK, Places_
    <2>5. Mapped'
        BY <1>1, <1>3, <1>6 DEF Grouping, Mapped, Life, TypeOK
    <2>6. MembersAlive'
        BY <1>1, <1>3, <1>6, <2>1 DEF Grouping, MembersAlive, Life, TypeOK
    <2>7. NoOrphanLeft'
        <3> SUFFICES ASSUME NEW j \in Gids, gmap'[j] # None, members'[gmap'[j]] = {}
                     PROVE  \E b \in Actors : /\ pc'[b] = "orphan"
                                              /\ group'[cur'[b]] = gmap'[j]
            BY DEF NoOrphanLeft
        <3>1. gmap'[j] = gmap[j] /\ gmap[j] \in Sids /\ members[gmap[j]] = {}
            BY <1>1, <2>1 DEF Life, TypeOK
        <3>2. PICK b \in Actors : pc[b] = "orphan" /\ group[cur[b]] = gmap[j]
            BY <3>1, <1>1 DEF Grouping, NoOrphanLeft
        <3>3. cur[b] # s /\ cur[b] \in Sids /\ b # w
            BY <1>1, <1>3, <3>2 DEF Life, Places_
        <3>4. pc'[b] = "orphan" /\ cur'[b] = cur[b] /\ group'[cur[b]] = group[cur[b]]
            BY <1>1, <2>1, <3>2, <3>3 DEF Life, TypeOK
        <3>. QED BY <3>1, <3>2, <3>4
    <2>. QED BY <2>3, <2>4, <2>5, <2>6, <2>7 DEF Grouping
<1>7. CASE i = OwnGroup
    BY <1>1, <1>6, <1>7, IdAssumption DEF Logon, NewGroup, Goto, Life, TypeOK
<1>8. CASE i \in Gids /\ gmap[i] # None
    <2>1. gmap[i] \in Sids /\ gstate[gmap[i]] = "alive" /\ gid[gmap[i]] = i
        BY <1>8 DEF Grouping, Mapped, Life, TypeOK
    <2>2. Attach(s, gmap[i]) /\ Goto(w, "register") /\ UNCHANGED gstate
        BY <1>8, IdAssumption DEF Logon
    <2>. QED BY <1>1, <1>3, <1>6, <1>8, <2>1, <2>2, IdAssumption DEF Goto, Life, TypeOK
<1>. QED BY <1>5, <1>7, <1>8

\* UpgradeGroup: the new group has one member; an entry of the table stays.
LEMMA UpgradeStep ==
    ASSUME Life, Life', Grouping, NEW w \in Workers, UpgradeGroup(w)
    PROVE  Grouping'
<1>1. PICK s \in Sids : s = cur[w]
    BY DEF UpgradeGroup, Life, Places_, Actors
<1>2. PICK i \in Gids : i = gid[s]
    BY <1>1 DEF UpgradeGroup, Grouping, Passing, Actors
<1>3. /\ w \in Actors /\ pc[w] = "upgrade" /\ pc' = [pc EXCEPT ![w] = "register"]
      /\ sess' = sess /\ cur' = cur /\ gid' = gid
      /\ gstate' = [gstate EXCEPT ![s] = "alive"]
      /\ group' = [group EXCEPT ![s] = s]
      /\ members' = [members EXCEPT ![s] = @ \cup {s}]
      /\ gmap' = IF gmap[i] = None THEN [gmap EXCEPT ![i] = s] ELSE gmap
    BY <1>1, <1>2 DEF UpgradeGroup, Goto, Attach, NewGroup, tableVars, Actors
<1>4. /\ group[s] = None /\ gstate[s] = "none" /\ members[s] = {}
      /\ Unattached(s) /\ sess[s] = "new"
    BY <1>1, <1>3 DEF Grouping, Attached, Unattached, Life, Staged
<1>5. /\ \A t \in Sids : group[t] # s
      /\ \A g \in Sids : s \notin members[g]
      /\ \A j \in Gids : gmap[j] # s
      /\ \A a \in Actors \ {w} : pc[a] \in {"orphan", "upgrade"} => cur[a] # s
    <2>1. \A t \in Sids : group[t] # s
        BY <1>4, IdAssumption DEF Grouping, Attached
    <2>2. \A g \in Sids : s \notin members[g]
        BY <1>4, IdAssumption DEF Grouping, MembersAlive
    <2>3. \A j \in Gids : gmap[j] # s
        BY <1>4, IdAssumption DEF Grouping, Mapped
    <2>4. \A a \in Actors \ {w} : pc[a] \in {"orphan", "upgrade"} => cur[a] # s
        BY <1>1, <1>3 DEF Life, OneDeleter, InHand
    <2>. QED BY <2>1, <2>2, <2>3, <2>4
<1>6. \A t \in Sids \ {s} : Unattached(t)' <=> Unattached(t)
    BY <1>1, <1>3 DEF Unattached, Life, TypeOK
<1>7. ~Unattached(s)'
    BY <1>3, <1>4, <1>5 DEF Unattached, Life, TypeOK
<1>8. Attached'
    <2> SUFFICES ASSUME NEW t \in Sids
                 PROVE  IF Unattached(t)'
                        THEN group'[t] = None /\ gstate'[t] = "none" /\ members'[t] = {}
                        ELSE /\ group'[t] \in Sids /\ gstate'[group'[t]] # "none"
                             /\ gid'[group'[t]] = gid'[t]
                             /\ gid'[t] = OwnGroup => group'[t] = t
        BY DEF Attached
    <2>1. CASE t = s
        BY <1>3, <1>7, <2>1 DEF Life, TypeOK
    <2>2. CASE t # s
        BY <1>3, <1>5, <1>6, <2>2 DEF Grouping, Attached, Life, TypeOK
    <2>. QED BY <2>1, <2>2
<1>9. Passing'
    BY <1>3, <1>5 DEF Grouping, Passing, Life, TypeOK, Places_
<1>10. Mapped'
    BY <1>2, <1>3, <1>5, IdAssumption DEF Grouping, Mapped, Life, TypeOK
<1>11. MembersAlive'
    BY <1>3, <1>4, <1>5 DEF Grouping, MembersAlive, Life, TypeOK
<1>12. NoOrphanLeft'
    BY <1>3, <1>5 DEF Grouping, NoOrphanLeft, Life, TypeOK, Places_
<1>. QED BY <1>8, <1>9, <1>10, <1>11, <1>12 DEF Grouping

\* ReleaseSession: the session leaves its group, which its thread will look at.
LEMMA ReleaseStep ==
    ASSUME Life, Life', Grouping, NEW a \in Actors, ReleaseSession(a)
    PROVE  Grouping'
<1>1. PICK s \in Sids : s = cur[a]
    BY DEF ReleaseSession, Life, Places_
<1>2. /\ pc[a] = "release" /\ pc' = [pc EXCEPT ![a] = "orphan"]
      /\ members' = [members EXCEPT ![group[s]] = @ \ {s}]
      /\ sess' = sess /\ cur' = cur
      /\ UNCHANGED <<gid, group, gmap, gstate>>
    BY <1>1 DEF ReleaseSession, Goto, tableVars
<1>3. ~Unattached(s) /\ group[s] \in Sids
    BY <1>1, <1>2, DyingAttached DEF Grouping, Attached
<1>4. \A t \in Sids : Unattached(t)' <=> Unattached(t)
    BY <1>2 DEF Unattached, Life, TypeOK
<1>5. Attached'
    BY <1>2, <1>3, <1>4 DEF Grouping, Attached, Life, TypeOK
<1>6. Passing'
    BY <1>1, <1>2, <1>3 DEF Grouping, Passing, Life, TypeOK, Places_
<1>7. Mapped'
    BY <1>2 DEF Grouping, Mapped
<1>8. MembersAlive'
    BY <1>2, <1>3 DEF Grouping, MembersAlive, Life, TypeOK
<1>9. NoOrphanLeft'
    <2> SUFFICES ASSUME NEW i \in Gids, gmap[i] # None, members'[gmap[i]] = {}
                 PROVE  \E b \in Actors : pc'[b] = "orphan" /\ group[cur[b]] = gmap[i]
        BY <1>2 DEF NoOrphanLeft
    <2>1. CASE gmap[i] = group[s]
        BY <1>1, <1>2, <2>1 DEF Life, TypeOK
    <2>2. CASE gmap[i] # group[s]
        BY <1>2, <1>3, <2>2 DEF Grouping, NoOrphanLeft, Life, TypeOK
    <2>. QED BY <2>1, <2>2
<1>. QED BY <1>5, <1>6, <1>7, <1>8, <1>9 DEF Grouping

\* DeleteIfOrphaned: only a group without members goes.
LEMMA OrphanStep ==
    ASSUME Life, Life', Grouping, NEW a \in Actors, DeleteIfOrphaned(a)
    PROVE  Grouping'
<1>1. PICK s \in Sids : s = cur[a]
    BY DEF DeleteIfOrphaned, Life, Places_
<1>2. /\ pc[a] = "orphan" /\ pc' = [pc EXCEPT ![a] = "next"]
      /\ cur' = [cur EXCEPT ![a] = None]
      /\ sess' = [sess EXCEPT ![s] = "freed"]
      /\ UNCHANGED <<gid, group, members>>
      /\ \/ DeleteGroup(group[s], gid[s])
         \/ gstate[group[s]] = "freed" /\ UNCHANGED <<gstate, gmap>>
    BY <1>1 DEF DeleteIfOrphaned, Goto
<1>3. /\ ~Unattached(s) /\ group[s] \in Sids /\ sess[s] = "dying"
      /\ gid[group[s]] = gid[s] /\ gstate[group[s]] # "none"
      /\ gid[s] = OwnGroup => group[s] = s
    BY <1>1, <1>2, DyingAttached DEF Grouping, Attached
<1>4. s \notin members[group[s]] /\ \A g \in Sids : s \notin members[g]
    BY <1>1, <1>2 DEF Grouping, Passing, MembersAlive
<1>5. \A t \in Sids : Unattached(t)' <=> Unattached(t)
    BY <1>2, <1>3 DEF Unattached, Life, TypeOK
\* What goes (F) is empty, and is what the thread had to look at.
<1> DEFINE Goes(F) ==
        /\ gstate' = [g \in Sids |-> IF g \in F THEN "freed" ELSE gstate[g]]
        /\ \A g \in F : members[g] = {} /\ gstate[g] # "none"
        /\ \A j \in Gids : gmap'[j] = IF gmap[j] \in F THEN None ELSE gmap[j]
        /\ \A j \in Gids : gmap[j] = group[s] /\ members[group[s]] = {} => group[s] \in F
<1>6. PICK F \in SUBSET Sids : Goes(F)
    <2>1. \A j \in Gids : gmap[j] = group[s] => j = gid[s]
        BY <1>3, IdAssumption DEF Grouping, Mapped
    <2>2. CASE gid[s] = OwnGroup /\ DeleteGroup(group[s], gid[s])
        <3>1. gstate' = [gstate EXCEPT ![group[s]] = "freed"] /\ gmap' = gmap
            BY <2>2 DEF DeleteGroup
        <3>2. members[group[s]] = {}
            BY <1>3, <1>4, <2>2, IdAssumption DEF Grouping, MembersAlive,
               Attached, Life, TypeOK, Unattached
        <3>3. \A j \in Gids : gmap[j] # group[s]
            BY <2>1, <2>2, IdAssumption
        <3>4. Goes({group[s]})
            BY <1>3, <3>1, <3>2, <3>3 DEF Life, TypeOK
        <3>. QED BY <1>3, <3>4
    <2>3. CASE /\ gid[s] \in Gids /\ gmap[gid[s]] # None
               /\ members[gmap[gid[s]]] = {} /\ DeleteGroup(group[s], gid[s])
        <3>1. PICK g \in Sids : g = gmap[gid[s]]
            BY <2>3 DEF Life, TypeOK
        <3>2. /\ gstate' = [gstate EXCEPT ![g] = "freed"]
              /\ gmap' = [gmap EXCEPT ![gid[s]] = None]
            BY <2>3, <3>1, IdAssumption DEF DeleteGroup
        <3>3. gstate[g] = "alive"
            BY <2>3, <3>1 DEF Grouping, Mapped
        <3>4. \A j \in Gids : gmap[j] = g <=> j = gid[s]
            BY <2>3, <3>1 DEF Grouping, Mapped
        <3>5. gstate' = [h \in Sids |-> IF h \in {g} THEN "freed" ELSE gstate[h]]
            BY <3>2 DEF Life, TypeOK
        <3>6. members[g] = {} /\ gstate[g] # "none"
            BY <2>3, <3>1, <3>3
        <3>7. \A j \in Gids : gmap'[j] = IF gmap[j] \in {g} THEN None ELSE gmap[j]
            BY <3>2, <3>4 DEF Life, TypeOK
        <3>8. \A j \in Gids : gmap[j] = group[s] => group[s] \in {g}
            BY <2>1, <3>1
        <3>. QED BY <3>5, <3>6, <3>7, <3>8
    <2>4. CASE /\ UNCHANGED <<gstate, gmap>>
               /\ \A j \in Gids : gmap[j] = group[s] => members[group[s]] # {}
        <3>1. Goes({})
            BY <2>4 DEF Life, TypeOK
        <3>2. {} \in SUBSET Sids
            OBVIOUS
        <3>. QED BY <3>1, <3>2, Zenon
    <2>5. \A j \in Gids : gmap[j] = group[s] => gstate[group[s]] = "alive"
        BY <1>3, IdAssumption DEF Grouping, Mapped
    <2>6. gid[s] \in Gids \cup {OwnGroup}
        BY DEF Life, TypeOK
    <2>7. \/ gid[s] = OwnGroup /\ DeleteGroup(group[s], gid[s])
          \/ /\ gid[s] \in Gids /\ gmap[gid[s]] # None
             /\ members[gmap[gid[s]]] = {} /\ DeleteGroup(group[s], gid[s])
          \/ /\ UNCHANGED <<gstate, gmap>>
             /\ \A j \in Gids : gmap[j] = group[s] => members[group[s]] # {}
        BY <1>2, <1>3, <2>1, <2>5, <2>6, IdAssumption DEF DeleteGroup
    <2>. QED BY <2>2, <2>3, <2>4, <2>7
<1>7. Attached'
    BY <1>2, <1>5, <1>6 DEF Grouping, Attached, Life, TypeOK
<1>8. Passing'
    BY <1>2 DEF Grouping, Passing, Life, TypeOK
<1>9. Mapped'
    BY <1>2, <1>6, IdAssumption DEF Grouping, Mapped, Life, TypeOK
<1>10. MembersAlive'
    BY <1>2, <1>4, <1>6 DEF Grouping, MembersAlive, Life, TypeOK
<1>11. NoOrphanLeft'
    <2> SUFFICES ASSUME NEW j \in Gids, gmap'[j] # None, members'[gmap'[j]] = {}
                 PROVE  \E b \in Actors : pc'[b] = "orphan" /\ group'[cur'[b]] = gmap'[j]
        BY DEF NoOrphanLeft
    <2>1. gmap'[j] = gmap[j] /\ gmap[j] \notin F
        BY <1>6
    <2>2. gmap[j] # None /\ members[gmap[j]] = {}
        BY <1>2, <2>1
    <2>3. PICK b \in Actors : pc[b] = "orphan" /\ group[cur[b]] = gmap[j]
        BY <2>2 DEF Grouping, NoOrphanLeft
    <2>4. b # a
        BY <1>1, <1>6, <2>1, <2>2, <2>3
    <2>5. pc'[b] = pc[b] /\ cur'[b] = cur[b] /\ group' = group
        BY <1>2, <2>4 DEF Life, TypeOK
    <2>. QED BY <2>1, <2>3, <2>5
<1>. QED BY <1>7, <1>8, <1>9, <1>10, <1>11 DEF Grouping

LEMMA GroupingStep == Life /\ Grouping /\ [Next]_vars => Grouping'
<1> SUFFICES ASSUME Life, Grouping, [Next]_vars
             PROVE  Grouping'
    OBVIOUS
<1>1. Life'
    BY LifeStep
<1>. QED BY <1>1, QuietSteps, QuietStep, LogonStep, UpgradeStep, ReleaseStep,
         OrphanStep

THEOREM GroupingInvariant == Spec => [](Life /\ Grouping)
BY LifeInit, LifeStep, GroupingInit, GroupingStep, PTL DEF Spec

\* No session group is deleted while a session hangs on it.
THEOREM GroupsAlive == Spec => []MembersAlive
BY GroupingInvariant, PTL DEF Grouping

\* An empty group in the table is always about to be looked at.
THEOREM NoneLeftBehind == Spec => []NoOrphanLeft
BY GroupingInvariant, PTL DEF Grouping

-----------------------------------------------------------------------------
(* The contract.                                                           *)

\* A step that changes neither the stage nor the users of any session.
LEMMA Stutter ==
    ASSUME \A s \in Sids : StageOf(s)' = StageOf(s), held' = held
    PROVE  [Contract!Next]_(Contract!vars)
BY DEF Contract!vars, Users

\* Sessions of S leave the table, whether they are deleted at once or not.
LEMMA Closing ==
    ASSUME Life, NEW a \in Actors, NEW S \in SUBSET Live, TakeOut(a, S),
           cancelled' \in {cancelled, cancelled \cup S}, held' = held
    PROVE  [Contract!Next]_(Contract!vars)
<1>1. \A s \in Sids : StageOf(s)' = IF s \in S THEN "closed" ELSE StageOf(s)
    BY DEF TakeOut, StageOf, Life, TypeOK
<1>2. \A s \in S : StageOf(s) = "open"
    BY DEF Live, StageOf
<1>3. Contract!Close(S)
    BY <1>1, <1>2 DEF Contract!Close, Live, Users
<1>4. S \in SUBSET Sids
    BY DEF Live
<1>. QED BY <1>3, <1>4 DEF Contract!Next

\* A thread lets its session go.
LEMMA Leaving ==
    ASSUME Life, NEW a \in Actors, pc[a] = "busy", LetGo(a), UNCHANGED <<sess, cancelled>>
    PROVE  [Contract!Next]_(Contract!vars)
<1>1. PICK s \in Sids : held[a] = s
    BY DEF Life, Places_
<1>2. held' = [held EXCEPT ![a] = None] /\ held \in [Actors -> Sids \cup {None}]
    BY DEF LetGo, Life, TypeOK
<1>3. \A t \in Sids : Users(t)' = IF t = s THEN Users(t) \ {a} ELSE Users(t)
    BY <1>1, <1>2, IdAssumption DEF Users
<1>4. \A t \in Sids : StageOf(t)' = StageOf(t)
    BY DEF StageOf
<1>5. a \in Users(s)
    BY <1>1 DEF Users
<1>6. Contract!Leave(s, a)
    BY <1>3, <1>4, <1>5 DEF Contract!Leave
<1>. QED BY <1>6 DEF Contract!Next

LEMMA ContractInit == Init => Contract!Init
BY IdAssumption DEF Init, Contract!Init, StageOf, Users

LEMMA ContractStep == Life /\ Life' /\ [Next]_vars => [Contract!Next]_(Contract!vars)
<1> SUFFICES ASSUME Life, Life', [Next]_vars
             PROVE  [Contract!Next]_(Contract!vars)
    OBVIOUS
<1>1. ASSUME NEW w \in Workers, NEW s \in Sids, NEW i \in Gids \cup {OwnGroup},
             Logon(w, s, i)
      PROVE  [Contract!Next]_(Contract!vars)
    BY <1>1, Stutter DEF Logon, StageOf, Life, TypeOK
<1>2. ASSUME NEW w \in Workers, UpgradeGroup(w)
      PROVE  [Contract!Next]_(Contract!vars)
    BY <1>2, Stutter DEF UpgradeGroup, tableVars, StageOf
<1>3. ASSUME NEW w \in Workers, RegisterSession(w)
      PROVE  [Contract!Next]_(Contract!vars)
    <2>1. PICK s \in Sids : s = cur[w] /\ sess[s] = "new"
        BY <1>3 DEF RegisterSession, Life, Places_, Staged, Actors
    <2>2. /\ sess' = [sess EXCEPT ![s] = "live"] /\ cancelled' = cancelled
          /\ held' = [held EXCEPT ![w] = s] /\ held[w] = None /\ w \in Actors
        BY <1>3, <2>1 DEF RegisterSession, Life, Places_, Actors
    <2>3. \A t \in Sids : StageOf(t)' = IF t = s THEN "open" ELSE StageOf(t)
        BY <2>2 DEF StageOf, Life, TypeOK
    <2>4. Users(s) = {}
        BY <2>1 DEF Life, HeldOnce, Users
    <2>5. \A t \in Sids : Users(t)' = IF t = s THEN {w} ELSE Users(t)
        BY <2>2, <2>4, IdAssumption DEF Users, Life, TypeOK
    <2>6. StageOf(s) = "absent"
        BY <2>1 DEF StageOf
    <2>7. Contract!Open(s, w)
        BY <2>3, <2>5, <2>6 DEF Contract!Open
    <2>. QED BY <2>2, <2>7 DEF Contract!Next
<1>4. ASSUME NEW w \in Workers, CreateFails(w)
      PROVE  [Contract!Next]_(Contract!vars)
    <2>1. PICK s \in Sids : s = cur[w] /\ sess[s] = "new"
        BY <1>4 DEF CreateFails, Life, Places_, Staged, Actors
    <2>2. s \notin cancelled
        BY <2>1 DEF Life, Cancelled
    <2>3. \A t \in Sids : StageOf(t)' = IF t = s THEN "gone" ELSE StageOf(t)
        BY <1>4, <2>1, <2>2 DEF CreateFails, StageOf, Life, TypeOK
    <2>4. StageOf(s) = "absent"
        BY <2>1 DEF StageOf
    <2>5. Contract!Discard(s)
        BY <1>4, <2>3, <2>4 DEF Contract!Discard, CreateFails, Users
    <2>. QED BY <2>5 DEF Contract!Next
<1>5. ASSUME NEW w \in Workers, LogoffUnlock(w)
      PROVE  [Contract!Next]_(Contract!vars)
    BY <1>5, Leaving DEF LogoffUnlock, Actors
<1>6. ASSUME NEW a \in Actors, Unlock(a)
      PROVE  [Contract!Next]_(Contract!vars)
    BY <1>6, Leaving DEF Unlock
<1>7. ASSUME NEW a \in Actors, NEW s \in Sids, ValidateSession(a, s)
      PROVE  [Contract!Next]_(Contract!vars)
    <2>1. held[a] = None /\ held' = [held EXCEPT ![a] = s] /\ sess[s] = "live"
        BY <1>7 DEF ValidateSession, Ready, Life, Places_
    <2>2. \A t \in Sids : Users(t)' = IF t = s THEN Users(t) \cup {a} ELSE Users(t)
        BY <2>1, IdAssumption DEF Users, Life, TypeOK
    <2>3. \A t \in Sids : StageOf(t)' = StageOf(t)
        BY <1>7 DEF ValidateSession, StageOf
    <2>4. StageOf(s) = "open"
        BY <2>1 DEF StageOf
    <2>5. Contract!Join(s, a)
        BY <2>2, <2>3, <2>4 DEF Contract!Join
    <2>. QED BY <2>5 DEF Contract!Next
<1>8. ASSUME NEW w \in Workers, RemoveSession(w)
      PROVE  [Contract!Next]_(Contract!vars)
    BY <1>8, Closing DEF RemoveSession, Actors
<1>9. ASSUME NEW S \in SUBSET Sids, SessionCleaner(S)
      PROVE  [Contract!Next]_(Contract!vars)
    BY <1>9, Closing DEF SessionCleaner, Actors
<1>10. ASSUME NEW w \in Workers, CancelAllSessions(w)
       PROVE  [Contract!Next]_(Contract!vars)
    BY <1>10, Closing DEF CancelAllSessions, Actors
<1>11. ASSUME RemoveAllSessions
       PROVE  [Contract!Next]_(Contract!vars)
    BY <1>11, Closing DEF RemoveAllSessions, Actors
<1>12. ASSUME NEW a \in Actors, NextDoomed(a)
       PROVE  [Contract!Next]_(Contract!vars)
    <2>1. \A s \in Sids : StageOf(s)' = StageOf(s)
        BY <1>12 DEF NextDoomed, StageOf, Life, TypeOK, Staged
    <2>. QED BY <1>12, <2>1, Stutter DEF NextDoomed
<1>13. ASSUME NEW a \in Actors, Shutdown(a)
       PROVE  [Contract!Next]_(Contract!vars)
    <2>1. PICK s \in Sids : s = cur[a] /\ sess[s] = "removed" /\ s \notin cancelled
        BY <1>13 DEF Shutdown, Life, Places_, Staged
    <2>2. Users(s) = {}
        BY <1>13, <2>1, NoUsers DEF Shutdown
    <2>3. \A t \in Sids : StageOf(t)' = IF t = s THEN "gone" ELSE StageOf(t)
        BY <1>13, <2>1 DEF Shutdown, StageOf, Life, TypeOK
    <2>4. StageOf(s) = "closed"
        BY <2>1 DEF StageOf
    <2>5. Contract!Delete(s)
        BY <1>13, <2>2, <2>3, <2>4 DEF Contract!Delete, Shutdown, Users
    <2>. QED BY <2>5 DEF Contract!Next
<1>14. ASSUME NEW a \in Actors, ShutdownTimeout(a)
       PROVE  [Contract!Next]_(Contract!vars)
    BY <1>14, Stutter DEF ShutdownTimeout, StageOf, Life, TypeOK, Staged, Places_
<1>15. ASSUME NEW a \in Actors, ReleaseSession(a)
       PROVE  [Contract!Next]_(Contract!vars)
    BY <1>15, Stutter DEF ReleaseSession, tableVars, StageOf
<1>16. ASSUME NEW a \in Actors, DeleteIfOrphaned(a)
       PROVE  [Contract!Next]_(Contract!vars)
    BY <1>16, Stutter DEF DeleteIfOrphaned, StageOf, Life, TypeOK, Staged, Places_
<1>17. CASE ServerStop \/ UNCHANGED vars
    BY <1>17, Stutter DEF ServerStop, vars, tableVars, threadVars, StageOf
<1>. QED BY <1>1, <1>2, <1>3, <1>4, <1>5, <1>6, <1>7, <1>8, <1>9, <1>10, <1>11,
         <1>12, <1>13, <1>14, <1>15, <1>16, <1>17 DEF Next, DeleteStep

\* The sessions implement the contract: what ValidateSession's comment says
\* holds of every session but those deleted by kill_sessions and at the end.
THEOREM Implements == Spec => ContractHolds
BY LifeInit, LifeStep, LifeInvariant, ContractInit, ContractStep, PTL
   DEF Spec, ContractHolds, Contract!Spec
=============================================================================
