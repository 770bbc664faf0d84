------------------------------ MODULE Sessions ------------------------------
(***************************************************************************)
(* The life of client sessions and of the session groups they share:       *)
(* ECSessionManager, ECSession and ECSessionGroup.  A worker thread logs a *)
(* session on, validates (and so locks) it for each request, and logs it   *)
(* off; the notifier (ECNotificationManager::Work) locks sessions as well; *)
(* the cleaner removes sessions that timed out; a test command cancels all *)
(* the others; and the main thread removes them all when the server stops. *)
(*                                                                         *)
(* Each action is one stretch under m_hCacheRWLock, m_hGroupLock or a      *)
(* session's m_hThreadReleasedMutex; between two of them any thread may    *)
(* run.  A session group is named after the session that created it, so    *)
(* group[s] = r says that s hangs on the group object r brought into being.*)
(* OwnGroup stands for the group id 0 of old clients, whose sessions each  *)
(* have a group of their own outside the group table.                      *)
(*                                                                         *)
(* Time is abstracted: a session in the table may time out at any moment,  *)
(* also while a long request holds it.  Group ids are never 0 here.        *)
(***************************************************************************)
EXTENDS FiniteSets, Naturals

CONSTANTS Workers,     \* the worker threads
          Notifier,    \* the thread of the notification manager
          Cleaner,     \* the session cleaner thread
          Main,        \* the main thread
          Sids,        \* session ids; an id is never used twice
          Gids,        \* session group ids
          OwnGroup,    \* group id 0
          None,
          TestProtocol \* enable_test_protocol: kill_sessions is available

Actors == Workers \cup {Notifier, Cleaner, Main}

ASSUME ActorAssumption == /\ Notifier \notin Workers \cup {Cleaner, Main}
                          /\ Cleaner \notin Workers \cup {Main}
                          /\ Main \notin Workers
                          /\ IsFiniteSet(Workers)
ASSUME IdAssumption == OwnGroup \notin Gids /\ None \notin Sids
ASSUME TestAssumption == TestProtocol \in BOOLEAN

VARIABLES
  sess,      \* "none", "new", "live" (in m_mapSessions), "removed" (out of
             \* it), "dying" (in its destructor), "freed" or "leaked"
  refs,      \* m_ulRefCount
  cancelled, \* the sessions that are deleted without waiting for their users
  gid,       \* the group id a session was made with
  group,     \* m_lpSessionGroup
  gmap,      \* m_mapSessionGroups
  gstate,    \* of the group made by a session: "none", "alive" or "freed"
  members,   \* m_mapSessions of the group
  pc,        \* where each thread is
  cur,       \* the session it is making or deleting
  held,      \* the session its request has locked
  doomed,    \* the sessions it has taken out of the table and must delete
  stopping   \* the dispatcher has returned: the workers are gone

tableVars  == <<sess, refs, cancelled>>
groupVars  == <<gid, group, gmap, gstate, members>>
threadVars == <<pc, cur, held, doomed>>
vars == <<sess, refs, cancelled, gid, group, gmap, gstate, members, pc, cur,
          held, doomed, stopping>>

Init == /\ sess = [s \in Sids |-> "none"]
        /\ refs = [s \in Sids |-> 0]
        /\ cancelled = {}
        /\ gid = [s \in Sids |-> OwnGroup]
        /\ group = [s \in Sids |-> None]
        /\ gmap = [i \in Gids |-> None]
        /\ gstate = [s \in Sids |-> "none"]
        /\ members = [s \in Sids |-> {}]
        /\ pc = [a \in Actors |-> "idle"]
        /\ cur = [a \in Actors |-> None]
        /\ held = [a \in Actors |-> None]
        /\ doomed = [a \in Actors |-> {}]
        /\ stopping = FALSE

Live == {s \in Sids : sess[s] = "live"}

Goto(a, l) == pc' = [pc EXCEPT ![a] = l]
\* A thread that takes up its next piece of work.
Ready(a) == /\ pc[a] = "idle"
            /\ a = Notifier \/ (a \in Workers /\ ~stopping)

-----------------------------------------------------------------------------
(* Logon.                                                                  *)

\* lpSessionGroup->AddSession, with *lppSessionGroup = lpSessionGroup.
Attach(s, g) == /\ group' = [group EXCEPT ![s] = g]
                /\ members' = [members EXCEPT ![g] = @ \cup {s}]
NewGroup(s) == gstate' = [gstate EXCEPT ![s] = "alive"]

\* The ECSession is constructed and GetSessionGroup looks its group up under
\* the shared lock.  Id 0: a group of its own.  A group in the table: join it.
\* Otherwise the lock is given up, to be taken again for writing.
Logon(w, s, i) ==
    /\ Ready(w) /\ w \in Workers /\ sess[s] = "none"
    /\ sess' = [sess EXCEPT ![s] = "new"]
    /\ gid' = [gid EXCEPT ![s] = i]
    /\ cur' = [cur EXCEPT ![w] = s]
    /\ \/ i = OwnGroup /\ NewGroup(s) /\ Attach(s, s) /\ Goto(w, "register")
       \/ /\ i \in Gids /\ gmap[i] # None
          /\ Attach(s, gmap[i]) /\ Goto(w, "register") /\ UNCHANGED gstate
       \/ /\ i \in Gids /\ gmap[i] = None
          /\ Goto(w, "upgrade") /\ UNCHANGED <<gstate, group, members>>
    /\ UNCHANGED <<refs, cancelled, gmap, held, doomed, stopping>>

\* With the write lock: a new group, whatever the table holds by now; the
\* map's insert keeps an entry that is there.
UpgradeGroup(w) ==
    /\ pc[w] = "upgrade"
    /\ LET s == cur[w] IN
          /\ NewGroup(s) /\ Attach(s, s)
          /\ gmap' = IF gmap[gid[s]] = None THEN [gmap EXCEPT ![gid[s]] = s]
                                            ELSE gmap
    /\ Goto(w, "register")
    /\ UNCHANGED <<tableVars, gid, cur, held, doomed, stopping>>

\* Mutant: the session enters the table unlocked, and is unlocked later.
BadRegisterSession(w) ==
    /\ pc[w] = "register"
    /\ sess' = [sess EXCEPT ![cur[w]] = "live"]
    /\ held' = [held EXCEPT ![w] = cur[w]]
    /\ Goto(w, "busy") /\ cur' = [cur EXCEPT ![w] = None]
    /\ UNCHANGED <<refs, cancelled, groupVars, doomed, stopping>>

\* RegisterSession: lock the session, then enter it in the table.
RegisterSession(w) ==
    /\ pc[w] = "register"
    /\ sess' = [sess EXCEPT ![cur[w]] = "live"]
    /\ refs' = [refs EXCEPT ![cur[w]] = 1]
    /\ held' = [held EXCEPT ![w] = cur[w]]
    /\ Goto(w, "busy") /\ cur' = [cur EXCEPT ![w] = None]
    /\ UNCHANGED <<cancelled, groupVars, doomed, stopping>>

\* SetUserContext fails: CreateECSession deletes the session.
CreateFails(w) ==
    /\ pc[w] = "register"
    /\ sess' = [sess EXCEPT ![cur[w]] = "dying"]
    /\ Goto(w, "release")
    /\ UNCHANGED <<refs, cancelled, groupVars, cur, held, doomed, stopping>>

-----------------------------------------------------------------------------
(* Requests.                                                               *)

\* ValidateBTSession: the session is locked while the table is.  A session
\* that is not there, or is of another address, changes nothing.
ValidateSession(a, s) ==
    /\ Ready(a)
    /\ sess[s] = "live"
    /\ refs' = [refs EXCEPT ![s] = @ + 1]
    /\ Goto(a, "busy") /\ held' = [held EXCEPT ![a] = s]
    /\ UNCHANGED <<sess, cancelled, groupVars, cur, doomed, stopping>>

\* BTSession::Unlock.
LetGo(a) == /\ refs' = [refs EXCEPT ![held[a]] = @ - 1]
            /\ held' = [held EXCEPT ![a] = None]

\* The end of a request.
Unlock(a) ==
    /\ pc[a] = "busy"
    /\ LetGo(a) /\ Goto(a, "idle")
    /\ UNCHANGED <<sess, cancelled, groupVars, cur, doomed, stopping>>

\* ns__logoff: the session was validated, and is unlocked before ...
LogoffUnlock(w) ==
    /\ w \in Workers /\ pc[w] = "busy"
    /\ LetGo(w) /\ cur' = [cur EXCEPT ![w] = held[w]]
    /\ Goto(w, "remove")
    /\ UNCHANGED <<sess, cancelled, groupVars, doomed, stopping>>

-----------------------------------------------------------------------------
(* Taking sessions out of the table.                                       *)

\* The sessions in S leave the table; thread a has to delete them.
TakeOut(a, S) ==
    /\ sess' = [s \in Sids |-> IF s \in S THEN "removed" ELSE sess[s]]
    /\ doomed' = [doomed EXCEPT ![a] = S]
    /\ Goto(a, "next") /\ cur' = [cur EXCEPT ![a] = None]

\* Mutant: what the logoff validated is deleted without looking it up again.
BadRemoveSession(w) ==
    /\ pc[w] = "remove"
    /\ TakeOut(w, {cur[w]})
    /\ UNCHANGED <<refs, cancelled, groupVars, held, stopping>>

\* ... RemoveSession looks it up again by its id: another logoff, or the
\* cleaner, may have been first.
RemoveSession(w) ==
    /\ pc[w] = "remove"
    /\ TakeOut(w, {cur[w]} \cap Live)
    /\ UNCHANGED <<refs, cancelled, groupVars, held, stopping>>

\* SessionCleaner: the sessions in S have timed out.
SessionCleaner(S) ==
    /\ pc[Cleaner] = "idle" /\ S \subseteq Live /\ S # {}
    /\ TakeOut(Cleaner, S)
    /\ UNCHANGED <<refs, cancelled, groupVars, held, stopping>>

\* kill_sessions: every session but the caller's, which stays locked, is
\* taken out, to be deleted at once.
CancelAllSessions(w) ==
    /\ TestProtocol /\ w \in Workers /\ pc[w] = "busy"
    /\ LET S == Live \ {held[w]} IN TakeOut(w, S) /\ cancelled' = cancelled \cup S
    /\ UNCHANGED <<refs, groupVars, held, stopping>>

\* The main loop returns once every worker has been joined ...
ServerStop ==
    /\ ~stopping /\ \A w \in Workers : pc[w] = "idle"
    /\ stopping' = TRUE
    /\ UNCHANGED <<tableVars, groupVars, threadVars>>

\* ... and kopano_removeallsessions deletes what is left, while the notifier
\* and the cleaner still run.
RemoveAllSessions ==
    /\ stopping /\ pc[Main] = "idle" /\ Live # {}
    /\ TakeOut(Main, Live) /\ cancelled' = cancelled \cup Live
    /\ UNCHANGED <<refs, groupVars, held, stopping>>

-----------------------------------------------------------------------------
(* Deleting them.                                                          *)

\* The next one of the list: Shutdown(5 minutes) first, or the destructor.
\* When the list is done, kill_sessions goes back to its request.
NextDoomed(a) ==
    /\ pc[a] = "next"
    /\ \/ /\ doomed[a] = {}
          /\ Goto(a, IF held[a] = None THEN "idle" ELSE "busy")
          /\ UNCHANGED <<doomed, sess, cur>>
       \/ \E s \in doomed[a] :
             /\ doomed' = [doomed EXCEPT ![a] = @ \ {s}]
             /\ cur' = [cur EXCEPT ![a] = s]
             /\ IF s \in cancelled
                THEN Goto(a, "release") /\ sess' = [sess EXCEPT ![s] = "dying"]
                ELSE Goto(a, "shutdown") /\ UNCHANGED sess
    /\ UNCHANGED <<refs, cancelled, groupVars, held, stopping>>

\* Mutant: the session is deleted without a look at its users.
BadShutdown(a) ==
    /\ pc[a] = "shutdown"
    /\ sess' = [sess EXCEPT ![cur[a]] = "dying"]
    /\ Goto(a, "release")
    /\ UNCHANGED <<refs, cancelled, groupVars, cur, held, doomed, stopping>>

\* ECSession::Shutdown finds no more users.
Shutdown(a) ==
    /\ pc[a] = "shutdown" /\ refs[cur[a]] = 0
    /\ sess' = [sess EXCEPT ![cur[a]] = "dying"]
    /\ Goto(a, "release")
    /\ UNCHANGED <<refs, cancelled, groupVars, cur, held, doomed, stopping>>

\* Mutant: the wait for the users has no limit.
BadShutdownTimeout(a) == FALSE /\ pc[a] = "shutdown" /\ UNCHANGED vars

\* Five minutes have passed with a user on it: the session is leaked.
ShutdownTimeout(a) ==
    /\ pc[a] = "shutdown" /\ refs[cur[a]] > 0
    /\ sess' = [sess EXCEPT ![cur[a]] = "leaked"]
    /\ Goto(a, "next") /\ cur' = [cur EXCEPT ![a] = None]
    /\ UNCHANGED <<refs, cancelled, groupVars, held, doomed, stopping>>

\* ~ECSession: Shutdown(0) does not wait; ReleaseSession leaves the group.
ReleaseSession(a) ==
    /\ pc[a] = "release"
    /\ members' = [members EXCEPT ![group[cur[a]]] = @ \ {cur[a]}]
    /\ Goto(a, "orphan")
    /\ UNCHANGED <<tableVars, gid, group, gmap, gstate, cur, held, doomed, stopping>>

\* Mutant: the group goes with any session that leaves it.
BadDeleteGroup(g, i) ==
    IF i = OwnGroup THEN gstate' = [gstate EXCEPT ![g] = "freed"] /\ UNCHANGED gmap
    ELSE IF gmap[i] # None
    THEN /\ gstate' = [gstate EXCEPT ![gmap[i]] = "freed"]
         /\ gmap' = [gmap EXCEPT ![i] = None]
    ELSE UNCHANGED <<gstate, gmap>>

\* DeleteIfOrphaned for a group g whose id reads as i.  The group that goes
\* is the one in the table, which need not be g.
DeleteGroup(g, i) ==
    IF i = OwnGroup THEN gstate' = [gstate EXCEPT ![g] = "freed"] /\ UNCHANGED gmap
    ELSE IF gmap[i] # None /\ members[gmap[i]] = {}
    THEN /\ gstate' = [gstate EXCEPT ![gmap[i]] = "freed"]
         /\ gmap' = [gmap EXCEPT ![i] = None]
    ELSE UNCHANGED <<gstate, gmap>>

\* Mutant: the group is not looked at again when a session has left it.
BadDeleteIfOrphaned(a) ==
    /\ pc[a] = "orphan"
    /\ sess' = [sess EXCEPT ![cur[a]] = "freed"]
    /\ Goto(a, "next") /\ cur' = [cur EXCEPT ![a] = None]
    /\ UNCHANGED <<refs, cancelled, groupVars, held, doomed, stopping>>

\* The id is read from the group before any lock is taken: a group that is
\* gone by then yields its old id or one that is not in the table.  With it
\* goes the rest of the session.
DeleteIfOrphaned(a) ==
    /\ pc[a] = "orphan"
    /\ LET s == cur[a] IN
          /\ \/ DeleteGroup(group[s], gid[s])
             \/ gstate[group[s]] = "freed" /\ UNCHANGED <<gstate, gmap>>
          /\ sess' = [sess EXCEPT ![s] = "freed"]
    /\ Goto(a, "next") /\ cur' = [cur EXCEPT ![a] = None]
    /\ UNCHANGED <<refs, cancelled, gid, group, members, held, doomed, stopping>>

-----------------------------------------------------------------------------
DeleteStep(a) == \/ NextDoomed(a) \/ Shutdown(a) \/ ShutdownTimeout(a)
                 \/ ReleaseSession(a) \/ DeleteIfOrphaned(a)

Next == \/ \E w \in Workers :
              \/ \E s \in Sids, i \in Gids \cup {OwnGroup} : Logon(w, s, i)
              \/ UpgradeGroup(w) \/ RegisterSession(w) \/ CreateFails(w)
              \/ LogoffUnlock(w) \/ RemoveSession(w) \/ CancelAllSessions(w)
        \/ \E a \in Actors : \/ \E s \in Sids : ValidateSession(a, s)
                             \/ Unlock(a) \/ DeleteStep(a)
        \/ \E S \in SUBSET Sids : SessionCleaner(S)
        \/ ServerStop \/ RemoveAllSessions

Spec == Init /\ [][Next]_vars

\* A thread that deletes sessions keeps running, and its waits end: by the
\* last user's signal or by the timeout.  Requests may run for ever.
Fairness == \A a \in Actors : WF_vars(DeleteStep(a))
FairSpec == Spec /\ Fairness
-----------------------------------------------------------------------------
Stages == {"none", "new", "live", "removed", "dying", "freed", "leaked"}
Places == {"idle", "upgrade", "register", "busy", "remove", "next",
           "shutdown", "release", "orphan"}

\* The values the variables range over.
TypeOK == /\ sess \in [Sids -> Stages] /\ refs \in [Sids -> Nat]
          /\ cancelled \in SUBSET Sids
          /\ gid \in [Sids -> Gids \cup {OwnGroup}]
          /\ group \in [Sids -> Sids \cup {None}]
          /\ gmap \in [Gids -> Sids \cup {None}]
          /\ gstate \in [Sids -> {"none", "alive", "freed"}]
          /\ members \in [Sids -> SUBSET Sids]
          /\ pc \in [Actors -> Places]
          /\ cur \in [Actors -> Sids \cup {None}]
          /\ held \in [Actors -> Sids \cup {None}]
          /\ doomed \in [Actors -> SUBSET Sids]
          /\ stopping \in BOOLEAN

Users(s) == {a \in Actors : held[a] = s}

\* m_ulRefCount counts the threads that hold the session, however validation,
\* logoff and removal interleave (BTSession::Lock, Unlock).
RefCounted == \A s \in Sids : refs[s] = Cardinality(Users(s))

\* A session taken out by a logoff or by the cleaner is never in its
\* destructor, or past it, while a thread holds it (RemoveSession, Shutdown).
SafeDelete == \A s \in Sids \ cancelled :
                 Users(s) # {} => sess[s] \in {"live", "removed", "leaked"}

\* The sessions a thread alone is answerable for: those it makes or deletes.
InHand(a) == doomed[a] \cup
    IF pc[a] \in {"upgrade", "register", "shutdown", "release", "orphan"}
    THEN {cur[a]} ELSE {}

\* No session is deleted by two threads, though logoff, cleaner, kill_sessions
\* and server stop all delete, and none that left the table is forgotten.
OneDeleter == /\ \A a, b \in Actors : a # b => InHand(a) \cap InHand(b) = {}
              /\ \A s \in Sids : sess[s] \in {"new", "removed", "dying"}
                                   => \E a \in Actors : s \in InHand(a)

\* What a group points at exists, and so does what a session points at: a
\* member of a group is a session that was not deleted and hangs on it, and a
\* group with members was not deleted (UpdateSessionTime visits every member).
MembersAlive == \A g \in Sids : \A s \in members[g] :
                   /\ gstate[g] = "alive" /\ group[s] = g
                   /\ sess[s] \notin {"none", "freed"}

\* A group in the table without sessions is about to be deleted by the thread
\* that took the last one away: none stays behind (DeleteIfOrphaned).
NoOrphanLeft == \A i \in Gids :
    gmap[i] # None /\ members[gmap[i]] = {} =>
       \E a \in Actors : pc[a] = "orphan" /\ group[cur[a]] = gmap[i]

\* Every session that left the table is deleted in the end, or leaked after
\* the timeout: whoever removed it never waits for ever.
EventuallyDeleted ==
    \A s \in Sids : sess[s] = "removed" ~> sess[s] \in {"freed", "leaked"}

\* The sessions implement the contract, those deleted by kill_sessions and at
\* server stop excepted: they count as closed for ever.
StageOf(s) == CASE sess[s] \in {"none", "new"} -> "absent"
                [] sess[s] = "live" -> "open"
                [] sess[s] \in {"removed", "leaked"} -> "closed"
                [] OTHER -> IF s \in cancelled THEN "closed" ELSE "gone"
Contract == INSTANCE SessionContract
               WITH stage <- [s \in Sids |-> StageOf(s)],
                    users <- [s \in Sids |-> Users(s)]

\* Sessions are handed out, closed and deleted as the comment over
\* ValidateSession promises.
ContractHolds == Contract!Spec
=============================================================================
