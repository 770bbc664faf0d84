---------------------------- MODULE ObjectLocks ----------------------------
(***************************************************************************)
(* The locks a client sets on messages (setLockState): the server-wide     *)
(* table of ECLockManager and the lock map every ECSession keeps, whose    *)
(* entries give their lock back when the session is destroyed.             *)
(*                                                                         *)
(* A request runs on a session that was validated when it began; the       *)
(* session may be taken out of the session table while it runs, and is     *)
(* destroyed when it has ended, or leaked when it does not end in time.    *)
(* (Sessions has that protocol in full; sessions deleted by kill_sessions  *)
(* and at server stop are left out here.)  LockObject and UnlockObject run *)
(* under m_hLocksLock of the session and change the table under m_hRwLock. *)
(***************************************************************************)
EXTENDS Naturals

CONSTANTS Sessions, Objects, None

ASSUME NoneAssumption == None \notin Sessions

VARIABLES locks,    \* ECLockManager::m_mapLocks: the session that holds it
          entries,  \* ECSession::m_mapLocks: the keys
          stage,    \* "open", "closed", "dying", "gone" or "leaked"
          busy      \* the sessions with a running request

vars == <<locks, entries, stage, busy>>

Init == /\ locks = [o \in Objects |-> None]
        /\ entries = [s \in Sessions |-> {}]
        /\ stage = [s \in Sessions |-> "open"]
        /\ busy = {}

-----------------------------------------------------------------------------
(* ECLockManager.                                                          *)

\* LockObject of the manager: the first one in gets it.
Acquire(s, o) == locks' = [locks EXCEPT ![o] = IF @ = None THEN s ELSE @]

\* Mutant: the lock is dropped whoever holds it.
AnyRelease(s, o) == locks' = [locks EXCEPT ![o] = None]
\* Mutant: the table's entry is set to 0 and not erased.
BadRelease(s, o) == locks' = [locks EXCEPT ![o] = IF @ = s THEN 0 ELSE @]

\* UnlockObject of the manager; a lock of another session, or one that is
\* not there, is left alone.
Release(s, o) == locks' = [locks EXCEPT ![o] = IF @ = s THEN None ELSE @]

Unlockable(s, o) == locks[o] = s
-----------------------------------------------------------------------------
(* Requests.                                                               *)

\* ValidateSession and the end of the request.
Begin(s) == /\ stage[s] = "open" /\ s \notin busy
            /\ busy' = busy \cup {s}
            /\ UNCHANGED <<locks, entries, stage>>
End(s) == /\ s \in busy
          /\ busy' = busy \ {s}
          /\ UNCHANGED <<locks, entries, stage>>

\* ECSession::LockObject.  The entry is made first and stays whatever the
\* manager says; only a new entry asks the manager.
LockObject(s, o) ==
    /\ s \in busy
    /\ entries' = [entries EXCEPT ![s] = @ \cup {o}]
    /\ \/ o \in entries[s] /\ UNCHANGED locks
       \/ o \notin entries[s] /\ Acquire(s, o)
    /\ UNCHANGED <<stage, busy>>

\* ECSession::UnlockObject.  No entry: success.  A lock that is not the
\* session's: an error, and the entry stays.
UnlockObject(s, o) ==
    /\ s \in busy
    /\ \/ /\ o \notin entries[s]
          /\ UNCHANGED <<locks, entries>>
       \/ /\ o \in entries[s] /\ Unlockable(s, o)
          /\ Release(s, o)
          /\ entries' = [entries EXCEPT ![s] = @ \ {o}]
       \/ /\ o \in entries[s] /\ ~Unlockable(s, o)
          /\ UNCHANGED <<locks, entries>>
    /\ UNCHANGED <<stage, busy>>

-----------------------------------------------------------------------------
(* The end of a session.                                                   *)

\* It leaves the session table (logoff, timeout).
Remove(s) == /\ stage[s] = "open"
             /\ stage' = [stage EXCEPT ![s] = "closed"]
             /\ UNCHANGED <<locks, entries, busy>>

\* Shutdown: no request runs any more, or five minutes have passed.
Shutdown(s) == /\ stage[s] = "closed"
               /\ stage' = [stage EXCEPT ![s] = IF s \in busy THEN "leaked"
                                                ELSE "dying"]
               /\ UNCHANGED <<locks, entries, busy>>

\* Mutant: an entry that dies keeps its lock.
BadReleaseEntry(s, o) ==
    /\ stage[s] = "dying" /\ o \in entries[s]
    /\ entries' = [entries EXCEPT ![s] = @ \ {o}]
    /\ UNCHANGED <<locks, stage, busy>>

\* m_mapLocks is destroyed entry by entry; ~ECObjectLockImpl unlocks.
ReleaseEntry(s, o) ==
    /\ stage[s] = "dying" /\ o \in entries[s]
    /\ Release(s, o)
    /\ entries' = [entries EXCEPT ![s] = @ \ {o}]
    /\ UNCHANGED <<stage, busy>>

Gone(s) == /\ stage[s] = "dying" /\ entries[s] = {}
           /\ stage' = [stage EXCEPT ![s] = "gone"]
           /\ UNCHANGED <<locks, entries, busy>>

Next == \E s \in Sessions :
           \/ Begin(s) \/ End(s) \/ Remove(s) \/ Shutdown(s) \/ Gone(s)
           \/ \E o \in Objects : \/ LockObject(s, o) \/ UnlockObject(s, o)
                                 \/ ReleaseEntry(s, o)

Spec == Init /\ [][Next]_vars

\* The thread that removed a session waits at most five minutes and then runs
\* its destructor; the client's requests need not end.
FairSpec == Spec /\ \A s \in Sessions :
               WF_vars(Shutdown(s) \/ Gone(s)
                       \/ \E o \in Objects : ReleaseEntry(s, o))
-----------------------------------------------------------------------------
\* The values the variables range over.
TypeOK == /\ locks \in [Objects -> Sessions \cup {None}]
          /\ entries \in [Sessions -> SUBSET Objects]
          /\ stage \in [Sessions -> {"open", "closed", "dying", "gone", "leaked"}]
          /\ busy \in SUBSET Sessions

\* A lock in the table is backed by an entry of a session that still exists:
\* no session can vanish and leave a message locked for ever, even one whose
\* last request locked it after the session had been removed.
HolderHasEntry == \A o \in Objects : \A s \in Sessions :
                     locks[o] = s => o \in entries[s] /\ stage[s] # "gone"

\* What a step may do to a lock that is held.
OwnRelease == \A o \in Objects : \A s \in Sessions :
                 locks[o] = s /\ locks'[o] # s =>
                    /\ locks'[o] = None
                    /\ o \in entries[s] /\ o \notin entries'[s]

\* A lock passes from a session only by that session's own entry going: no
\* other session can release or take it over (the owner test of the manager).
OnlyHolderReleases == [][OwnRelease]_vars

\* The locks of a session that has left the session table are released, or
\* the session is leaked with them: a closed session never blocks others.
LocksReleased == \A s \in Sessions :
    stage[s] = "closed" ~> \/ stage[s] = "leaked"
                           \/ \A o \in Objects : locks[o] # s
=============================================================================
