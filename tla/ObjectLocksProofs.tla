------------------------- MODULE ObjectLocksProofs -------------------------
(***************************************************************************)
(* Proofs about ObjectLocks, for any sessions and any objects.             *)
(*                                                                         *)
(* The inductive invariant adds to the two safety properties that a        *)
(* session that is gone has no entries: it is gone only when the           *)
(* destruction of its lock map is over.                                    *)
(***************************************************************************)
EXTENDS ObjectLocks, TLAPS

\* A lock has its entry; a session that is gone has none left.
HolderEntry == \A o \in Objects : \A s \in Sessions : locks[o] = s => o \in entries[s]
GoneEmpty == \A s \in Sessions : stage[s] = "gone" => entries[s] = {} /\ s \notin busy
DyingIdle == \A s \in Sessions : stage[s] = "dying" => s \notin busy
IInv == TypeOK /\ HolderEntry /\ GoneEmpty /\ DyingIdle

\* The inductive invariant holds at first.
LEMMA InitInv == Init => IInv
  BY NoneAssumption DEF Init, IInv, TypeOK, HolderEntry, GoneEmpty, DyingIdle

\* A step of an open, closed or leaked session that runs a request.
LEMMA LockStep ==
  ASSUME IInv, NEW s \in Sessions, NEW o \in Objects, LockObject(s, o)
  PROVE  IInv'
<1>0. /\ TypeOK /\ s \in busy
      /\ UNCHANGED <<stage, busy>>
      /\ entries' = [entries EXCEPT ![s] = @ \cup {o}]
  BY DEF IInv, LockObject
<1>1. CASE o \in entries[s]
  <2>1. UNCHANGED locks
    BY <1>1 DEF LockObject
  <2> QED BY <1>0, <2>1 DEF IInv, TypeOK, HolderEntry, GoneEmpty, DyingIdle
<1>2. CASE o \notin entries[s]
  <2>1. locks' = [locks EXCEPT ![o] = IF @ = None THEN s ELSE @]
    BY <1>2 DEF LockObject, Acquire
  <2>2. TypeOK'
    BY <1>0, <2>1 DEF TypeOK
  <2>3. HolderEntry'
    BY <1>0, <2>1, NoneAssumption DEF IInv, TypeOK, HolderEntry
  <2>4. GoneEmpty' /\ DyingIdle'
    BY <1>0 DEF IInv, TypeOK, GoneEmpty, DyingIdle
  <2> QED BY <2>2, <2>3, <2>4 DEF IInv
<1> QED BY <1>1, <1>2

\* An entry and its lock go together, by the client or with the session.
LEMMA UnlockStep ==
  ASSUME IInv, NEW s \in Sessions, NEW o \in Objects, UnlockObject(s, o)
  PROVE  IInv'
<1>0. TypeOK /\ s \in busy /\ UNCHANGED <<stage, busy>>
  BY DEF IInv, UnlockObject
<1>1. CASE o \notin entries[s]
  <2>1. UNCHANGED <<locks, entries>>
    BY <1>1 DEF UnlockObject
  <2> QED BY <1>0, <1>1, <2>1 DEF IInv, TypeOK, HolderEntry, GoneEmpty, DyingIdle
<1>2. CASE o \in entries[s] /\ Unlockable(s, o)
  <2>1. /\ locks' = [locks EXCEPT ![o] = IF @ = s THEN None ELSE @]
        /\ entries' = [entries EXCEPT ![s] = @ \ {o}]
    BY <1>2 DEF UnlockObject, Release
  <2>2. TypeOK' /\ GoneEmpty' /\ DyingIdle'
    BY <1>0, <2>1 DEF IInv, TypeOK, GoneEmpty, DyingIdle
  <2>3. HolderEntry'
    BY <1>0, <1>2, <2>1, NoneAssumption DEF IInv, TypeOK, HolderEntry
  <2> QED BY <2>2, <2>3 DEF IInv
<1>3. CASE o \in entries[s] /\ ~Unlockable(s, o)
  <2>1. UNCHANGED <<locks, entries>>
    BY <1>3 DEF UnlockObject
  <2> QED BY <1>0, <2>1 DEF IInv, TypeOK, HolderEntry, GoneEmpty, DyingIdle
<1> QED BY <1>1, <1>2, <1>3

LEMMA DestroyStep ==
  ASSUME IInv, NEW s \in Sessions, NEW o \in Objects, ReleaseEntry(s, o)
  PROVE  IInv'
<1>1. /\ stage[s] = "dying" /\ UNCHANGED <<stage, busy>>
      /\ locks' = [locks EXCEPT ![o] = IF @ = s THEN None ELSE @]
      /\ entries' = [entries EXCEPT ![s] = @ \ {o}]
  BY DEF ReleaseEntry, Release
<1>2. TypeOK' /\ GoneEmpty' /\ DyingIdle'
  BY <1>1 DEF IInv, TypeOK, GoneEmpty, DyingIdle
<1>3. HolderEntry'
  BY <1>1, NoneAssumption DEF IInv, TypeOK, HolderEntry
<1> QED BY <1>2, <1>3 DEF IInv

\* The steps of a session that leave every lock alone.
LEMMA StageStep ==
  ASSUME IInv, NEW s \in Sessions,
         \/ Begin(s) \/ End(s) \/ Remove(s) \/ Shutdown(s) \/ Gone(s)
  PROVE  IInv'
<1>1. CASE Begin(s) BY <1>1 DEF Begin, IInv, TypeOK, HolderEntry, GoneEmpty, DyingIdle
<1>2. CASE End(s) BY <1>2 DEF End, IInv, TypeOK, HolderEntry, GoneEmpty, DyingIdle
<1>3. CASE Remove(s) BY <1>3 DEF Remove, IInv, TypeOK, HolderEntry, GoneEmpty, DyingIdle
<1>4. CASE Shutdown(s) BY <1>4 DEF Shutdown, IInv, TypeOK, HolderEntry, GoneEmpty, DyingIdle
<1>5. CASE Gone(s) BY <1>5 DEF Gone, IInv, TypeOK, HolderEntry, GoneEmpty, DyingIdle
<1> QED BY <1>1, <1>2, <1>3, <1>4, <1>5

\* Every step keeps the inductive invariant.
LEMMA NextInv == IInv /\ [Next]_vars => IInv'
<1> SUFFICES ASSUME IInv, [Next]_vars PROVE IInv'
  OBVIOUS
<1>1. CASE UNCHANGED vars
  BY <1>1 DEF vars, IInv, TypeOK, HolderEntry, GoneEmpty, DyingIdle
<1>2. ASSUME NEW s \in Sessions, NEW o \in Objects,
             LockObject(s, o) \/ UnlockObject(s, o) \/ ReleaseEntry(s, o)
      PROVE  IInv'
  BY <1>2, LockStep, UnlockStep, DestroyStep
<1> QED BY <1>1, <1>2, StageStep DEF Next

THEOREM Inductive == Spec => []IInv
BY InitInv, NextInv, PTL DEF Spec

\* Type correctness of ObjectLocks.
THEOREM TypeCorrect == Spec => []TypeOK
<1>1. IInv => TypeOK BY DEF IInv
<1> QED BY <1>1, Inductive, PTL

\* No session vanishes and leaves a message locked for ever: the lock table
\* of ECLockManager is backed by the lock maps of sessions that exist.
THEOREM HoldersExist == Spec => []HolderHasEntry
<1>1. IInv => HolderHasEntry
  BY DEF IInv, HolderEntry, GoneEmpty, HolderHasEntry
<1> QED BY <1>1, Inductive, PTL

\* A lock leaves a session only with that session's own entry.
THEOREM OwnersRelease == Spec => OnlyHolderReleases
<1>1. IInv /\ [Next]_vars => [OwnRelease]_vars
  <2> SUFFICES ASSUME IInv, Next PROVE OwnRelease
    OBVIOUS
  <2>1. ASSUME NEW s \in Sessions, NEW o \in Objects, LockObject(s, o) PROVE OwnRelease
    BY <2>1, NoneAssumption DEF OwnRelease, IInv, TypeOK, LockObject, Acquire
  <2>2. ASSUME NEW s \in Sessions, NEW o \in Objects, UnlockObject(s, o) PROVE OwnRelease
    BY <2>2 DEF OwnRelease, IInv, TypeOK, HolderEntry, UnlockObject, Release
  <2>3. ASSUME NEW s \in Sessions, NEW o \in Objects, ReleaseEntry(s, o) PROVE OwnRelease
    BY <2>3 DEF OwnRelease, IInv, TypeOK, HolderEntry, ReleaseEntry, Release
  <2>4. ASSUME NEW s \in Sessions,
               Begin(s) \/ End(s) \/ Remove(s) \/ Shutdown(s) \/ Gone(s)
        PROVE  OwnRelease
    BY <2>4 DEF OwnRelease, Begin, End, Remove, Shutdown, Gone
  <2> QED BY <2>1, <2>2, <2>3, <2>4 DEF Next
<1> QED BY <1>1, Inductive, PTL DEF Spec, OnlyHolderReleases
=============================================================================
