# Formal models of the Kopano Core storage server

TLA+ models of the concurrent core of `kopano-server`, the process that owns
the database and answers every SOAP call of the other Kopano programs, with
the TLC configurations that check them and proofs that TLAPS checks. Paths
below are relative to the repository; `map` in `PROJECT.json` gives the lines
each definition translates, `hazards` the places in the code that the
properties are for.

1. [The system](#1-the-system)
2. [The modules and the code](#2-the-modules-and-the-code)
3. [What the runs show](#3-what-the-runs-show)
4. [Where code and comments disagree](#4-where-code-and-comments-disagree)
5. [What is proved](#5-what-is-proved)
6. [What is not modelled](#6-what-is-not-modelled)
7. [Plan](#7-plan)

## 1. The system

`kopano-server` is one process with a MySQL database behind it. Its threads:

- the **main thread** runs the dispatcher's loop (`ECDispatcherEPoll::MainLoop`),
  and at the end deletes everything;
- **worker threads**, one more for the priority pipe, serve one request at a
  time each; a **watchdog** adds workers when the queue gets old;
- the **notification manager's thread** answers the calls that wait for
  notifications;
- the **session cleaner** removes sessions that timed out; the **scheduler**
  runs jobs of the hour (soft deletes, old sync states);
- the **search folder** threads, the **purge** thread for deferred updates.

They share C++ objects under mutexes. There are no message queues between them
beside the ones named below; what makes the program hard is which mutex covers
what, what is read under one and used under another, and who deletes an object
while somebody else has a pointer to it.

| component | state | operations | must hold |
| --- | --- | --- | --- |
| id sequences (`ECSessionManager`, `ECDatabaseMySQL`) | two counters in `settings`, a block of ids of each in memory, one shared connection with its own lock | `GetNewSourceKey`, `GetNewSequence` | no id twice, over failed saves, repeated statements and crashes |
| object locks (`ECLockManager`, `ECSession`) | the server-wide table of locks, each session's lock map | lock, unlock, release at the end of the session | one holder; nobody else releases; a dead session holds nothing |
| sessions (`ECSessionManager`, `ECSession`) | session table, reference counts | logon, validate, unlock, logoff, clean up, cancel, stop | never deleted under a user, never deleted twice, never forgotten |
| session groups (`ECSessionGroup`) | group table, members of each group | found or created at logon, left and deleted at the end | members and groups exist as long as they point at each other; no empty group stays |
| dispatcher (`ECThreadManager.cpp`) | listen list, two queues, thread list, flags | queue, take, give back, resize, watchdog, hang-up, SIGHUP, SIGTERM | one owner per connection; work is taken up; the server ends |
| notifications (`ECNotificationManager`, `ECSessionGroup`) | the group's queue, waiting requests, set of active sessions | request, produce, answer, time out, stop | no lost wakeup; every notification once, in order; every request answered |
| authentication sessions | sessions of `ssoLogon` before they are full sessions | step, hand over, time out | no hand-over of a session that timed out |
| subscriptions | subscription maps of group and session manager | advise, unadvise | nothing for sessions that have gone, nothing missed for those that have not |
| cache manager (`ECCacheManager`, `ECCache`) | one map per kind of object, sizes | get, fill, drop, purge | no stale value after a change; size right |
| search folders (`ECSearchFolders`) | criteria and status in the database, a map of running ones, event queue, a thread per search | add, cancel, remove, process events | results complete and current but for what is on its way, across searches, updates and restarts; a cancel ends; no thread on a deleted object |
| deferred updates (`ECTPropsPurge`) | table `deferredupdate` beside `tproperties` | defer, purge by writers, thread and administrator, read | no update lost or misplaced; tables read current rows; the number of rows is kept down |
| tables (`ECTableManager`, `ECKeyTable`) | an order of rows, cursor, bookmarks | sort, update, query, seek | order and cursor right after any update |
| attachments (`ECAttachmentStorage`) | files beside the rows of `singleinstances` | begin, save, link, copy, delete, commit, rollback | a row has its file, a file has a row, also after a failure or a crash |
| change log (`ECICS`) | changes, sync states | log, get changes | a client that follows sees every change |
| users, database upgrade, SOAP calls | SQL tables, plugins | queries | see section 6 |
| clients (`provider/client`), spooler, delivery agent, gateway, CalDAV, archiver, tools, MAPI library and bindings | programs and libraries on top of SOAP or MAPI | | see section 6 |

How they interact: a worker takes a connection from the dispatcher's queue,
`ValidateSession` looks its session up under the table's lock and counts itself
in; it works; `Unlock` counts it out and the connection goes back to the
dispatcher. A change in the store goes from the worker through the session
manager to every group that subscribed, into the group's queue, and from there
the notification manager is told of each session of the group. A call for
notifications leaves its connection with that manager, whose thread validates
the session as a worker would, takes the queue, answers, and gives the
connection back to the dispatcher. The same change goes to the search folders'
queue, whose thread brings the results up to date; the call that made the
change has put its message into `deferredupdate`, so that contents tables know
which rows of their copy are old, and has committed the files of its
attachments before its rows. The end of a session runs through most of this: it
leaves the table, its destructor waits for its users, gives its object locks
back, leaves the group, and deletes the group when it was the last; the
notification manager is told so that a waiting client is answered.

## 2. The modules and the code

One action is one stretch of code under one lock, or one access outside of
locks; between two actions any other thread may run. Program counters name the
places in between. Operator and variable names follow the code.

| module | models | state and actions |
| --- | --- | --- |
| `IdSequences` | `GetNewSourceKey`, `SaveSourceKeyAutoIncrement`, `GetNewSequence`, `DoSequence`, statement retry | `db*` are the rows, `dbLock` and `lastInsert` the shared connection, `src*`/`imap*` the blocks in memory and the thread inside. A statement can succeed, fail, be applied and reported as failed, or be applied twice over a new connection; `CrashRestart` loses everything but the rows |
| `ObjectLocks` | `ECLockManager`, `ECSession::LockObject` and `UnlockObject`, `~ECObjectLockImpl` | `locks` is the table, `entries` the sessions' maps. The session's end is reduced to stages; a session whose users do not leave in time is leaked |
| `Sessions` | `CreateSession`, `RegisterSession`, `GetSessionGroup`, `ValidateSession`, `RemoveSession`, `SessionCleaner`, `CancelAllSessions`, `RemoveAllSessions`, `BTSession::Shutdown`, `~ECSession`, `ReleaseSession`, `DeleteIfOrphaned` | `sess`, `refs`, `members`, `gmap` are the session's life, its count, the group's list and the group table; `pc`, `cur`, `held`, `doomed` what each thread is at and has in hand. Workers, the notification thread, the cleaner and the main thread are the actors |
| `SessionContract` | the comment over `ValidateSession` | abstract: a session is absent, open, closed, gone, and has users; it is deleted only when closed and without users. `Sessions` is shown to implement it (`Contract`, `ContractHolds`) |
| `Dispatcher` | `ECDispatcherEPoll`, `ECDispatcher`, `ECThreadManager`, `ECWorkerThread`, `ECWatchDog`, the signal handlers | `sockets`, `polled`, `batch`, `queue`, `deferred`, `closed` say where a connection is; `pc`, `list`, `target` what threads there are and where; `mpc` and `cur` the main thread. A handler runs on top of a thread that stands still meanwhile |
| `Notifications` | `AddRequest`, `NotifyChange`, `Work`, `~ECNotificationManager`, `AddNotification`, `AddChangeNotification`, `GetNotifyItems` | `list`, `requests`, `active` are the queue, the map of requests and the set of active sessions; `todo`, `ses`, `item`, `out` the thread's locals; `handed` and `lost` are history |
| `SearchFolders` | `AddSearchFolder`, `CancelSearchFolder`, `RemoveSearchFolder`, `DestroySearchFolder`, `SearchThread`, `Search`, `ProcessCandidateRows`, `FlushEvents`, `ProcessMessageChange`, and what the session manager tells them | `map` is `m_mapSearchFolders`, `live`, `of`, `free`, `exit` its objects, `spc`, `places`, `ids` their search threads; `events`, `batch`, `group`, `left` the way of a change from the queue into the results; `status` and `results` are in the database. Messages are made, changed, moved and deleted at any moment between the steps. Writing a status may fail, which the callers ignore. `dropped`, `broken`, `cut`, `unset` and `overtaken` are history: which folders and messages section 4's exceptions hit |
| `DeferredUpdates` | `ECTPropsPurge.cpp`, the writes of `saveObject`, `copyObjects`, `setReadFlags` (of a folder and of a list), `submitMessage`, `finishedMessage`, `abortSubmit`, `setMessageStatus`, soft deletions and `DeleteObjectHard`, `purgeDeferredUpdates`, `QueryRowData` | `deferred` is the table `deferredupdate`, `fresh` says which rows of `tproperties` are what `properties` has, `owner` the row locks of a folder's counters, `list` the ids an actor has selected and goes on to use, `cached` the folders that the object cache may give for a message, old ones included; `raced` and `missed` are history: the messages section 4's exceptions hit |
| `Attachments` | `ECAttachmentStorage`, `ECFileAttachment`, and the callers' order of commits and rollbacks | `refs` are the committed rows, `file` the disk, `snap`, `wrote`, `mine`, `held` a transaction of InnoDB (its snapshot, its row locks, its own rows), `new`, `del`, `marked` the three lists of the transaction on the files. A link by instance id is two steps, the look at the file (`Check`) and the row (`Link`); `lost` and `leaked` are history |
| `IdSource` | what an id sequence is for | abstract: ids are reserved, the reserve never goes back, and an id handed out is larger than all before it and within the reserve. `IdSequences` implements it twice (`SrcSource`, `ImapSource`), with the row as what is reserved and the history of the ids as what was given |
| `DispatchContract` | what `ECDispatcher` and `ECWorkerThread` do for one connection | abstract: a connection is nowhere, listened on, queued, read from, left to the notification manager, answered or closed, and has nothing, data or a hang-up waiting on its socket. `Dispatcher` implements it with `PlaceOf` over its lists, queues and threads |
| `NotifyContract` | what `ns__notifyGetItems` and `ECNotificationManager` promise a client | abstract: the oldest notifications go to an open call; a call is answered once, with nothing only when it is old or its session is over, or gives way to another. `Notifications` implements it; `queue` is what is taken out with what is still in the list, `call` is `CallOf` of a connection |
| `MC*` | | what TLC needs: symmetry sets, and for `MCSearchFolders` which worker serves which search folder (each its own, `Apart`) and the initial states, and for `MCDeferredUpdates` the specification without a reader (`UnreadSpec`) |
| `*Proofs` | | theorems, section 5 |

Each module repeats, in a reduced form, what it needs of its neighbours:
`Sessions` has the notification thread as an actor that holds a session for a
while, `ObjectLocks` and `Notifications` have the stages of a session,
`Dispatcher` has the notification thread as somebody who keeps a connection for
a while; the database is in each of the three last modules with what that part
needs of it: `SearchFolders` takes a transaction for one step, because all that
touch the results of a folder lock the folder's row first; `DeferredUpdates`
splits it at the locks it may wait for and gives it the snapshot of its first
plain `SELECT`; `Attachments` has snapshots and row locks as variables, because
whether an instance has users left is read in the first and changed under the
second. The isolation is InnoDB's REPEATABLE READ: a plain `SELECT` sees the
snapshot and the transaction's own rows, `SELECT ... FOR UPDATE`, `REPLACE ...
SELECT` and `DELETE` see what is committed. The reductions only leave out, they
add no order that the full module does not have. `CHECK_DEADLOCK FALSE` is used
where the system may stop: all sessions gone, the server ended, the writes or
other bounds used up.

Definitions called `Bad...`, `Hasty...` and `Any...` are mutants: each changes
one definition the way a plausible mistake in that code would, and `mutants` in
`PROJECT.json` says which property notices.

## 3. What the runs show

| run | bounds | shows |
| --- | --- | --- |
| `id_sequences` | blocks of 2, counters to 8, any number of failures and crashes | `SourceKeysReserved`, `ImapUidsReserved`: each sequence is an `IdSource`, so no id is given twice and none that the database could give again |
| `object_locks` | 2 sessions, 2 messages | `HolderHasEntry`, `OnlyHolderReleases`; `LocksReleased`: a closed session does not block others for ever |
| `sessions` | 2 workers, the notification thread, the cleaner, the main thread; 2 sessions, of one group id or none | `SafeDelete`, `OneDeleter`, `MembersAlive`, `NoOrphanLeft`; `ContractHolds`: the refinement; `EventuallyDeleted` |
| `dispatcher` | 2 connections, 2 workers and the priority worker, watchdog, notification thread, one SIGHUP, spurious wakeups of the workers | `EventsHold`: what was reported of a connection is still so, and it is still in the list, when it is used; `NotStranded`, `EnoughThreads`; `ContractHolds`: the refinement of `DispatchContract` |
| `dispatcher_stop` | a normal and a priority connection, SIGTERM at any moment | `StoppedClean`, `Served`, `ServerStops` |
| `notifications` | 2 sessions of a group, 2 connections, a worker, a producer, 2 notifications; clients leave, sessions end, the server stops | `NoLostWakeup`, `OneHolder`; `ContractHolds`: the refinement of `NotifyContract` |
| `notifications_answered` | one session, whose client renews its request on a second connection; 2 producers | `Answered` |
| `search_folders` | 2 search folders with a worker each, 1 message, 2 message folders of which one is searched, 2 objects; 2 changes or errors | `NoUseAfterFree`; `NothingMissed`, `NothingStale`: the results between search and updates; `RestartIsSafe`: what the database says of a folder at every moment is right for a restart, but for a status that could not be written and the last moments of a cancelled search (section 4) |
| `search_folders_cancel` | 2 search folders, 2 workers, no change | violation of `CancelEnds`: section 4 |
| `deferred_updates` | 2 calls at once, the purge thread, an administrator, a table; 2 folders, 2 messages, limits of 2, 2 writes | `AtHome`: deferred rows follow their messages; `Merged`: what has no deferred row is up to date; `ReadsCurrent`: so is what a table reads. All three but for the messages of section 4 (`raced`, `missed`) |
| `deferred_updates_limit` | one call at a time beside the flag changes and deletions, and no table (`UnreadSpec`) | `KeptBelow`: the purge thread brings the number of rows below its limit again and again |
| `attachments` | 2 requests at once, 3 transactions of up to 2 operations, 2 slots, 3 instances, a crash | `FileThere`: a row has its file; `NothingLeft`: a file has a user; each but for the named ways of section 4 |

**Why the bounds are enough to be interesting.** The races here are between two
or three threads over one object: a block of 2 runs out and is renewed several
times before the counter reaches 8; two sessions share a group, lose it and
make a new one; with two connections and two workers one thread can serve what
another has just given back, while the main thread has not yet erased it; two
notifications can be handed out together, one after the other, or one to a
client that has gone. One message is enough for a search folder, because the
code treats each message by itself and what races is the search of it, its
update and the worker; with 2 changes it is made and moved, or changed and
deleted, while each is on its way. Once the one message is overtaken (section
4) the results of the run say nothing more, so `MCSpec` lets that happen only
between calls and without errors, and then only ends searches. In
`deferred_updates` 2 rows reach the limit of a folder, and a second folder lets
a message leave while it is listed. In `attachments` 2 slots share an instance,
lose it and get it back, and 3 transactions leave one that finds what the first
two and a crash have made. The coverage of every run was looked at: each action
and each disjunct happens. `symmetry` is used for safety only, over workers,
connections and sessions that no constant tells apart; the runs with liveness
properties have none.

**Fairness** is stated next to each specification and is what the code's
scheduling gives:

- `Sessions`: a thread that deletes a session goes on (`WF` of its deletion).
  It may wait five minutes for the users; then `ShutdownTimeout` leaks the
  session. No fairness is assumed of those users: a request may take for ever.
- `ObjectLocks`: the same, for the end of a session.
- `Dispatcher`: the main thread and the watchdog go on (`WF`); each worker gets
  the mutex it waits for in the end, though others hold it in between (`SF`).
  Nothing is assumed of clients.
- `Notifications`: the manager's thread, workers and producers get their
  mutexes (`SF`, the manager's step is disabled while a producer holds the
  session list, again and again); time passes, so each request gets old (`WF`).
- `SearchFolders` (only used to show the violation of `CancelEnds`): every
  thread goes on (`WF`), so that the worker that sleeps does so because it is
  never woken.
- `DeferredUpdates`: the purge thread looks again (`WF`); its two transactions
  may be rolled back by a deadlock any number of times and succeed in the end
  when tried again and again (`SF`). Nothing is assumed of the callers. With
  `MaxWrites` the writes end; the property is about the thread, which must not
  stop short of its limit while they last or after them.

**What a property needs of the code.** Some that are easy to get wrong:
`NotStranded` rests on `QueueItem`'s `notify_one` being called under the mutex
of the test for an empty queue, though `GetNextWorkItem` waits without a
predicate; `EventsHold` on the main thread holding `m_mutexSockets` across the
batch, and on nobody but its worker reading from a connection that has left the
list; `Answered` on the scan for old requests alone, because the session
cleaner does not tell the manager of the sessions it deletes; `OneDeleter` on
whoever erases from the session table being the one who deletes;
`ImapUidsReserved` on the recursive lock of the connection being held from the
update to the reading of `mysql_insert_id`. `NothingMissed` rests on the folder
being put into the map before its thread selects anything, and on the search
reading the properties of each message anew; `Merged` on `REPLACE ... SELECT`
working on committed rows, for `PurgeDeferredTableUpdates` merges by folder
what is deferred now and deletes by the ids it listed before; `ReadsCurrent` on
a table listing the deferred rows before it reads the others, and on a purge
merging before it deletes, which counts for the administrator's, outside of a
transaction; `AtHome` on `MoveObjects` taking the row that is there along (`ON
DUPLICATE KEY UPDATE`), since a save leaves it as it is (`INSERT IGNORE`);
`FileThere` on an instance being looked for in the view of the transaction,
with its own rows, after the rows are deleted, and on new instance ids never
being seen by others.

## 4. Where code and comments disagree

One run is expected to fail, on a property that says what a comment says
(`findings` in `PROJECT.json` quotes it):

- `search_folders_cancel`: all search threads signal `m_condThreadExited` with
  `notify_one`, and all workers that destroy a search folder wait for it, each
  for its own thread. The comment in `DestroySearchFolder` says that a signal
  for a different thread is "efficient enough"; with two workers waiting, the
  signal meant for one may be used up by the other, and the call of a client
  sleeps until some later search ends.

The others came out of the models in the same way and have no run now, where
`hazards` does not name one. First those where a comment, a test or a document
says otherwise:

- **A refused lock is granted the next time.** `ECSession::LockObject` keeps
  its map entry when the lock manager refuses; the second attempt finds it and
  succeeds, and two clients think they hold the lock.
- **The destructor does not wait.** The comment over `ValidateSession` says it
  waits for the users. `~ECSession` calls `Shutdown(0)`, which does not;
  `RemoveAllSessions` and `CancelAllSessions` delete sessions in use.
  `StageOf` in `Sessions` takes these out of the refinement.
- **Two groups for one id.** `GetSessionGroup` upgrades from the shared to the
  exclusive lock and does not look again. Two logons with one new group id make
  two groups; the map keeps one.
- **SIGHUP's handler locks mutexes the interrupted thread may hold.**
  `kcsrv_blocksigs` fills a signal mask and does not apply it. On the main
  thread inside `QueueItem` that is the end.
- **The server hangs at its end.** `~ECSessionManager` joins the notification
  thread with the lock that thread needs to answer.
- **A restart and search folders.** `ECSearchFolders.h` says that restarts
  affect only folders that are being rebuilt. The queue of events is in memory;
  what is in it when the server ends never reaches a folder that counts as
  built. `RestartIsSafe` excepts updates under way for that reason.
- **`FlushAndWait` may return early:** an event that has been committed and not
  yet queued, or that a batch has taken, is not waited for in each case.

Then those about files and rows, which `FileThere` and `NothingLeft` name as
exceptions and are complete about:

- The files are committed first. When the database then fails (or one file
  cannot be removed), rows that stay have lost their files and new files have
  no rows (`LostByHalf`, `LeftByHalf`).
- Whether an instance has users is read in the snapshot. Two transactions that
  remove the last two rows each see the other's row and neither removes the
  file; one that links an instance is not seen by the one that removes it
  (`LeftByRace`, `LostByRace`).
- A link by instance id looks for the file (`ExistAttachmentInstance`,
  ECAttachmentStorage.cpp:277) and puts its row in by another statement
  (`REPLACE`, line 286), which may wait for a lock. A commit of files by another
  transaction between the two takes the file away, and the link makes a row
  without one. This is the part of `LostByRace` about a worker at "checked".
- A rollback renames a replaced file back though its last row has been removed
  meanwhile; a value stored and replaced in one transaction comes back as a
  file without a row; and a file that comes back may be one that another
  transaction, which takes the last row, has looked for in vain while it was
  renamed (`LeftRenamed`; the last case needs three transactions, so it was the
  proof that found it, not the run).
- A crash while a file is renamed to `*.deleted` loses it: nobody renames it
  back. Before that, readers of the committed row get "not found".
- A blob that is not written to its end leaves a file that is on no list.
- After `ECFileAttachment::Commit` has failed, the callers call `Rollback`
  outside of its transaction, which is an `assert(false)` in a debug build; so
  do the late error paths of `CopyFolderObjects`, which commits the database
  before the files (harmless: it only copies). `DeleteProps` ignores the error
  of `DeleteAttachments`, and `DeleteAttachment` a failed look for orphans.

About deferred updates:

- A message that is moved while a purge of its old folder has it on its list
  loses its deferred update: the purge merges rows of the folder and deletes by
  id. The "@todo, multiple threads call this function, which will cause
  problems" over the function is right in this case, and in one more: the purge
  that an administrator asks for runs outside of a transaction, and a message
  saved between its merge and its delete loses the new update.
- The folder for which a save defers is taken from the object cache, in
  `saveObject` (cmd.cpp:2764) and in `WriteProps` (cmd.cpp:1767), with its locks
  or before. The cache is filled without them: `GetObject` looks, selects and
  fills, so that a fill may bring back what a writer has dropped meanwhile, and
  `MoveObjects` puts the new folder in (cmd.cpp:7698) before its commit (7710),
  after whose failure (7775) it stays. The row in `deferredupdate` is then for
  a folder the message is not in; no table of its own folder finds it, and no
  purge merges it. `BeginLockFolders` may lock a wrong folder for the same
  reason.
- The ghost `raced` marks the messages of these two items, and `AtHome`,
  `Merged` and `ReadsCurrent` say that no others are hit.
- `setReadFlags` of a list of messages changes `properties` of all, and
  `tproperties` of those in the folder it looked up last (cmd.cpp:5053, "FIXME
  ulParent is not constant for all lHierarchyIDs"; `UpdateTProp`,
  cmdutil.cpp:1219, filters by it). The others keep a stale copy, and no
  deferred row says so. `submitMessage`, `finishedMessage` and `abortSubmit` do
  the same with one message, the folder the cache gives for it and no lock of
  that folder. `setMessageStatus` (cmd.cpp:10041) and the soft deletion of a folder
  (cmdutil.cpp:547, 562) change no copy at all. The ghost `missed` marks these
  messages until they are written again; `Merged` and `ReadsCurrent` say that
  no others have a stale copy.
- `setReadFlags` for a whole folder purges the folder and marks in both tables;
  when its snapshot shows no deferred rows it does not purge, and marks an
  unmerged copy of one deferred since. The result of the purge is not looked
  at (cmd.cpp:4941): when a deadlock has rolled the transaction back, what
  follows runs statement by statement and may end after the first table
  (`missed` again).

About search folders:

- No caller looks at the result of `SetStatus` (lines 225, 379 and
  1222). A search folder whose "stopped" or "rebuild" could not be written
  keeps its old status: out of the map it is started by the next restart, or
  it counts as built while it is built. `unset` marks it, and `RestartIsSafe`
  leaves it out until a status is written.
- A search that is cancelled half-way writes "running" (line 1222) before the
  worker that has cancelled it writes "stopped" (379). A restart between the
  two takes incomplete results for complete. Between them the folder is out of
  the map too, so that it misses updates. `cut` marks these folders.
- A search that ends with an error leaves the folder in the map, incomplete,
  with the status "rebuild" (`broken`): `NothingMissed` leaves it out until it
  is searched again, `RestartIsSafe` does not.
- A batch of events is processed folder by folder. A message that is changed in
  one folder and then moved to, or deleted in, another may be removed again by
  the earlier event (`overtaken`); `NothingMissed` and `NothingStale` leave
  these messages out.
- `DeleteObjects` removes a search folder before the delete, outside of its
  transaction: a delete that fails leaves it stopped and empty.
- A `SELECT` that fails in `Search` passes a message folder over, and the search
  folder counts as built (`dropped` marks it).
- A message marked as deleted that a search has selected before is added again.
- `~ECSearchFolders` deletes the objects while search threads run.
- Two clients that work on one search folder at the same time can leave it
  marked as running while it is out of the map, stop it while it is in, or leave
  an object that nobody deletes, whose search writes into the results beside
  the other's. No object is used after it was deleted or deleted twice, that is
  proved for this case too (`ObjectsSafe`); what is said of results and
  restarts is so only when their calls come one after the other (`Apart`).

And about sessions, threads and notifications:

- Two threads that take the last two sessions of a group away may both look at
  the group: the first deletes it, the second reads it in `DeleteIfOrphaned`
  after it has been freed. `MembersAlive` and `NoOrphanLeft` are about what the
  structures say and hold; the read itself is the fault.
- A SIGHUP handler that passed its test of `g_Quit` sets the thread count and
  starts threads after the main thread has set it to 0. So the run with
  `Stops` has no SIGHUP. A handler that runs on the main thread cannot do
  this, but nothing in the code keeps it there.
- `NotifyDone` tests `m_bExit` and inserts the connection later; the
  notification thread, which nobody has joined at that point, may insert one
  after the last loop over the sockets. It is never closed. `StoppedClean`
  therefore speaks of queues and threads only. It gives connections back
  through `g_lpSoapServerConn`, which the end of the server deletes.
- `m_bExit` is set before `g_Quit`: a main loop that ends between the two is
  started again by `running_server`.
- A worker that passed `NotifyIdle` goes to sleep as one too many when the
  count falls meanwhile, until it is woken for work. `EnoughThreads` is an
  inequality for that reason. The watchdog has no upper limit.
- The answer to a waiting client is written with `m_mutexRequests` held: one
  that does not read stops the answers to all.
- `ReleaseSession` drops the session's entries of `m_mapSubscribe` and leaves
  those of `m_mapChangeSubscribe`.
- Two threads may both find `m_lpDatabase` unset and open a connection each
  (`GetNewSequence`).

## 5. What is proved

For every value of the constants, under the assumptions the modules state
(`None` and the like are not among the real values, sets of threads are
finite, bounds are natural numbers). TLC checked each invariant first.

| theorem | says |
| --- | --- |
| `IdSequencesProofs`: `TypeCorrect`, `SourceKeys`, `ImapUids` | no id twice, whatever the block size and however many crashes |
| `IdSequencesProofs`: `SourceKeysImplement`, `ImapUidsImplement` | each sequence implements `IdSource` |
| `ObjectLocksProofs`: `TypeCorrect`, `HoldersExist`, `OwnersRelease` | the invariants of the run and the action property |
| `SessionsProofs`: `TypeCorrect`, `CountsRight`, `DeletionSafe`, `DeletedOnce`, `GroupsAlive`, `NoneLeftBehind` | all safety properties of `sessions`, for any number of threads, sessions and group ids; a session's count is the number of its users |
| `SessionsProofs`: `Implements` | `Sessions` implements `SessionContract` |
| `DispatcherProofs`: `TypeCorrect`, `EventsFound`, `NoneStranded`, `ThreadsEnough` | all invariants of `dispatcher`, for any connections, threads, signals and wakeups |
| `DispatcherProofs`: `OwnedOnce` | `OneOwner`: a connection has exactly one owner |
| `DispatcherProofs`: `Implements` | `Dispatcher` implements `DispatchContract` |
| `NotificationsProofs`: `TypeCorrect`, `NoneSleeps`, `SettledInvariant` | no request sleeps on notifications that are there |
| `NotificationsProofs`: `HolderIsOne`, `HandedInOrder` | each connection is at one place; clients get every notification once and in order |
| `NotificationsProofs`: `Implements` | `Notifications` implements `NotifyContract` |
| `NotificationsProofs`: `EndsClean` | `NoneLeftOpen`: when the manager is deleted no connection is left with it |
| `DeferredUpdatesProofs`: `TypeCorrect`, `DeferredAtHome`, `NothingLost`, `TablesReadCurrent` | all safety properties of `deferred_updates`, for any folders, messages, callers and limits, and whatever the object cache says; with the exceptions `raced` and `missed` of section 4 |
| `AttachmentsProofs`: `TypeCorrect`, `RowsHaveFiles`, `FilesHaveUsers`, `NewUnseen` | a committed row has its file and a file has its user, but for the named ways, for any requests, slots, instances, failures and crashes; what a rollback may remove nobody else uses |
| `AttachmentsProofs`: `RemovedForGood` | `GoneForGood`: a file that was removed does not come back |
| `SearchFoldersProofs`: `TypeCorrect`, `ObjectsSafe` | no object of a search folder is used after it was deleted, nor deleted by two, for any search folders, messages, places, workers and search threads, also with several calls for one search folder at once |
| `SearchFoldersProofs`: `NoneMissed`, `NoneStale`, `RestartSafe` | the other properties of `search_folders`, if the calls for each search folder come one after the other (`Apart`), with their exceptions of section 4 |

The arguments:

- **IdSequences.** The keys in memory are past everything handed out and the
  row is past everything in memory (`SrcInv`); a failed save can only move the
  row further. For the IMAP uids the block is for a moment nowhere but in the
  connection: `ImapInv` says that the lock keeps it there. `AppendPast` is the
  fact about sequences. For `IdSource` two more facts are needed: the row is
  never more than a block past the key in memory, so that saving `src + Block`
  does not take it back, and ids start with 1 (`Started`), so that the first
  id of a block is one of the reserved ones.
- **ObjectLocks.** `HolderHasEntry` is not inductive: a session could go with
  an entry left, or get one after its end. `IInv` adds that a session that is
  gone has no entries and no request, and that a dying one has no request.
- **Sessions.** `Life` says what each thread has in hand at each place
  (`Places_`), what stage the sessions in its hands are in (`Staged`), that no
  session is held before it was in the table and that the sessions deleted
  without waiting are on their way out. `SafeDelete` follows because a session
  reaches its destructor only through `Shutdown` with a count of 0, and nobody
  can take it up after it left the table; that the count of 0 means no users is
  `NoUsers`, from lemmas about the cardinality of `Users`. `Grouping` adds the
  groups: a session that exists hangs on the group that lists it (`Attached`),
  a thread between leaving the group and looking at it is the one that may
  delete it (`Passing`), the map points at groups that exist (`Mapped`).
  Actions that leave the groups alone are handled together (`Quiet`).
- **Refinement.** `StageOf` maps a new session to absent, a leaked one to
  closed; the sessions that `kill_sessions` and the server's end delete under
  their users are mapped to closed for ever, because for them the contract is
  broken (section 4). Each action is shown to be a step of the contract or a
  stutter.
- **Dispatcher.** `Conn` says where connections are: in five sets that are
  apart and make up all (`Apart`), once in each (`Hold`, `Lines`), with what
  main has in hand among the events and out of the epoll set (`Main`). What is
  polled is listened on (`Polls`), which needs that a thread about to put a
  connection back into the epoll set is the only one to do so and that main has
  no event for it (`Restarts`). `Pool` says of the threads that those on the
  list are the ones that run, that they are enough, and of each queue with work
  that somebody is up who will look at it again, or that nobody of its threads
  sleeps (`Awake`): a thread that goes as one too many was idle, and so not the
  one that is up. For `EventsHold` the connections on their way from an event
  to a worker (`Way`) are looked at together: each still has something waiting
  on its socket (`Ready`), since only a worker at "work" takes what waits
  there, and its connection is no longer on the way. The contract needs where
  every connection is as a function: `PlaceParts` gets it from `Apart`, `Hold`
  and `Lines`, and `Within(S)` says that a step moves the connections of `S`
  only, so that each action is a step of the contract for the one connection it
  moves, or none. At the end the lists are closed as a whole (`AllClosed`), and
  main gets there only when it has seen `m_bExit` (`Stopped`).
- **Notifications.** `Settled` adds what each thread has in hand, and that
  the thread's copy of the active sessions is empty when the next copy is
  made: without that `CopyActive` could drop a session it has not looked at.
  Then for each action: a request of an open session is `InView` when the
  queue has something for it. `Places` is the same idea as `Apart` above: sets
  that are apart and make up all connections. `Order` says that what was sent
  is older than what is being sent, and that older than the queue, so that
  `SeenConcat` and `SeenAppend` carry the order over `Send` and
  `AddNotification`. The contract joins them: from `Places` follows what a call
  has come to (`Calls`), from `Order` that what is sent is the oldest part of
  the queue (`FirstPart`), and `Reasons` says that an answer with nothing in it
  is due, and that no call arrives any more once the server stops. `Joined` is
  the end: the thread is joined with nothing in hand before the requests are
  closed, and none comes after that.
- **DeferredUpdates.** A purge deletes the ids it has listed and merges the
  rows of its folder; the two agree because what is listed is still in that
  folder or removed (`Listed`), of all messages but those in `raced`: a move
  past a purge, or a save between the administrator's merge and delete, is
  what would break it. Nothing is assumed of the cache, so a save may defer for
  any folder; where that is not the message's, `AtHome` fails for it and it is in
  `raced`. `MergedRows` says of the administrator's purge that what it has merged
  and not deleted yet is up to date. `FlagStep` is about the calls that change
  one copy: those that miss the copy add to `missed`. `PurgeSafe` is the lemma
  about a purge of any tables, `PlaceStep` about a step of any actor that keeps
  what others have listed.
- **Attachments.** The commit of the files removes what is on the lists of a
  transaction, so no row in its view may use that (`Dropped`); the rows it has
  written must keep their files until they are committed (`Pending`, in terms
  of the set `Safe`; a worker between its look at a file and its row has no
  claim on it, which is why `LostByRace` names it); a rollback removes new
  files, so nobody else may have seen their ids (`Unseen`, for which ids are
  below `next`); and a transaction that copies has nothing on its lists
  (`Quiet`), since the row it copies may be newer than its snapshot.
  `OthersKeep` and `PlainStep` say once what a step of one worker does to the
  rest. `NothingLeft` needs more (`Tidy`): of an instance whose last row a
  transaction has taken, in its view, it has the file on a list or there was
  none to find (`Found`); a row is only put where the view shows none
  (`Cleared`), so putting it hides no other; and a renamed file is on one list
  (`MarkedAway`, `Deleted`), so that what a rollback renames back is there
  (`GoneForGood`). At its commit, a row that goes without its file was then
  taken by a race.
- **SearchFolders.** A search thread holds no lock. The object it works on is
  in the map or in the hand of the one worker that has taken it out
  (`Objects`, `Mapped`, `Works`), so nobody deletes it, and its search folder
  is not touched by another search. Of a message that was not overtaken an
  event still says the truth when it is applied, and so does the list of a
  search (`Events`, `Selected`): whoever comes last, the row is right
  (`GroupApplied`). `Complete` and `Clean` are the two properties, strengthened
  by which kind of event is still to come (`Fixing`: one that says a message
  is new never removes it). `Emptied` is needed because a search may fail
  before it has removed anything. For `ObjectsSafe` less is enough (`SInv`): an
  object a worker waits for is out of the map, and no other worker waits for it
  (`Held`), because taking it out of the map is one step under the mutex. That
  two calls for one search folder come one after the other (`Apart`) is a
  hypothesis of the three theorems that need it.

**Beyond the runs:** `OneOwner`, `InOrder`, `SourceKeysUnique`,
`ImapUidsUnique`, `NoneLeftOpen` and `GoneForGood` are proved and are in no run:
the first four are what the contracts their runs check imply of the program's
own variables, and all six were checked with TLC on the constants of their
module's run before they were proved.

**What the theorems rest on:** the assumptions of the modules, the mappings
(`StageOf`, `PlaceOf`, `CallOf`), which a reader should agree with before
taking a contract for what the code does, and in `NoneMissed`, `NoneStale` and
`RestartSafe` the hypothesis `Apart`, which the code does not give. `FileThere`,
`NothingLeft` and the properties of search folders and deferred updates say what
they say but for the exceptions they name, each a case that section 4 tells
of. The mappings cannot hide a fault by mapping
everything to one place: in each contract what a client sees (`waits`, `got`,
`missing`, `given`) is a variable of the program or its history, unchanged.

**Only model-checked:** all liveness properties (`LocksReleased`,
`EventuallyDeleted`, `Served`, `ServerStops`, `Answered`, `KeptBelow`), which
the prover cannot do, and `StoppedClean`, which does not hold with a SIGHUP
(section 4). No module declares a recursive operator.

## 6. What is not modelled

- **SQL, SOAP, formats.** The text of statements, the parsing and encoding of
  requests, what a notification says, encodings of entry ids.
- **Time.** Ages, timeouts and idle times are choices that may be made at any
  moment. What depends on how long something takes (a client that reads
  slowly while `Send` holds `m_mutexRequests`) is not in the models.
- **Failures to allocate memory or to make threads.**
- **Dispatcher:** the variant built on `select`, which is used without
  `USE_EPOLL`; the handshake of SSL ends like a request; the main loop is run
  once (`running_server` starts it again when it ended without `g_Quit`).
- **Sessions:** sessions of `ssoLogon`, internal sessions, persistent
  connections.
- **Notifications:** subscriptions. A notification in the model is one that
  somebody in the group subscribed to.
- **Search folders:** the indexer, which takes the place of the search when it
  can; folders below the searched ones; a thread that cannot be made. The runs
  have no two clients on one search folder (section 4). What `Notify` and
  `Matches` read through the cache is taken as it is now. The 20 messages of
  one transaction of the search are one message.
- **Deferred updates:** the properties of a row are one bit, current or not;
  folders, whose rows are deferred as those of messages are;
  `importMessageFromStream`, which makes and saves messages with code of its
  own in the same order; a `setReadFlags` of a list is one step; the end of the
  thread.
- **Attachments:** the storages in the database (rows in the same transaction)
  and in S3; loading and sizes; links by an administrator, who may name any
  instance; deletes outside of a transaction; a restart of MySQL, which may set
  the auto-increment value back to a number that is in use as a file, and the
  writing of such a file without `O_TRUNC`. Locks of other tables are left out:
  requests on one object are ordered by them, so the model has races of plain
  deletes that the folder's lock may exclude.
- **The cache** (`ECCacheManager`, `ECCache`) has no module. `DeferredUpdates`
  takes the folder of a message from it as any one the message has been in, or
  that a move has put there before it failed; the other models read what is in
  the database.
- **SOAP calls** that only read or write the database are transactions of the
  database. **Users, permissions, upgrade:** SQL and LDAP queries, run by one
  thread. **Conversions** (MIME, iCalendar, recurrence): about formats, not
  about state. **Spooler, delivery agent, gateway, CalDAV, archiver, tools:**
  programs of their own that use the server like any client. **Bindings and
  MAPI library:** generated code and libraries.

## 7. Plan

Done, in the order of importance: `IdSequences`, `ObjectLocks`, `Sessions`
with `SessionContract`, `Dispatcher`, `Notifications`, `SearchFolders`,
`DeferredUpdates`, `Attachments`, then the contracts `IdSource`,
`DispatchContract` and `NotifyContract`, with the proofs above.

Next, in this order:

1. `Cache`: `ECCache` as an algorithm (size equals the sum of the items',
   which expiry does not keep; purge takes the oldest), and `ECCacheManager`'s
   fill against a thread that changes the row and drops the item. Abstract
   specification: a read returns a value the row had during the call.
2. `AuthSessions`: the sessions of `ssoLogon`, their time-out and hand-over;
   composed with `Sessions`, which then gets its third way of creation.
3. `Subscriptions`: the maps of group and session manager, with sessions that
   end between subscribing and notifying; composed with `Notifications`.
4. `Server`: `Dispatcher`, `Sessions` and `Notifications` composed through one
   connection and one session, for what crosses their borders: a connection
   given back through a dispatcher that is being deleted, the order of
   deletions in `running_server` and `kopano_exit`.
5. `ThreadPool` (`ECThreadPool`, `ECWaitableTask`; `cmd.cpp` streams messages
   with it) and `Scheduler`.
6. `KeyTable`: the order, cursor and bookmarks of `ECKeyTable`, against a
   sorted sequence, over bounded inputs.
7. `ChangeLog`: sync states and `GetChanges`, after a reading of how much of
   it is not SQL.
8. `NotifyMaster` of the client library: reconnection and the client's side
   of `Notifications`.

Every safety property of the runs but `StoppedClean` is proved. Runs are kept
to about a dozen so that the whole project is checked in a few minutes; a
component that is added takes the place of a run that has shown what it can.
