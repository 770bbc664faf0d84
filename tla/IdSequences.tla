---------------------------- MODULE IdSequences ----------------------------
(***************************************************************************)
(* The two persistent id sequences of the storage server: the source keys  *)
(* (ECSessionManager::GetNewSourceKey) and the IMAP uids                   *)
(* (ECSessionManager::GetNewSequence).  Both reserve a block of ids in the *)
(* `settings' table and hand the block out from memory.  Each sequence has *)
(* a mutex of its own, so at most one thread is inside each; but both use  *)
(* the one connection m_lpDatabase, whose own (recursive, automatic) lock  *)
(* keeps the statements of the two apart.                                  *)
(*                                                                         *)
(* srcPc/imapPc is where the thread that holds m_hSourceKeyAutoIncrement-  *)
(* Mutex / m_hSeqMutex stands.  A crash loses everything but the table.    *)
(***************************************************************************)
EXTENDS Integers, Sequences

CONSTANTS Block,    \* ids reserved at a time (50 in the code)
          FirstImap,\* the value of `imapseq' in a new database (3 in the code)
          MaxId     \* bound on the persistent counters

ASSUME BlockAssumption == Block \in Nat \ {0}
ASSUME FirstAssumption == FirstImap \in Nat
ASSUME MaxAssumption   == MaxId \in Nat

VARIABLES dbSrc,      \* settings.source_key_auto_increment
          dbImap,     \* settings.imapseq
          dbLock,     \* holder of the connection's lock: "none", "src", "imap"
          lastInsert, \* mysql_insert_id() of the shared connection
          src,        \* m_ullSourceKeyAutoIncrement
          srcQueue,   \* m_ulSourceKeyQueue
          srcPc,      \* the thread in GetNewSourceKey
          imap,       \* m_ulSeqIMAP
          imapQueue,  \* m_ulSeqIMAPQueue
          imapPc,     \* the thread in GetNewSequence
          srcLog,     \* history: every source key handed out, oldest first
          imapLog     \* history: every IMAP uid handed out, oldest first

tableVars == <<dbSrc, dbImap>>
connVars  == <<dbLock, lastInsert>>
srcVars   == <<src, srcQueue, srcPc, srcLog>>
imapVars  == <<imap, imapQueue, imapPc, imapLog>>
vars      == <<dbSrc, dbImap, dbLock, lastInsert, src, srcQueue, srcPc, srcLog,
               imap, imapQueue, imapPc, imapLog>>

\* A new database; LoadSettings has read the source key counter.
Init == /\ dbSrc = 0 /\ dbImap = FirstImap
        /\ dbLock = "none" /\ lastInsert = 0
        /\ src = 0 /\ srcQueue = 0 /\ srcPc = "idle" /\ srcLog = <<>>
        /\ imap = 0 /\ imapQueue = 0 /\ imapPc = "idle" /\ imapLog = <<>>

-----------------------------------------------------------------------------
(* Source keys.                                                            *)

\* The next key of the block in memory, under m_hSourceKeyAutoIncrementMutex.
HandOutSrc == /\ srcLog' = Append(srcLog, src + 1)
              /\ src' = src + 1

\* GetNewSourceKey while the block lasts.
GetNewSourceKey ==
    /\ srcPc = "idle" /\ srcQueue > 0
    /\ HandOutSrc
    /\ srcQueue' = srcQueue - 1
    /\ UNCHANGED <<tableVars, connVars, imapVars, srcPc>>

\* Mutant: the statement goes out on the shared connection without its lock.
BadSaveSrcLock ==
    /\ srcPc = "idle" /\ srcQueue = 0
    /\ src + Block <= MaxId
    /\ srcPc' = "update"
    /\ UNCHANGED <<tableVars, connVars, src, srcQueue, srcLog, imapVars>>

\* The block is used up: SaveSourceKeyAutoIncrement enters DoUpdate, which
\* takes the connection's lock.
SaveSrcLock ==
    /\ srcPc = "idle" /\ srcQueue = 0 /\ dbLock = "none"
    /\ src + Block <= MaxId
    /\ dbLock' = "src" /\ srcPc' = "update"
    /\ UNCHANGED <<tableVars, lastInsert, src, srcQueue, srcLog, imapVars>>

\* Mutant: the save stores the counter itself and not the end of the block.
BadSaveSrcUpdate ==
    /\ srcPc = "update"
    /\ dbLock' = "none" /\ lastInsert' = 0
    /\ \/ dbSrc' = src /\ srcPc' = "saved"
       \/ dbSrc' \in {dbSrc, src} /\ srcPc' = "idle"
    /\ UNCHANGED <<dbImap, src, srcQueue, srcLog, imapVars>>

\* The UPDATE: it may succeed, be lost, or be applied and still be reported
\* as failed.  It has no LAST_INSERT_ID(), so mysql_insert_id() becomes 0.
SaveSrcUpdate ==
    /\ srcPc = "update"
    /\ dbLock' = "none" /\ lastInsert' = 0
    /\ \/ dbSrc' = src + Block /\ srcPc' = "saved"
       \/ dbSrc' \in {dbSrc, src + Block} /\ srcPc' = "idle"
    /\ UNCHANGED <<dbImap, src, srcQueue, srcLog, imapVars>>

\* Mutant: the length of the new block is not recorded.
BadTakeSrcBlock ==
    /\ srcPc = "saved"
    /\ HandOutSrc
    /\ srcQueue' = srcQueue - 1
    /\ srcPc' = "idle"
    /\ UNCHANGED <<tableVars, connVars, imapVars>>

\* Back in GetNewSourceKey after a successful save: the whole block is ours.
TakeSrcBlock ==
    /\ srcPc = "saved"
    /\ HandOutSrc
    /\ srcQueue' = Block - 1
    /\ srcPc' = "idle"
    /\ UNCHANGED <<tableVars, connVars, imapVars>>

-----------------------------------------------------------------------------
(* IMAP uids.                                                              *)

\* GetNewSequence while the block lasts, under m_hSeqMutex.
GetNewSequence ==
    /\ imapPc = "idle" /\ imapQueue > 0
    /\ imapLog' = Append(imapLog, imap)
    /\ imap' = imap + 1
    /\ imapQueue' = imapQueue - 1
    /\ UNCHANGED <<tableVars, connVars, srcVars, imapPc>>

\* DoSequence takes the connection's lock ...
SequenceLock ==
    /\ imapPc = "idle" /\ imapQueue = 0 /\ dbLock = "none"
    /\ dbImap + Block <= MaxId
    /\ dbLock' = "imap" /\ imapPc' = "update"
    /\ UNCHANGED <<tableVars, lastInsert, srcVars, imap, imapQueue, imapLog>>

\* ... updates value = LAST_INSERT_ID(value+1)+(count-1) in one statement,
\* which may fail with or without having been applied.  Query repeats the
\* statement once over a new connection when the server is lost, so that a
\* statement whose answer was lost takes effect twice ...
SequenceUpdate ==
    /\ imapPc = "update"
    /\ \/ /\ \E before \in {dbImap, dbImap + Block} :
               dbImap' = before + Block /\ lastInsert' = before + 1
          /\ imapPc' = "updated" /\ UNCHANGED dbLock
       \/ /\ dbImap' \in {dbImap, dbImap + Block, dbImap + 2 * Block}
          /\ imapPc' = "idle" /\ dbLock' = "none" /\ UNCHANGED lastInsert
    /\ UNCHANGED <<dbSrc, srcVars, imap, imapQueue, imapLog>>

\* ... and reads the first id of the block back from the connection; the uid
\* is handed out by the caller, still under m_hSeqMutex.
SequenceRead ==
    /\ imapPc = "updated"
    /\ imapLog' = Append(imapLog, lastInsert)
    /\ imap' = lastInsert + 1
    /\ imapQueue' = Block - 1
    /\ imapPc' = "idle" /\ dbLock' = "none"
    /\ UNCHANGED <<tableVars, lastInsert, srcVars>>

-----------------------------------------------------------------------------
\* The server dies at any point and is started again: LoadSettings reads the
\* source key counter, both blocks are empty, the connection is a new one.
CrashRestart ==
    /\ src' = dbSrc /\ srcQueue' = 0 /\ srcPc' = "idle"
    /\ imap' = 0 /\ imapQueue' = 0 /\ imapPc' = "idle"
    /\ dbLock' = "none" /\ lastInsert' = 0
    /\ UNCHANGED <<tableVars, srcLog, imapLog>>

SrcNext  == GetNewSourceKey \/ SaveSrcLock \/ SaveSrcUpdate \/ TakeSrcBlock
ImapNext == GetNewSequence \/ SequenceLock \/ SequenceUpdate \/ SequenceRead
Next == SrcNext \/ ImapNext \/ CrashRestart

Spec == Init /\ [][Next]_vars

-----------------------------------------------------------------------------
\* The values the variables range over.
TypeOK == /\ dbSrc \in Nat /\ dbImap \in Nat
          /\ dbLock \in {"none", "src", "imap"} /\ lastInsert \in Nat
          /\ src \in Nat /\ srcQueue \in 0..Block
          /\ srcPc \in {"idle", "update", "saved"} /\ srcLog \in Seq(Nat)
          /\ imap \in Nat /\ imapQueue \in 0..Block
          /\ imapPc \in {"idle", "update", "updated"} /\ imapLog \in Seq(Nat)

StrictlyIncreasing(s) == \A i, j \in 1..Len(s) : i < j => s[i] < s[j]

\* No source key is ever handed out twice, over every crash, restart and
\* failed or half-failed save (GetNewSourceKey).
SourceKeysUnique == StrictlyIncreasing(srcLog)

\* No IMAP uid is handed out twice, although the id travels through the
\* connection that the source keys use as well (GetNewSequence, DoSequence).
ImapUidsUnique == StrictlyIncreasing(imapLog)

\* Each sequence is an IdSource over its row of the table.
SrcSource  == INSTANCE IdSource WITH reserved <- dbSrc, given <- srcLog
ImapSource == INSTANCE IdSource WITH reserved <- dbImap, given <- imapLog

\* Every source key is larger than those before it and lies in what the row
\* reserves, over every crash, restart and failed or half-failed save; and the
\* row never goes back (GetNewSourceKey, SaveSourceKeyAutoIncrement).
SourceKeysReserved == SrcSource!Spec

\* The same for the IMAP uids, although the id travels through the connection
\* that the source keys use as well (GetNewSequence, DoSequence).
ImapUidsReserved == ImapSource!Spec
=============================================================================
