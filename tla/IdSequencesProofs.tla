------------------------- MODULE IdSequencesProofs -------------------------
(***************************************************************************)
(* Proofs about IdSequences: no source key and no IMAP uid is ever handed  *)
(* out twice, for every block size and every bound on the counters; and    *)
(* each sequence implements IdSource, with its row as what is reserved.    *)
(***************************************************************************)
EXTENDS IdSequences, TLAPS

\* The key in memory is past everything handed out, and the table is past
\* everything in memory: what a crash or a half-failed save can lose is ids
\* nobody has been given.  It is never more than a block past the key in
\* memory, so that no save takes it back.
SrcInv == /\ \A i \in 1..Len(srcLog) : srcLog[i] <= src
          /\ src + srcQueue <= dbSrc
          /\ dbSrc <= src + Block
          /\ srcPc # "idle" => srcQueue = 0
          /\ srcPc = "saved" => src + Block <= dbSrc

\* The same for the IMAP uids, whose block is in flight in the connection
\* while imapPc = "updated": the lock keeps it there.
ImapInv == /\ \A i \in 1..Len(imapLog) : imapLog[i] <= dbImap
           /\ imapQueue > 0 =>
                 /\ imap + imapQueue <= dbImap + 1
                 /\ \A i \in 1..Len(imapLog) : imapLog[i] < imap
           /\ imapPc # "idle" => imapQueue = 0 /\ dbLock = "imap"
           /\ imapPc = "updated" =>
                 /\ lastInsert + Block <= dbImap + 1
                 /\ \A i \in 1..Len(imapLog) : imapLog[i] < lastInsert
           /\ srcPc = "update" => dbLock = "src"

\* Ids start with 1.
Started == /\ imapQueue > 0 => imap # 0
           /\ imapPc = "updated" => lastInsert # 0

IInv == /\ TypeOK /\ SrcInv /\ ImapInv /\ Started
        /\ SourceKeysUnique /\ ImapUidsUnique

\* Appending an id past all the others keeps a sequence strictly increasing,
\* and bounds every element of the longer sequence by the new one.
LEMMA AppendPast ==
    ASSUME NEW s \in Seq(Nat), NEW n \in Nat,
           StrictlyIncreasing(s),
           \A i \in 1..Len(s) : s[i] < n
    PROVE  /\ Append(s, n) \in Seq(Nat)
           /\ StrictlyIncreasing(Append(s, n))
           /\ \A i \in 1..Len(Append(s, n)) : Append(s, n)[i] <= n
  <1> DEFINE t == Append(s, n)
  <1>1. /\ t \in Seq(Nat) /\ Len(t) = Len(s) + 1 /\ Len(s) \in Nat
        /\ \A i \in 1..Len(s) : t[i] = s[i] /\ s[i] \in Nat
        /\ t[Len(s) + 1] = n
    OBVIOUS
  <1>2. \A i, j \in 1..Len(t) : i < j => t[i] < t[j]
    <2>1. SUFFICES ASSUME NEW i \in 1..Len(t), NEW j \in 1..Len(t), i < j
                   PROVE  t[i] < t[j]
      OBVIOUS
    <2>2. i \in 1..Len(s)
      BY <1>1, <2>1
    <2>3. CASE j = Len(s) + 1
      BY <1>1, <2>2, <2>3
    <2>4. CASE j \in 1..Len(s)
      BY <1>1, <2>1, <2>2, <2>4 DEF StrictlyIncreasing
    <2>5. QED
      BY <1>1, <2>3, <2>4
  <1>3. \A i \in 1..Len(t) : t[i] <= n
    BY <1>1
  <1>4. QED
    BY <1>1, <1>2, <1>3 DEF StrictlyIncreasing

LEMMA InitInv == Init => IInv
  BY BlockAssumption, FirstAssumption
     DEF Init, IInv, TypeOK, SrcInv, ImapInv, Started, SourceKeysUnique,
         ImapUidsUnique, StrictlyIncreasing

LEMMA StepInv == IInv /\ [Next]_vars => IInv'
  <1> SUFFICES ASSUME IInv, [Next]_vars PROVE IInv'
    OBVIOUS
  <1> USE BlockAssumption, FirstAssumption, MaxAssumption
      DEF IInv, TypeOK, SrcInv, ImapInv, Started, SourceKeysUnique, ImapUidsUnique
  <1>1. CASE GetNewSourceKey
    <2>1. /\ src + 1 \in Nat /\ \A i \in 1..Len(srcLog) : srcLog[i] < src + 1
      OBVIOUS
    <2>2. /\ srcLog' \in Seq(Nat) /\ StrictlyIncreasing(srcLog')
          /\ \A i \in 1..Len(srcLog') : srcLog'[i] <= src + 1
      BY <1>1, <2>1, AppendPast DEF GetNewSourceKey, HandOutSrc
    <2>3. UNCHANGED <<dbSrc, dbImap, dbLock, lastInsert, imap, imapQueue,
                      imapPc, imapLog>>
      BY <1>1 DEF GetNewSourceKey, tableVars, connVars, imapVars
    <2>4. /\ srcPc = "idle" /\ srcPc' = "idle" /\ srcQueue > 0
          /\ src' = src + 1 /\ srcQueue' = srcQueue - 1
      BY <1>1 DEF GetNewSourceKey, HandOutSrc, imapVars
    <2>5. TypeOK'
      BY ONLY <2>2, <2>3, <2>4, TypeOK, BlockAssumption DEF TypeOK
    <2>6. SrcInv'
      BY ONLY <2>2, <2>3, <2>4, TypeOK, SrcInv, BlockAssumption
         DEF TypeOK, SrcInv
    <2>7. ImapInv' /\ Started' /\ SourceKeysUnique' /\ ImapUidsUnique'
      BY <1>1, <2>2, <2>3 DEF GetNewSourceKey, HandOutSrc
    <2>8. QED
      BY <2>5, <2>6, <2>7
  <1>2. CASE SaveSrcLock
    BY <1>2 DEF SaveSrcLock, tableVars, imapVars
  <1>3. CASE SaveSrcUpdate
    BY <1>3 DEF SaveSrcUpdate, imapVars
  <1>4. CASE TakeSrcBlock
    <2>1. /\ src + 1 \in Nat /\ \A i \in 1..Len(srcLog) : srcLog[i] < src + 1
      OBVIOUS
    <2>2. /\ srcLog' \in Seq(Nat) /\ StrictlyIncreasing(srcLog')
          /\ \A i \in 1..Len(srcLog') : srcLog'[i] <= src + 1
      BY <1>4, <2>1, AppendPast DEF TakeSrcBlock, HandOutSrc
    <2>3. UNCHANGED <<dbSrc, dbImap, dbLock, lastInsert, imap, imapQueue,
                      imapPc, imapLog>>
      BY <1>4 DEF TakeSrcBlock, tableVars, connVars, imapVars
    <2>4. /\ srcPc = "saved" /\ srcPc' = "idle"
          /\ src' = src + 1 /\ srcQueue' = Block - 1
      BY <1>4 DEF TakeSrcBlock, HandOutSrc
    <2>5. TypeOK'
      BY ONLY <2>2, <2>3, <2>4, TypeOK, BlockAssumption DEF TypeOK
    <2>6. SrcInv'
      BY ONLY <2>2, <2>3, <2>4, TypeOK, SrcInv, BlockAssumption
         DEF TypeOK, SrcInv
    <2>7. ImapInv' /\ Started' /\ SourceKeysUnique' /\ ImapUidsUnique'
      BY <1>4, <2>2, <2>3 DEF TakeSrcBlock, HandOutSrc
    <2>8. QED
      BY <2>5, <2>6, <2>7
  <1>5. CASE GetNewSequence
    <2>1. /\ imapLog' \in Seq(Nat) /\ StrictlyIncreasing(imapLog')
          /\ \A i \in 1..Len(imapLog') : imapLog'[i] <= imap
      BY <1>5, AppendPast DEF GetNewSequence
    <2>2. QED
      BY <1>5, <2>1 DEF GetNewSequence, tableVars, connVars, srcVars
  <1>6. CASE SequenceLock
    BY <1>6 DEF SequenceLock, tableVars, srcVars
  <1>7. CASE SequenceUpdate
    <2>1. /\ UNCHANGED <<dbSrc, src, srcQueue, srcPc, srcLog, imap, imapQueue,
                         imapLog>>
          /\ imapPc = "update" /\ imapPc' \in {"idle", "updated"}
          /\ imapPc' = "updated" => dbLock' = dbLock
      BY <1>7 DEF SequenceUpdate, srcVars
    <2>2. /\ dbImap' \in Nat /\ dbImap <= dbImap' /\ lastInsert' \in Nat
          /\ imapPc' = "updated" =>
                dbImap < lastInsert' /\ lastInsert' + Block <= dbImap' + 1
      BY <1>7 DEF SequenceUpdate
    <2>3. dbLock' \in {"none", "imap"} /\ dbLock = "imap"
      BY <1>7 DEF SequenceUpdate
    <2>4. TypeOK' /\ SrcInv' /\ SourceKeysUnique' /\ ImapUidsUnique'
      BY <2>1, <2>2, <2>3
    <2>7. Started'
      BY ONLY <2>1, <2>2, TypeOK, Started DEF TypeOK, Started
    <2>5. ImapInv'
      <3>1. \A i \in 1..Len(imapLog') : imapLog'[i] <= dbImap'
        BY <2>1, <2>2
      <3>2. imapPc' = "updated" =>
               \A i \in 1..Len(imapLog') : imapLog'[i] < lastInsert'
        BY <2>1, <2>2
      <3>3. /\ imapQueue' = 0
            /\ imapPc' # "idle" => dbLock' = "imap"
            /\ srcPc' # "update"
        BY <2>1, <2>3
      <3>4. QED
        BY ONLY <2>2, <3>1, <3>2, <3>3 DEF ImapInv
    <2>6. QED
      BY <2>4, <2>5, <2>7
  <1>8. CASE SequenceRead
    <2>1. /\ imapLog' \in Seq(Nat) /\ StrictlyIncreasing(imapLog')
          /\ \A i \in 1..Len(imapLog') : imapLog'[i] <= lastInsert
      BY <1>8, AppendPast DEF SequenceRead
    <2>2. QED
      BY <1>8, <2>1 DEF SequenceRead, tableVars, srcVars
  <1>9. CASE CrashRestart
    BY <1>9 DEF CrashRestart, tableVars
  <1>10. CASE UNCHANGED vars
    BY <1>10 DEF vars, StrictlyIncreasing
  <1>11. QED
    BY <1>1, <1>2, <1>3, <1>4, <1>5, <1>6, <1>7, <1>8, <1>9, <1>10
       DEF Next, SrcNext, ImapNext

\* The counters keep their types: the counter never falls behind the block.
THEOREM TypeCorrect == Spec => []TypeOK
  <1>1. Spec => []IInv
    BY InitInv, StepInv, PTL DEF Spec
  <1>2. IInv => TypeOK
    BY DEF IInv
  <1>3. QED
    BY <1>1, <1>2, PTL

\* No source key is handed out twice, whatever the block size, the failures
\* of the save and the crashes (ECSessionManager::GetNewSourceKey).
THEOREM SourceKeys == Spec => []SourceKeysUnique
  <1>1. Spec => []IInv
    BY InitInv, StepInv, PTL DEF Spec
  <1>2. IInv => SourceKeysUnique
    BY DEF IInv
  <1>3. QED
    BY <1>1, <1>2, PTL

\* No IMAP uid is handed out twice, although the connection that carries the
\* new block is shared (ECSessionManager::GetNewSequence, DoSequence).
THEOREM ImapUids == Spec => []ImapUidsUnique
  <1>1. Spec => []IInv
    BY InitInv, StepInv, PTL DEF Spec
  <1>2. IInv => ImapUidsUnique
    BY DEF IInv
  <1>3. QED
    BY <1>1, <1>2, PTL

-----------------------------------------------------------------------------
(* The contract.                                                           *)

LEMMA SourceInit == Init => SrcSource!Init /\ ImapSource!Init
  BY FirstAssumption DEF Init, SrcSource!Init, ImapSource!Init

\* An id of the reserve, past all the others, is handed out.
LEMMA SrcHandOut ==
    ASSUME IInv, HandOutSrc, src + 1 <= dbSrc, dbSrc' = dbSrc
    PROVE  SrcSource!Next
  <1>1. src + 1 \in 1 .. dbSrc /\ \A i \in 1..Len(srcLog) : srcLog[i] < src + 1
    BY DEF IInv, TypeOK, SrcInv
  <1>2. SrcSource!HandOut
    BY <1>1 DEF HandOutSrc, SrcSource!HandOut
  <1>. QED
    BY <1>2 DEF SrcSource!Next

LEMMA ImapHandOut ==
    ASSUME IInv, NEW id \in 1 .. dbImap, imapLog' = Append(imapLog, id),
           dbImap' = dbImap, \A i \in 1..Len(imapLog) : imapLog[i] < id
    PROVE  ImapSource!Next
  BY DEF ImapSource!HandOut, ImapSource!Next

LEMMA SrcSourceStep == IInv /\ IInv' /\ [Next]_vars => [SrcSource!Next]_(SrcSource!vars)
  <1> SUFFICES ASSUME IInv, IInv', [Next]_vars
               PROVE  [SrcSource!Next]_(SrcSource!vars)
    OBVIOUS
  <1>1. CASE GetNewSourceKey
    <2>1. HandOutSrc /\ src + 1 <= dbSrc /\ dbSrc' = dbSrc
      BY <1>1 DEF GetNewSourceKey, tableVars, IInv, TypeOK, SrcInv
    <2>. QED
      BY <2>1, SrcHandOut
  <1>2. CASE TakeSrcBlock
    <2>1. HandOutSrc /\ src + 1 <= dbSrc /\ dbSrc' = dbSrc
      BY <1>2, BlockAssumption DEF TakeSrcBlock, tableVars, IInv, TypeOK, SrcInv
    <2>. QED
      BY <2>1, SrcHandOut
  <1>3. CASE SaveSrcUpdate
    <2>1. dbSrc \in Nat /\ dbSrc' \in Nat /\ dbSrc <= dbSrc' /\ srcLog' = srcLog
      BY <1>3, BlockAssumption DEF SaveSrcUpdate, IInv, TypeOK, SrcInv
    <2>2. SrcSource!Reserve \/ dbSrc' = dbSrc
      BY <2>1 DEF SrcSource!Reserve
    <2>. QED
      BY <2>1, <2>2 DEF SrcSource!Next, SrcSource!vars
  <1>4. CASE UNCHANGED <<dbSrc, srcLog>>
    BY <1>4 DEF SrcSource!vars
  <1>. QED
    BY <1>1, <1>2, <1>3, <1>4
    DEF Next, SrcNext, ImapNext, SaveSrcLock, GetNewSequence, SequenceLock,
        SequenceUpdate, SequenceRead, CrashRestart, tableVars, srcVars, vars

LEMMA ImapSourceStep == IInv /\ IInv' /\ [Next]_vars => [ImapSource!Next]_(ImapSource!vars)
  <1> SUFFICES ASSUME IInv, IInv', [Next]_vars
               PROVE  [ImapSource!Next]_(ImapSource!vars)
    OBVIOUS
  <1>1. CASE GetNewSequence
    <2>1. /\ imap \in Nat /\ dbImap \in Nat /\ imap <= dbImap
          /\ imapLog' = Append(imapLog, imap) /\ dbImap' = dbImap
          /\ \A i \in 1..Len(imapLog) : imapLog[i] < imap
      BY <1>1 DEF GetNewSequence, tableVars, IInv, TypeOK, ImapInv
    <2>2. imap # 0
      BY <1>1 DEF GetNewSequence, IInv, Started
    <2>3. imap \in 1 .. dbImap
      BY <2>1, <2>2
    <2>. QED
      BY <2>1, <2>3, ImapHandOut
  <1>2. CASE SequenceRead
    <2>1. /\ lastInsert \in Nat /\ dbImap \in Nat /\ lastInsert <= dbImap
          /\ imapLog' = Append(imapLog, lastInsert) /\ dbImap' = dbImap
          /\ \A i \in 1..Len(imapLog) : imapLog[i] < lastInsert
      BY <1>2, BlockAssumption DEF SequenceRead, tableVars, IInv, TypeOK, ImapInv
    <2>2. lastInsert # 0
      BY <1>2 DEF SequenceRead, IInv, Started
    <2>3. lastInsert \in 1 .. dbImap
      BY <2>1, <2>2
    <2>. QED
      BY <2>1, <2>3, ImapHandOut
  <1>3. CASE SequenceUpdate
    <2>1. dbImap \in Nat /\ dbImap' \in Nat /\ dbImap <= dbImap' /\ imapLog' = imapLog
      BY <1>3, BlockAssumption DEF SequenceUpdate, IInv, TypeOK
    <2>2. ImapSource!Reserve \/ dbImap' = dbImap
      BY <2>1 DEF ImapSource!Reserve
    <2>. QED
      BY <2>1, <2>2 DEF ImapSource!Next, ImapSource!vars
  <1>4. CASE UNCHANGED <<dbImap, imapLog>>
    BY <1>4 DEF ImapSource!vars
  <1>. QED
    BY <1>1, <1>2, <1>3, <1>4
    DEF Next, SrcNext, ImapNext, SaveSrcLock, SaveSrcUpdate, GetNewSourceKey,
        TakeSrcBlock, SequenceLock, CrashRestart, tableVars, imapVars, vars

\* The source keys come from the reserve of their row, whatever the block
\* size, the failures of the save and the crashes; the row never goes back.
THEOREM SourceKeysImplement == Spec => SourceKeysReserved
  BY InitInv, StepInv, SourceInit, SrcSourceStep, PTL
     DEF Spec, SourceKeysReserved, SrcSource!Spec

\* So do the IMAP uids, whoever uses the connection besides.
THEOREM ImapUidsImplement == Spec => ImapUidsReserved
  BY InitInv, StepInv, SourceInit, ImapSourceStep, PTL
     DEF Spec, ImapUidsReserved, ImapSource!Spec
=============================================================================
