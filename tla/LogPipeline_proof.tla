------------------------- MODULE LogPipeline_proof ----------------------------
(* Proofs about LogPipeline for every set of logs, buffer and batch size.      *)
EXTENDS LogPipeline, FiniteSetTheorems, SequenceTheorems, TLAPS

(* Appending a row leaves the rows there are where they are and adds one id    *)
(* (the ids of the table are AUTOINCREMENT).                                   *)
LEMMA AppendRow ==
    ASSUME rows \in Seq(Logs), NEW l \in Logs, rows' = Append(rows, l)
    PROVE  /\ rows' \in Seq(Logs)
           /\ Len(rows') = Len(rows) + 1 /\ Len(rows) \in Nat
           /\ Ids' = Ids \cup {Len(rows) + 1}
           /\ Len(rows) + 1 \notin Ids
           /\ \A i \in Ids : rows'[i] = rows[i] /\ i < Len(rows) + 1
  BY DEF Ids

(* The initial state.                                                          *)
LEMMA InitInv == Init => IInv
  <1> SUFFICES ASSUME Init PROVE IInv
    OBVIOUS
  <1> USE LogsAssumption, FoundAssumption, SizesAssumption, StorageAssumption
          DEF Init, LogsAssumption, FoundAssumption, SizesAssumption, StorageAssumption
  <1>1. emit \in [Logs -> {"new", "refused", "sent", "saved", "lost"}]
    OBVIOUS
  <1>2. rows \in Seq(Logs) /\ logCh \in Seq(Logs) /\ Len(logCh) <= logBufferSize
    OBVIOUS
  <1>3. TypeOK
    BY <1>1, <1>2 DEF TypeOK, Ids
  <1>4. Running /\ Batches /\ NoGap
    BY DEF Running, Batches, NoGap, DoneWith
  <1>5. SomeoneWakes /\ MarkedWasWritten /\ ResendIsExcused
    BY DEF SomeoneWakes, MarkedWasWritten, ResendIsExcused
  <1> QED
    BY <1>3, <1>4, <1>5 DEF IInv

(* The steps of the process and of the connection.                             *)
LEMMA AgentStep ==
    ASSUME IInv, Start \/ ConnectOnceSignal \/ StartWorkers \/ ConnectSignal
           \/ LinkLost \/ LinkInstalled \/ Shutdown
    PROVE  IInv'
  <1> USE DEF IInv, dbVars, agentVars, emitVars, persistVars, syncVars, ghostVars
  <1>1. CASE Start
    <2>1. TypeOK'
      BY <1>1 DEF Start, TypeOK, Ids
    <2>2. Running' /\ Batches' /\ NoGap' /\ SomeoneWakes'
         /\ MarkedWasWritten' /\ ResendIsExcused'
      BY <1>1 DEF Start, Running, Batches, NoGap, DoneWith, Ids, SomeoneWakes,
         Awake, Pending, MarkedWasWritten, ResendIsExcused
    <2> QED
      BY <2>1, <2>2
  <1>2. CASE ConnectOnceSignal
    <2>1. TypeOK'
      BY <1>2 DEF ConnectOnceSignal, signalLogSync, TypeOK, Ids
    <2>2. Running' /\ Batches' /\ NoGap' /\ SomeoneWakes'
         /\ MarkedWasWritten' /\ ResendIsExcused'
      BY <1>2 DEF ConnectOnceSignal, signalLogSync, Running, Batches, NoGap,
         DoneWith, Ids, SomeoneWakes, Awake, Pending, MarkedWasWritten,
         ResendIsExcused
    <2> QED
      BY <2>1, <2>2
  <1>3. CASE StartWorkers
    <2>1. TypeOK'
      BY <1>3 DEF StartWorkers, TypeOK, Ids
    <2>2. Running' /\ Batches' /\ NoGap' /\ SomeoneWakes'
         /\ MarkedWasWritten' /\ ResendIsExcused'
      BY <1>3 DEF StartWorkers, Running, Batches, NoGap, DoneWith, Ids,
         SomeoneWakes, Awake, Pending, MarkedWasWritten, ResendIsExcused
    <2> QED
      BY <2>1, <2>2
  <1>4. CASE ConnectSignal
    <2>1. TypeOK'
      BY <1>4 DEF ConnectSignal, TypeOK, Ids
    <2>2. Running' /\ Batches' /\ NoGap' /\ SomeoneWakes'
         /\ MarkedWasWritten' /\ ResendIsExcused'
      BY <1>4 DEF ConnectSignal, Running, Batches, NoGap, DoneWith, Ids,
         SomeoneWakes, Awake, Pending, MarkedWasWritten, ResendIsExcused
    <2> QED
      BY <2>1, <2>2
  <1>5. CASE LinkLost
    <2>1. TypeOK'
      <3>1. /\ Ids' = Ids /\ link' \in BOOLEAN
            /\ UNCHANGED <<rows, synced, agent, ctx, connecting, emit, logCh, persist,
                           entry, logSyncCh, sync, batch, full, syncedIDs, written,
                           excused, direct>>
        BY <1>5 DEF LinkLost, Ids
      <3> HIDE <1>5
      <3> QED
        BY <3>1 DEF TypeOK
    <2>2. Running' /\ Batches' /\ NoGap' /\ SomeoneWakes'
         /\ MarkedWasWritten' /\ ResendIsExcused'
      BY <1>5 DEF LinkLost, Running, Batches, NoGap, DoneWith, Ids, SomeoneWakes,
         Awake, Pending, MarkedWasWritten, ResendIsExcused
    <2> QED
      BY <2>1, <2>2
  <1>6. CASE LinkInstalled
    <2>1. TypeOK'
      BY <1>6 DEF LinkInstalled, TypeOK, Ids
    <2>2. Running' /\ Batches' /\ NoGap' /\ SomeoneWakes'
         /\ MarkedWasWritten' /\ ResendIsExcused'
      BY <1>6 DEF LinkInstalled, Running, Batches, NoGap, DoneWith, Ids,
         SomeoneWakes, Awake, Pending, MarkedWasWritten, ResendIsExcused
    <2> QED
      BY <2>1, <2>2
  <1>7. CASE Shutdown
    <2>1. TypeOK'
      BY <1>7 DEF Shutdown, TypeOK, Ids
    <2>2. Running' /\ Batches' /\ NoGap' /\ SomeoneWakes'
         /\ MarkedWasWritten' /\ ResendIsExcused'
      BY <1>7 DEF Shutdown, Running, Batches, NoGap, DoneWith, Ids, SomeoneWakes,
         Awake, Pending, MarkedWasWritten, ResendIsExcused
    <2> QED
      BY <2>1, <2>2
  <1> QED
    BY <1>1, <1>2, <1>3, <1>4, <1>5, <1>6, <1>7

(* The steps of emitLog that save nothing.                                      *)
LEMMA EmitStep ==
    ASSUME IInv, NEW l \in Logs,
           SendLog(l) \/ SendLogRefused(l) \/ EmitLogSaveFails(l)
    PROVE  IInv'
  <1> USE DEF IInv, dbVars, agentVars, emitVars, persistVars, syncVars, ghostVars
  <1>1. CASE SendLog(l)
    <2>1. TypeOK'
      BY <1>1, SizesAssumption
      DEF SendLog, HasRoom, Queued, SizesAssumption, TypeOK, Ids
    <2>2. Running' /\ Batches' /\ NoGap' /\ SomeoneWakes'
         /\ MarkedWasWritten' /\ ResendIsExcused'
      BY <1>1 DEF SendLog, HasRoom, Queued, Running, Batches, NoGap, DoneWith,
         Ids, SomeoneWakes, Awake, Pending, MarkedWasWritten, ResendIsExcused
    <2> QED
      BY <2>1, <2>2
  <1>2. CASE SendLogRefused(l)
    <2>1. TypeOK'
      BY <1>2 DEF SendLogRefused, TypeOK, Ids
    <2>2. Running' /\ Batches' /\ NoGap' /\ SomeoneWakes'
         /\ MarkedWasWritten' /\ ResendIsExcused'
      BY <1>2 DEF SendLogRefused, Running, Batches, NoGap, DoneWith, Ids,
         SomeoneWakes, Awake, Pending, MarkedWasWritten, ResendIsExcused
    <2> QED
      BY <2>1, <2>2
  <1>3. CASE EmitLogSaveFails(l)
    <2>1. TypeOK'
      BY <1>3 DEF EmitLogSaveFails, TypeOK, Ids
    <2>2. Running' /\ Batches' /\ NoGap' /\ SomeoneWakes'
         /\ MarkedWasWritten' /\ ResendIsExcused'
      BY <1>3 DEF EmitLogSaveFails, Running, Batches, NoGap, DoneWith, Ids,
         SomeoneWakes, Awake, Pending, MarkedWasWritten, ResendIsExcused
    <2> QED
      BY <2>1, <2>2
  <1> QED
    BY <1>1, <1>2, <1>3

(* The steps of logPersistLoop that save nothing.                               *)
LEMMA PersistStep ==
    ASSUME IInv, 
           PersistTake \/ PersistSaveFails \/ PersistSignal \/ PersistCancelled
    PROVE  IInv'
  <1> USE DEF IInv, dbVars, agentVars, emitVars, persistVars, syncVars, ghostVars
  <1>1. CASE PersistTake
    <2>1. TypeOK'
      BY <1>1, SizesAssumption DEF PersistTake, SizesAssumption, TypeOK, Ids
    <2>2. Running'
      <3>1. Head(logCh) \in Logs
        BY <1>1 DEF PersistTake, TypeOK
      <3> QED
        BY <1>1, <3>1 DEF PersistTake, Running
    <2>3. Batches' /\ NoGap' /\ SomeoneWakes'
         /\ MarkedWasWritten' /\ ResendIsExcused'
      BY <1>1 DEF PersistTake, Batches, Running, NoGap, DoneWith, Ids,
         SomeoneWakes, Awake, Pending, MarkedWasWritten, ResendIsExcused
    <2> QED
      BY <2>1, <2>2, <2>3
  <1>2. CASE PersistSaveFails
    <2>1. TypeOK'
      BY <1>2 DEF PersistSaveFails, TypeOK, Ids
    <2>2. Running' /\ Batches' /\ NoGap' /\ SomeoneWakes'
         /\ MarkedWasWritten' /\ ResendIsExcused'
      BY <1>2 DEF PersistSaveFails, Running, Batches, NoGap, DoneWith, Ids,
         SomeoneWakes, Awake, Pending, MarkedWasWritten, ResendIsExcused
    <2> QED
      BY <2>1, <2>2
  <1>3. CASE PersistSignal
    <2>1. TypeOK'
      BY <1>3 DEF PersistSignal, TypeOK, Ids
    <2>2. Running' /\ Batches' /\ NoGap' /\ SomeoneWakes'
         /\ MarkedWasWritten' /\ ResendIsExcused'
      BY <1>3 DEF PersistSignal, Running, Batches, NoGap, DoneWith, Ids,
         SomeoneWakes, Awake, Pending, MarkedWasWritten, ResendIsExcused
    <2> QED
      BY <2>1, <2>2
  <1>4. CASE PersistCancelled
    <2>1. TypeOK'
      BY <1>4 DEF PersistCancelled, TypeOK, Ids
    <2>2. Running' /\ Batches' /\ NoGap' /\ SomeoneWakes'
         /\ MarkedWasWritten' /\ ResendIsExcused'
      BY <1>4 DEF PersistCancelled, Running, Batches, NoGap, DoneWith, Ids,
         SomeoneWakes, Awake, Pending, MarkedWasWritten, ResendIsExcused
    <2> QED
      BY <2>1, <2>2
  <1> QED
    BY <1>1, <1>2, <1>3, <1>4

(* The steps of logSyncLoop between two batches.                                *)
LEMMA SyncStep ==
    ASSUME IInv, 
           SyncWake \/ SyncCancelled \/ SyncCheck \/ SyncGetFails
    PROVE  IInv'
  <1> USE DEF IInv, dbVars, agentVars, emitVars, persistVars, syncVars, ghostVars
  <1>1. CASE SyncWake
    <2>1. TypeOK'
      BY <1>1 DEF SyncWake, TypeOK, Ids
    <2>2. Running' /\ Batches' /\ NoGap' /\ SomeoneWakes'
         /\ MarkedWasWritten' /\ ResendIsExcused'
      BY <1>1 DEF SyncWake, Running, Batches, NoGap, DoneWith, Ids, SomeoneWakes,
         Awake, Pending, MarkedWasWritten, ResendIsExcused
    <2> QED
      BY <2>1, <2>2
  <1>2. CASE SyncCancelled
    <2>1. TypeOK'
      BY <1>2 DEF SyncCancelled, TypeOK, Ids
    <2>2. Running' /\ Batches' /\ NoGap' /\ SomeoneWakes'
         /\ MarkedWasWritten' /\ ResendIsExcused'
      BY <1>2 DEF SyncCancelled, Running, Batches, NoGap, DoneWith, Ids,
         SomeoneWakes, Awake, Pending, MarkedWasWritten, ResendIsExcused
    <2> QED
      BY <2>1, <2>2
  <1>3. CASE SyncCheck
    <2>1. TypeOK'
      BY <1>3 DEF SyncCheck, TypeOK, Ids
    <2>2. Running' /\ Batches' /\ NoGap' /\ SomeoneWakes'
         /\ MarkedWasWritten' /\ ResendIsExcused'
      BY <1>3 DEF SyncCheck, Running, Batches, NoGap, DoneWith, Ids,
         SomeoneWakes, Awake, Pending, MarkedWasWritten, ResendIsExcused
    <2> QED
      BY <2>1, <2>2
  <1>4. CASE SyncGetFails
    <2>1. TypeOK'
      BY <1>4 DEF SyncGetFails, TypeOK, Ids
    <2>2. Running' /\ Batches' /\ NoGap' /\ SomeoneWakes'
         /\ MarkedWasWritten' /\ ResendIsExcused'
      BY <1>4 DEF SyncGetFails, Running, Batches, NoGap, DoneWith, Ids,
         SomeoneWakes, Awake, Pending, MarkedWasWritten, ResendIsExcused
    <2> QED
      BY <2>1, <2>2
  <1> QED
    BY <1>1, <1>2, <1>3, <1>4

(* The steps within a batch.                                                    *)
LEMMA BatchStep ==
    ASSUME IInv, NEW i \in Ids,
           SyncSkip(i) \/ SyncSend(i) \/ SyncSendFails(i)
    PROVE  IInv'
  <1> USE DEF IInv, dbVars, agentVars, emitVars, persistVars, syncVars, ghostVars
  <1>1. CASE SyncSkip(i)
    <2>1. TypeOK'
      BY <1>1 DEF SyncSkip, Entry, TypeOK, Ids
    <2>2. Running' /\ Batches' /\ NoGap' /\ SomeoneWakes'
         /\ MarkedWasWritten' /\ ResendIsExcused'
      BY <1>1 DEF SyncSkip, Entry, Running, Batches, NoGap, DoneWith, Ids,
         SomeoneWakes, Awake, Pending, MarkedWasWritten, ResendIsExcused
    <2> QED
      BY <2>1, <2>2
  <1>2. CASE SyncSend(i)
    <2>1. TypeOK'
      BY <1>2 DEF SyncSend, Entry, TypeOK, Ids
    <2>2. Running' /\ Batches' /\ NoGap' /\ SomeoneWakes'
         /\ MarkedWasWritten' /\ ResendIsExcused'
      BY <1>2 DEF SyncSend, Entry, Running, Batches, NoGap, DoneWith, Ids,
         SomeoneWakes, Awake, Pending, MarkedWasWritten, ResendIsExcused
    <2> QED
      BY <2>1, <2>2
  <1>3. CASE SyncSendFails(i)
    <2>1. TypeOK'
      BY <1>3 DEF SyncSendFails, FailedNot, TypeOK, Ids
    <2>2. Running' /\ Batches' /\ NoGap' /\ SomeoneWakes'
         /\ MarkedWasWritten' /\ ResendIsExcused'
      BY <1>3 DEF SyncSendFails, FailedNot, Running, Batches, NoGap, DoneWith,
         Ids, SomeoneWakes, Awake, Pending, MarkedWasWritten, ResendIsExcused
    <2> QED
      BY <2>1, <2>2
  <1> QED
    BY <1>1, <1>2, <1>3

(* A batch ends.                                                                *)
LEMMA MarkStep ==
    ASSUME IInv, 
           SyncMark \/ SyncMarkFails
    PROVE  IInv'
  <1> USE DEF IInv, dbVars, agentVars, emitVars, persistVars, syncVars, ghostVars
  <1>1. CASE SyncMark
    <2>1. TypeOK'
      BY <1>1 DEF SyncMark, MarkedAlways, AfterBatch, BatchDone, TypeOK, Ids
    <2>2. Running' /\ Batches' /\ NoGap' /\ SomeoneWakes'
         /\ MarkedWasWritten' /\ ResendIsExcused'
      BY <1>1 DEF SyncMark, MarkedAlways, AfterBatch, BatchDone, Running,
         Batches, NoGap, DoneWith, Ids, SomeoneWakes, Awake, Pending,
         MarkedWasWritten, ResendIsExcused
    <2> QED
      BY <2>1, <2>2
  <1>2. CASE SyncMarkFails
    <2>1. TypeOK'
      BY <1>2 DEF SyncMarkFails, BatchDone, TypeOK, Ids
    <2>2. Running' /\ Batches' /\ NoGap' /\ SomeoneWakes'
         /\ MarkedWasWritten' /\ ResendIsExcused'
      BY <1>2 DEF SyncMarkFails, BatchDone, Running, Batches, NoGap, DoneWith,
         Ids, SomeoneWakes, Awake, Pending, MarkedWasWritten, ResendIsExcused
    <2> QED
      BY <2>1, <2>2
  <1> QED
    BY <1>1, <1>2

(* The process ends.                                                            *)
LEMMA ExitStep ==
    ASSUME IInv, Exit
    PROVE  IInv'
  <1> USE DEF IInv, dbVars, agentVars, emitVars, persistVars, syncVars, ghostVars
  <1>1. CASE Exit
    <2>1. TypeOK'
      <3>1. Ids' = Ids
        BY <1>1 DEF Exit, Ids
      <3>2. emit' \in [Logs -> {"new", "refused", "sent", "saved", "lost"}]
        BY <1>1 DEF Exit, TypeOK
      <3>3. /\ agent' = "down" /\ ctx' = "done" /\ link' = FALSE /\ connecting' = FALSE
            /\ logCh' = <<>> /\ persist' = "none" /\ entry' = None /\ logSyncCh' = FALSE
            /\ sync' = "none" /\ batch' = {} /\ full' = FALSE /\ syncedIDs' = {}
            /\ rows' = rows /\ synced' = synced /\ written' = written
            /\ direct' = direct /\ excused' = excused \cup syncedIDs
        BY <1>1 DEF Exit
      <3>4. logCh' \in Seq(Logs) /\ Len(logCh') <= logBufferSize
        BY <3>3, SizesAssumption DEF SizesAssumption
      <3>5. excused' \subseteq Ids
        BY <3>3 DEF TypeOK
      <3> HIDE <1>1
      <3> QED
        BY <3>1, <3>2, <3>3, <3>4, <3>5 DEF TypeOK
    <2>2. Running' /\ Batches' /\ NoGap' /\ SomeoneWakes'
         /\ MarkedWasWritten' /\ ResendIsExcused'
      BY <1>1 DEF Exit, Running, Batches, NoGap, DoneWith, Ids, SomeoneWakes,
         Awake, Pending, MarkedWasWritten, ResendIsExcused
    <2> QED
      BY <2>1, <2>2
  <1> QED
    BY <1>1

(* SaveLog of emitLog and of logPersistLoop: a row is appended.                  *)
LEMMA AppendStep ==
    ASSUME IInv, (\E l \in Logs : EmitLogSave(l)) \/ PersistSave
    PROVE  IInv'
  <1> USE DEF IInv, dbVars, agentVars, emitVars, persistVars, syncVars, ghostVars
  <1>1. PICK l \in Logs : rows' = Append(rows, l)
    BY DEF EmitLogSave, PersistSave, TypeOK, Running
  <1>2. /\ rows' \in Seq(Logs)
        /\ Len(rows) \in Nat
        /\ Ids' = Ids \cup {Len(rows) + 1}
        /\ Len(rows) + 1 \notin Ids
        /\ \A i \in Ids : rows'[i] = rows[i] /\ i < Len(rows) + 1
    BY <1>1, AppendRow DEF TypeOK
  <1>3. UNCHANGED <<synced, batch, syncedIDs, written, sync, full, link, connecting,
                    agent, logSyncCh, excused>>
    BY DEF EmitLogSave, PersistSave
  <1>4. TypeOK'
    <2>1. /\ emit' \in [Logs -> {"new", "refused", "sent", "saved", "lost"}]
          /\ logCh' = logCh /\ ctx' = ctx
          /\ persist' \in {"none", "loop", "save", "signal"}
          /\ entry' \in Logs \cup {None}
          /\ direct' \subseteq direct \cup {Len(rows) + 1}
      BY DEF EmitLogSave, PersistSave, TypeOK
    <2> QED
      BY <1>2, <1>3, <2>1 DEF TypeOK
  <1>5. Running'
    BY <1>3 DEF EmitLogSave, PersistSave, Running
  <1>6. Batches'
    BY <1>2, <1>3 DEF Batches, TypeOK
  <1>7. NoGap'
    <2>1. \A i \in Ids : DoneWith(i)' <=> DoneWith(i)
      BY <1>2, <1>3 DEF DoneWith
    <2>2. \A i \in synced \cup written \cup syncedIDs \cup batch, j \in Ids' :
             j < i => j \in Ids
      BY <1>2 DEF TypeOK, Ids
    <2> QED
      BY <1>3, <2>1, <2>2 DEF NoGap
  <1>8. SomeoneWakes'
    <2>1. CASE \E k \in Logs : EmitLogSave(k)
      <3>1. Pending' = Pending /\ persist' = persist
        BY <1>2, <1>3, <2>1 DEF EmitLogSave, Pending
      <3> QED
        BY <1>3, <3>1 DEF SomeoneWakes, Awake
    <2>2. CASE PersistSave
      BY <2>2 DEF PersistSave, SomeoneWakes, Awake
    <2> QED
      BY <2>1, <2>2
  <1>9. MarkedWasWritten' /\ ResendIsExcused'
    BY <1>2, <1>3 DEF MarkedWasWritten, ResendIsExcused, TypeOK
  <1> QED
    BY <1>4, <1>5, <1>6, <1>7, <1>8, <1>9

(* GetUnsyncedLogs: the batch is a beginning of the unsynced rows, all of them  *)
(* unless it is full.                                                           *)
LEMMA GetStep ==
    ASSUME IInv, SyncGet
    PROVE  IInv'
  <1> USE DEF IInv, dbVars, agentVars, emitVars, persistVars, syncVars, ghostVars
  <1>1. PICK b \in SUBSET Unsynced :
          /\ GetUnsyncedLogs(b)
          /\ batch' = b
          /\ full' = (Cardinality(b) = logSyncBatchSize)
          /\ sync' = IF b = {} THEN "wait" ELSE "send"
    BY DEF SyncGet
  <1>2. /\ sync = "get" /\ batch = {} /\ syncedIDs = {} /\ Ids' = Ids
        /\ UNCHANGED <<rows, synced, agent, ctx, link, connecting, emit, logCh, persist,
                       entry, logSyncCh, syncedIDs, written, excused, direct>>
    BY DEF SyncGet, Batches, Ids
  <1>3. /\ \A i \in b, j \in Unsynced : j < i => j \in b
        /\ ~full' => b = Unsynced
        /\ b = {} => Unsynced = {}
    <2>1. Cardinality({}) = 0
      BY FS_EmptySet
    <2> QED
      BY <1>1, <2>1, SizesAssumption DEF GetUnsyncedLogs, FirstRows, SizesAssumption
  <1>4. TypeOK'
    <2>1. full' \in BOOLEAN /\ batch' \subseteq Ids /\ sync' \in {"wait", "send"}
      BY <1>1 DEF Unsynced
    <2> QED
      BY <1>2, <2>1 DEF TypeOK
  <1>5. Running'
    BY <1>2 DEF Running
  <1>6. Batches'
    BY <1>1, <1>2 DEF Batches, Unsynced
  <1>7. NoGap'
    BY <1>1, <1>2, <1>3 DEF NoGap, DoneWith, Unsynced
  <1>8. SomeoneWakes'
    <2>1. ~full' \/ sync' = "wait" => Pending' = {}
      BY <1>1, <1>2, <1>3 DEF Pending, Unsynced
    <2>2. sync' # "partial"
      BY <1>1
    <2> QED
      BY <2>1, <2>2 DEF SomeoneWakes
  <1>9. MarkedWasWritten' /\ ResendIsExcused'
    BY <1>2 DEF MarkedWasWritten, ResendIsExcused
  <1> QED
    BY <1>4, <1>5, <1>6, <1>7, <1>8, <1>9

(* The strengthened invariant is inductive.                                     *)
LEMMA NextInv == IInv /\ [Next]_vars => IInv'
  <1> SUFFICES ASSUME IInv, [Next]_vars PROVE IInv'
    OBVIOUS
  <1>1. CASE UNCHANGED vars
    BY <1>1 DEF vars, dbVars, agentVars, emitVars, persistVars, syncVars, ghostVars,
       IInv, TypeOK, Ids, Running, Batches, NoGap, DoneWith, SomeoneWakes, Awake,
       Pending, MarkedWasWritten, ResendIsExcused
  <1>2. ASSUME NEW l \in Logs, emitLog(l) PROVE IInv'
    BY <1>2, EmitStep, AppendStep DEF emitLog
  <1>3. CASE logPersistLoop
    BY <1>3, PersistStep, AppendStep DEF logPersistLoop
  <1>4. CASE logSyncLoop
    BY <1>4, SyncStep, GetStep, BatchStep, MarkStep DEF logSyncLoop
  <1> QED
    BY <1>1, <1>2, <1>3, <1>4, AgentStep, ExitStep DEF Next

(* The strengthened invariant holds always, for every set of logs, buffer size, *)
(* batch size and content of the table (connection/manager.go:536-630).         *)
THEOREM InductiveInvariant == Spec => []IInv
  <1>1. Init => IInv
    BY InitInv
  <1>2. IInv /\ [Next]_vars => IInv'
    BY NextInv
  <1> QED
    BY <1>1, <1>2, PTL DEF Spec

(* Every variable keeps its type; logCh never holds more than its capacity.     *)
THEOREM TypeCorrect == Spec => []TypeOK
  <1>1. IInv => TypeOK
    BY DEF IInv
  <1> QED
    BY <1>1, InductiveInvariant, PTL

(* No row is marked synced that was not written to a connection, unless it      *)
(* cannot be encoded (syncUnsyncedLogs).                                        *)
THEOREM MarkedWasWrittenHolds == Spec => []MarkedWasWritten
  <1>1. IInv => MarkedWasWritten
    BY DEF IInv
  <1> QED
    BY <1>1, InductiveInvariant, PTL

(* A row is written twice only if a crash or a failing UPDATE came between its  *)
(* write and its mark (syncUnsyncedLogs).                                       *)
THEOREM ResendIsExcusedHolds == Spec => []ResendIsExcused
  <1>1. IInv => ResendIsExcused
    BY DEF IInv
  <1> QED
    BY <1>1, InductiveInvariant, PTL

(* The platform is sent the rows in the order of their ids, over lost           *)
(* connections, partial batches and restarts (GetUnsyncedLogs).                 *)
THEOREM InOrderHolds == Spec => []InOrder
  <1>1. IInv => InOrder
    <2> SUFFICES ASSUME IInv, NEW i \in written, NEW j \in 1..(i - 1)
                 PROVE  j \in written \/ rows[j] \in Unencodable
      BY DEF InOrder
    <2>1. j \in Ids /\ j < i
      BY DEF IInv, TypeOK, Ids
    <2> QED
      BY <2>1 DEF IInv, NoGap, DoneWith, MarkedWasWritten
  <1> QED
    BY <1>1, InductiveInvariant, PTL

(* No wake-up of logSyncLoop is lost, though logSyncCh holds one signal only    *)
(* (signalLogSync).                                                             *)
THEOREM NoLostWakeupHolds == Spec => []NoLostWakeup
  <1>1. IInv => NoLostWakeup
    BY DEF IInv, NoLostWakeup, SomeoneWakes, Awake, Pending, Batches
  <1> QED
    BY <1>1, InductiveInvariant, PTL

(* The steps that move no log leave Places as it is.                           *)
LEMMA PlacesQuiet ==
    ASSUME Places, UNCHANGED <<rows, emit, logCh, entry>>,
           entry # None => persist' = persist
    PROVE  Places'
  BY DEF Places, InRows, InQueue, Ids

(* A log that is saved gets a row of its own.                                  *)
LEMMA PlacesAppend ==
    ASSUME IInv, Places, NEW l \in Logs, rows' = Append(rows, l), ~InRows(l)
    PROVE  /\ \A i, j \in Ids' : rows'[i] = rows'[j] => i = j
           /\ \A k : InRows(k)' <=> InRows(k) \/ k = l
  <1>1. /\ Ids' = Ids \cup {Len(rows) + 1} /\ Len(rows) + 1 \notin Ids
        /\ \A i \in Ids : rows'[i] = rows[i]
        /\ rows'[Len(rows) + 1] = l
    <2>1. rows \in Seq(Logs)
      BY DEF IInv, TypeOK
    <2>2. rows'[Len(rows) + 1] = l
      BY <2>1
    <2> QED
      BY <2>1, <2>2, AppendRow
  <1>2. \A i, j \in Ids' : rows'[i] = rows'[j] => i = j
    <2>1. \A i \in Ids : rows[i] # l
      BY DEF InRows
    <2>2. \A i, j \in Ids : rows[i] = rows[j] => i = j
      BY DEF Places
    <2> SUFFICES ASSUME NEW i \in Ids', NEW j \in Ids', rows'[i] = rows'[j] PROVE i = j
      OBVIOUS
    <2>3. CASE i \in Ids /\ j \in Ids
      BY <1>1, <2>2, <2>3
    <2>4. CASE i \notin Ids \/ j \notin Ids
      BY <1>1, <2>1, <2>4
    <2> QED
      BY <2>3, <2>4
  <1>3. \A k : InRows(k)' <=> InRows(k) \/ k = l
    <2>1. \A k : InRows(k)' <=> \E i \in Ids' : rows'[i] = k
      BY DEF InRows
    <2>2. \A k : InRows(k) <=> \E i \in Ids : rows[i] = k
      BY DEF InRows
    <2> QED
      BY <1>1, <2>1, <2>2
  <1> QED
    BY <1>2, <1>3

(* Every step keeps each accepted log in one place.                            *)
LEMMA PlacesNext == IInv /\ Places /\ [Next]_vars => Places'
  <1> SUFFICES ASSUME IInv, Places, [Next]_vars PROVE Places'
    OBVIOUS
  <1>t. /\ emit \in [Logs -> {"new", "refused", "sent", "saved", "lost"}]
        /\ rows \in Seq(Logs) /\ logCh \in Seq(Logs)
        /\ entry \in Logs \cup {None} /\ None \notin Logs
        /\ persist = "save" => entry \in Logs
    BY LogsAssumption DEF IInv, TypeOK, Running
  <1> USE DEF dbVars, agentVars, emitVars, persistVars, syncVars, ghostVars
  <1>1. CASE Start \/ ConnectOnceSignal \/ ConnectSignal \/ LinkLost \/ LinkInstalled
             \/ Shutdown
    BY <1>1, PlacesQuiet
       DEF Start, ConnectOnceSignal, ConnectSignal, LinkLost, LinkInstalled, Shutdown
  <1>2. CASE StartWorkers
    BY <1>2, PlacesQuiet DEF StartWorkers, IInv, Running, Places
  <1>3. CASE Exit
    <2>1. /\ rows' = rows /\ logCh' = <<>> /\ entry' = None /\ Ids' = Ids
          /\ \A l \in Logs : emit'[l] \in {"sent", "saved"} <=>
                emit[l] \in {"sent", "saved"} /\ entry # l /\ ~InQueue(l)
      BY <1>3, <1>t DEF Exit, InQueue, Ids
    <2>2. \A l : InRows(l)' <=> InRows(l)
      BY <2>1 DEF InRows
    <2>3. \A l : ~InQueue(l)'
      BY <2>1 DEF InQueue
    <2> QED
      BY <1>t, <2>1, <2>2, <2>3 DEF Places
  <1>4. ASSUME NEW l \in Logs, SendLog(l) PROVE Places'
    <2>1. /\ emit[l] = "new" /\ emit' = [emit EXCEPT ![l] = "sent"]
          /\ logCh' = Append(logCh, l)
          /\ UNCHANGED <<rows, entry, persist>>
      BY <1>4 DEF SendLog, Queued
    <2>2. ~InRows(l) /\ ~InQueue(l) /\ entry # l
      BY <2>1 DEF Places
    <2>3. /\ \A i, j \in DOMAIN logCh' : logCh'[i] = logCh'[j] => i = j
          /\ \A k : InQueue(k)' <=> InQueue(k) \/ k = l
      BY <1>t, <2>1, <2>2 DEF Places, InQueue
    <2>4. \A k : InRows(k)' <=> InRows(k)
      BY <2>1 DEF InRows, Ids
    <2> QED
      BY <1>t, <2>1, <2>2, <2>3, <2>4 DEF Places, Ids
  <1>5. ASSUME NEW l \in Logs, SendLogRefused(l) \/ EmitLogSaveFails(l) PROVE Places'
    <2>1. /\ emit[l] \notin {"sent", "saved"}
          /\ \A k \in Logs : emit'[k] \in {"sent", "saved"} <=> emit[k] \in {"sent", "saved"}
          /\ UNCHANGED <<rows, logCh, entry, persist>>
      BY <1>5, <1>t DEF SendLogRefused, EmitLogSaveFails
    <2> QED
      BY <2>1 DEF Places, InRows, InQueue, Ids
  <1>6. ASSUME NEW l \in Logs, EmitLogSave(l) PROVE Places'
    <2>1. /\ emit[l] = "refused" /\ emit' = [emit EXCEPT ![l] = "saved"]
          /\ rows' = Append(rows, l)
          /\ UNCHANGED <<logCh, entry, persist>>
      BY <1>6 DEF EmitLogSave
    <2>2. ~InRows(l) /\ ~InQueue(l) /\ entry # l
      BY <2>1 DEF Places
    <2>3. /\ \A i, j \in Ids' : rows'[i] = rows'[j] => i = j
          /\ \A k : InRows(k)' <=> InRows(k) \/ k = l
      BY <2>1, <2>2, PlacesAppend
    <2>4. \A k : InQueue(k)' <=> InQueue(k)
      BY <2>1 DEF InQueue
    <2> QED
      BY <1>t, <2>1, <2>2, <2>3, <2>4 DEF Places
  <1>7. CASE PersistTake
    <2>1. /\ persist = "loop" /\ persist' = "save" /\ logCh # <<>>
          /\ entry' = Head(logCh) /\ logCh' = Tail(logCh)
          /\ UNCHANGED <<rows, emit>>
      BY <1>7 DEF PersistTake
    <2>2. PICK h \in Logs : h = Head(logCh) /\ h = logCh[1] /\ h = entry'
      BY <1>t, <2>1
    <2>6. entry = None
      BY <1>t, <2>1 DEF Places
    <2>3. /\ Len(logCh) \in Nat /\ Len(logCh) > 0 /\ DOMAIN logCh = 1..Len(logCh)
          /\ DOMAIN logCh' = 1..(Len(logCh) - 1)
          /\ \A i \in DOMAIN logCh' : i + 1 \in DOMAIN logCh /\ logCh'[i] = logCh[i + 1]
      BY <1>t, <2>1
    <2>4. /\ \A i, j \in DOMAIN logCh' : logCh'[i] = logCh'[j] => i = j
          /\ ~InQueue(h)'
          /\ \A k : InQueue(k) <=> InQueue(k)' \/ k = h
      <3>1. \A i, j \in DOMAIN logCh' : logCh'[i] = logCh'[j] => i = j
        BY <2>3 DEF Places
      <3>2. ~InQueue(h)'
        BY <2>2, <2>3 DEF Places, InQueue
      <3>3. \A k : InQueue(k)' => InQueue(k)
        BY <2>3 DEF InQueue
      <3>4. \A k : InQueue(k) => InQueue(k)' \/ k = h
        <4> SUFFICES ASSUME NEW k, NEW i \in DOMAIN logCh, logCh[i] = k, k # h
                     PROVE  InQueue(k)'
          BY DEF InQueue
        <4>1. i - 1 \in DOMAIN logCh' /\ logCh'[i - 1] = k
          BY <2>2, <2>3
        <4> QED
          BY <4>1 DEF InQueue
      <3>5. InQueue(h)
        BY <2>2, <2>3 DEF InQueue
      <3> QED
        BY <3>1, <3>2, <3>3, <3>4, <3>5
    <2>5. Ids' = Ids /\ \A k : InRows(k)' <=> InRows(k)
      BY <2>1 DEF InRows, Ids
    <2> QED
      BY <1>t, <2>1, <2>2, <2>6, <2>4, <2>5 DEF Places
  <1>8. CASE PersistSave
    <2>1. /\ persist = "save" /\ entry \in Logs /\ entry' = None
          /\ rows' = Append(rows, entry)
          /\ UNCHANGED <<logCh, emit>>
      BY <1>8, <1>t DEF PersistSave
    <2>2. ~InRows(entry) /\ ~InQueue(entry)
      BY <2>1 DEF Places
    <2>3. /\ \A i, j \in Ids' : rows'[i] = rows'[j] => i = j
          /\ \A k : InRows(k)' <=> InRows(k) \/ k = entry
      BY <2>1, <2>2, PlacesAppend
    <2>4. \A k : InQueue(k)' <=> InQueue(k)
      BY <2>1 DEF InQueue
    <2> QED
      BY <1>t, <2>1, <2>2, <2>3, <2>4 DEF Places
  <1>9. CASE PersistSaveFails
    <2>1. /\ entry \in Logs /\ entry' = None
          /\ emit' = [emit EXCEPT ![entry] = "lost"]
          /\ UNCHANGED <<rows, logCh>>
      BY <1>9, <1>t DEF PersistSaveFails
    <2>2. /\ Ids' = Ids
          /\ \A k : (InRows(k)' <=> InRows(k)) /\ (InQueue(k)' <=> InQueue(k))
      BY <2>1 DEF InRows, InQueue, Ids
    <2> QED
      BY <1>t, <2>1, <2>2 DEF Places
  <1>10. CASE PersistSignal \/ PersistCancelled
    BY <1>10, PlacesQuiet DEF PersistSignal, PersistCancelled, Places
  <1>11. CASE logSyncLoop
    <2>1. UNCHANGED <<rows, emit, logCh, entry, persist>>
      BY <1>11 DEF logSyncLoop, SyncWake, SyncCancelled, SyncCheck, SyncGet, SyncGetFails,
         SyncSkip, SyncSend, SyncSendFails, SyncMark, SyncMarkFails
    <2> QED
      BY <2>1, PlacesQuiet
  <1>12. CASE UNCHANGED vars
    BY <1>12, PlacesQuiet DEF vars
  <1> QED
    BY <1>1, <1>2, <1>3, <1>4, <1>5, <1>6, <1>7, <1>8, <1>9, <1>10, <1>11, <1>12
       DEF Next, emitLog, logPersistLoop

(* The rows a former version left are accepted logs, each in its row.          *)
LEMMA PlacesInit == Init => Places
  <1> SUFFICES ASSUME Init PROVE Places
    OBVIOUS
  <1> USE LogsAssumption, FoundAssumption DEF Init
  <1>1. Ids = DOMAIN Found /\ rows = Found
    BY DEF Ids
  <1>2. \A l : ~InQueue(l)
    BY DEF InQueue
  <1>3. \A l \in Logs : InRows(l) <=> l \in {Found[i] : i \in DOMAIN Found}
    BY <1>1 DEF InRows
  <1> QED
    BY <1>1, <1>2, <1>3 DEF Places

(* How many indices of a sequence without repetition hold l: one or none.      *)
LEMMA OccursOnce ==
    ASSUME NEW S, NEW f, NEW l, \A i, j \in S : f[i] = f[j] => i = j
    PROVE  Cardinality({i \in S : f[i] = l}) = IF \E i \in S : f[i] = l THEN 1 ELSE 0
  <1>1. ASSUME NEW i \in S, f[i] = l PROVE Cardinality({j \in S : f[j] = l}) = 1
    <2>1. {j \in S : f[j] = l} = {i}
      BY <1>1
    <2> QED
      BY <2>1, FS_Singleton
  <1>2. CASE ~\E i \in S : f[i] = l
    <2>1. {j \in S : f[j] = l} = {}
      BY <1>2
    <2> QED
      BY <1>2, <2>1, FS_EmptySet
  <1> QED
    BY <1>1, <1>2

(* A log the agent has accepted is in exactly one place until its process ends: *)
(* never in a row and in the queue, or in two rows (emitLog, logPersistLoop).  *)
THEOREM KeptOnceHolds == Spec => []KeptOnce
  <1>1. IInv /\ Places => KeptOnce
    <2> SUFFICES ASSUME Places, NEW l \in Logs, emit[l] \in {"sent", "saved"}
                 PROVE  Cardinality({i \in Ids : rows[i] = l})
                          + Cardinality({i \in DOMAIN logCh : logCh[i] = l})
                          + (IF entry = l THEN 1 ELSE 0) = 1
      BY DEF KeptOnce
    <2>1. Cardinality({i \in Ids : rows[i] = l}) = IF InRows(l) THEN 1 ELSE 0
      <3>1. \A i, j \in Ids : rows[i] = rows[j] => i = j
        BY DEF Places
      <3>2. Cardinality({i \in Ids : rows[i] = l}) =
               IF \E i \in Ids : rows[i] = l THEN 1 ELSE 0
        BY ONLY <3>1, OccursOnce
      <3> QED
        BY <3>2 DEF InRows
    <2>2. Cardinality({i \in DOMAIN logCh : logCh[i] = l}) = IF InQueue(l) THEN 1 ELSE 0
      <3>1. \A i, j \in DOMAIN logCh : logCh[i] = logCh[j] => i = j
        BY DEF Places
      <3>2. Cardinality({i \in DOMAIN logCh : logCh[i] = l}) =
               IF \E i \in DOMAIN logCh : logCh[i] = l THEN 1 ELSE 0
        BY ONLY <3>1, OccursOnce
      <3> QED
        BY <3>2 DEF InQueue
    <2> QED
      BY <2>1, <2>2 DEF Places
  <1> QED
    BY <1>1, PlacesInit, PlacesNext, InductiveInvariant, PTL DEF Spec
===============================================================================
