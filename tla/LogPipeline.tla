----------------------------- MODULE LogPipeline ------------------------------
(* The way of a log from a bot's output into the agent's database and from     *)
(* there to the platform: emitLog (internal/process/manager.go), SendLog,      *)
(* logPersistLoop and logSyncLoop (internal/connection/manager.go) and the     *)
(* logs table (internal/storage/sqlite.go).                                    *)
(*                                                                             *)
(* The database outlives the agent's process; the channels and the goroutines  *)
(* do not.  The connection is reduced to what the pipeline sees of it, see     *)
(* ConnManager for how it is lost and made again.                              *)
EXTENDS Naturals, Sequences, FiniteSets

CONSTANTS
    Logs,               \* log lines; each is emitted once
    Found,              \* the rows a former version left in the table
    Unencodable,        \* those of them whose data is not JSON: the agent stores
                        \* none such, but encodeStoredLog has a branch for them
    logBufferSize,      \* capacity of logCh
    logSyncBatchSize,   \* rows read by one GetUnsyncedLogs
    StorageFails,       \* may an SQL statement fail?
    None

ASSUME LogsAssumption == None \notin Logs
ASSUME FoundAssumption ==
    /\ Found \in Seq(Logs) /\ Unencodable \subseteq {Found[i] : i \in DOMAIN Found}
    /\ \A i, j \in DOMAIN Found : Found[i] = Found[j] => i = j
ASSUME SizesAssumption ==
    logBufferSize \in Nat \ {0} /\ logSyncBatchSize \in Nat \ {0}
ASSUME StorageAssumption == StorageFails \in BOOLEAN

VARIABLES
    (* the database *)
    rows,       \* table logs: the log of each id, in the order of the ids
    synced,     \* ids of the rows with synced = 1
    (* the agent's process *)
    agent,      \* "down", "connect", "workers", "signal" (in Connect) or "up"
    ctx,        \* "live" or "done"
    link,       \* is there a connection?
    connecting, \* has connectOnce installed one and not yet called signalLogSync?
    (* the goroutines that read the bots' output *)
    emit,       \* "new", "refused" by SendLog, "sent" to logCh, "saved" or "lost"
    logCh,
    (* logPersistLoop *)
    persist, entry,
    (* logSyncLoop *)
    logSyncCh,  \* is there a signal in the channel?
    sync,
    batch,      \* the ids of entries that are still to be handled
    full,       \* len(entries) = logSyncBatchSize
    syncedIDs,
    (* what has become of the rows, for the properties only *)
    written,    \* ids written to a connection
    excused,    \* ids whose mark was lost in a crash or refused by the database
    direct      \* ids saved by emitLog itself

dbVars      == <<rows, synced>>
agentVars   == <<agent, ctx, link, connecting>>
emitVars    == <<emit, logCh>>
persistVars == <<persist, entry>>
syncVars    == <<sync, batch, full, syncedIDs>>
ghostVars   == <<written, excused, direct>>
vars == <<dbVars, agentVars, emitVars, persistVars, logSyncCh, syncVars, ghostVars>>

-------------------------------------------------------------------------------
Ids == 1..Len(rows)

TypeOK ==
    /\ rows \in Seq(Logs)
    /\ synced \subseteq Ids
    /\ agent \in {"down", "connect", "workers", "signal", "up"}
    /\ ctx \in {"live", "done"}
    /\ link \in BOOLEAN /\ connecting \in BOOLEAN
    /\ emit \in [Logs -> {"new", "refused", "sent", "saved", "lost"}]
    /\ logCh \in Seq(Logs) /\ Len(logCh) <= logBufferSize
    /\ persist \in {"none", "loop", "save", "signal"}
    /\ entry \in Logs \cup {None}
    /\ logSyncCh \in BOOLEAN
    /\ sync \in {"none", "wait", "check", "get", "send", "partial"}
    /\ batch \subseteq Ids
    /\ full \in BOOLEAN
    /\ syncedIDs \subseteq Ids
    /\ written \subseteq Ids /\ excused \subseteq Ids /\ direct \subseteq Ids

Init ==
    /\ rows = Found /\ synced = {}
    /\ agent = "down" /\ ctx = "done" /\ link = FALSE /\ connecting = FALSE
    /\ emit = [l \in Logs |->
                  IF l \in {Found[i] : i \in DOMAIN Found} THEN "saved" ELSE "new"]
    /\ logCh = <<>>
    /\ persist = "none" /\ entry = None
    /\ logSyncCh = FALSE
    /\ sync = "none" /\ batch = {} /\ full = FALSE /\ syncedIDs = {}
    /\ written = {} /\ excused = {} /\ direct = {}

-------------------------------------------------------------------------------
(* The agent's process and its connection                                      *)

(* Connect has made the first connection; its read pump may create bots.       *)
Start ==
    /\ agent = "down"
    /\ agent' = "connect" /\ ctx' = "live" /\ link' = TRUE /\ connecting' = TRUE
    /\ UNCHANGED <<dbVars, emitVars, persistVars, logSyncCh, syncVars, ghostVars>>

(* Seeded fault: a new connection does not wake the sync.                      *)
signalNobody == logSyncCh
signalLogSync == TRUE

(* The last step of connectOnce.                                               *)
ConnectOnceSignal ==
    /\ connecting
    /\ connecting' = FALSE /\ logSyncCh' = signalLogSync
    /\ agent' = IF agent = "connect" THEN "workers" ELSE agent
    /\ UNCHANGED <<dbVars, ctx, link, emitVars, persistVars, syncVars, ghostVars>>

StartWorkers ==
    /\ agent = "workers"
    /\ agent' = "signal" /\ persist' = "loop" /\ sync' = "wait"
    /\ UNCHANGED <<dbVars, ctx, link, connecting, emitVars, entry, logSyncCh, batch, full,
                   syncedIDs, ghostVars>>

ConnectSignal ==
    /\ agent = "signal"
    /\ agent' = "up" /\ logSyncCh' = TRUE
    /\ UNCHANGED <<dbVars, ctx, link, connecting, emitVars, persistVars, syncVars, ghostVars>>

(* handleDisconnect, called by a pump or by the sync; Close.                   *)
LinkLost ==
    /\ link
    /\ link' = FALSE
    /\ UNCHANGED <<dbVars, agent, ctx, connecting, emitVars, persistVars, logSyncCh,
                   syncVars, ghostVars>>

(* The supervisor's connectOnce.                                               *)
LinkInstalled ==
    /\ agent \in {"signal", "up"} /\ ctx = "live" /\ ~link /\ ~connecting
    /\ link' = TRUE /\ connecting' = TRUE
    /\ UNCHANGED <<dbVars, agent, ctx, emitVars, persistVars, logSyncCh, syncVars,
                   ghostVars>>

Shutdown ==
    /\ agent # "down" /\ ctx = "live"
    /\ ctx' = "done"
    /\ UNCHANGED <<dbVars, agent, link, connecting, emitVars, persistVars, logSyncCh,
                   syncVars, ghostVars>>

(* The process ends, crashed or shut down.                                     *)
Exit ==
    /\ agent # "down"
    /\ agent' = "down" /\ ctx' = "done" /\ link' = FALSE /\ connecting' = FALSE
    /\ emit' = [l \in Logs |->
                   IF emit[l] = "refused" \/ l \in {entry} \cup {logCh[i] : i \in DOMAIN logCh}
                   THEN "lost" ELSE emit[l]]
    /\ logCh' = <<>>
    /\ persist' = "none" /\ entry' = None
    /\ logSyncCh' = FALSE
    /\ sync' = "none" /\ batch' = {} /\ full' = FALSE /\ syncedIDs' = {}
    /\ excused' = excused \cup syncedIDs
    /\ UNCHANGED <<dbVars, written, direct>>

-------------------------------------------------------------------------------
(* emitLog, called by the goroutine that reads the bot's output                *)

(* Seeded faults: room for one more than there is; a log that was queued, but  *)
(* too late, is reported as refused.                                           *)
HasRoomForOneMore == Len(logCh) <= logBufferSize
HasRoom == Len(logCh) < logBufferSize
QueuedTooLate == IF ctx = "done" THEN "refused" ELSE "sent"
Queued == "sent"

(* A select that finds the context done may still prefer the channel.          *)
SendLog(l) ==
    /\ agent # "down" /\ emit[l] = "new"
    /\ HasRoom
    /\ logCh' = Append(logCh, l)
    /\ emit' = [emit EXCEPT ![l] = Queued]
    /\ UNCHANGED <<dbVars, agentVars, persistVars, logSyncCh, syncVars, ghostVars>>

(* The queue is full, or the agent shuts down.                                 *)
SendLogRefused(l) ==
    /\ agent # "down" /\ emit[l] = "new"
    /\ Len(logCh) = logBufferSize \/ ctx = "done"
    /\ emit' = [emit EXCEPT ![l] = "refused"]
    /\ UNCHANGED <<dbVars, agentVars, logCh, persistVars, logSyncCh, syncVars, ghostVars>>

(* SaveLog, in its place: nobody signals logSyncCh.                            *)
EmitLogSave(l) ==
    /\ emit[l] = "refused"
    /\ rows' = Append(rows, l)
    /\ direct' = direct \cup {Len(rows) + 1}
    /\ emit' = [emit EXCEPT ![l] = "saved"]
    /\ UNCHANGED <<synced, agentVars, logCh, persistVars, logSyncCh, syncVars, written,
                   excused>>

EmitLogSaveFails(l) ==
    /\ StorageFails /\ emit[l] = "refused"
    /\ emit' = [emit EXCEPT ![l] = "lost"]
    /\ UNCHANGED <<dbVars, agentVars, logCh, persistVars, logSyncCh, syncVars, ghostVars>>

emitLog(l) ==
    SendLog(l) \/ SendLogRefused(l) \/ EmitLogSave(l) \/ EmitLogSaveFails(l)

-------------------------------------------------------------------------------
(* logPersistLoop                                                              *)

PersistTake ==
    /\ persist = "loop" /\ logCh # <<>>
    /\ entry' = Head(logCh) /\ logCh' = Tail(logCh)
    /\ persist' = "save"
    /\ UNCHANGED <<dbVars, agentVars, emit, logSyncCh, syncVars, ghostVars>>

PersistSave ==
    /\ persist = "save"
    /\ rows' = Append(rows, entry)
    /\ entry' = None /\ persist' = "signal"
    /\ UNCHANGED <<synced, agentVars, emitVars, logSyncCh, syncVars, ghostVars>>

PersistSaveFails ==
    /\ StorageFails /\ persist = "save"
    /\ emit' = [emit EXCEPT ![entry] = "lost"]
    /\ entry' = None /\ persist' = "loop"
    /\ UNCHANGED <<dbVars, agentVars, logCh, logSyncCh, syncVars, ghostVars>>

PersistSignal ==
    /\ persist = "signal"
    /\ logSyncCh' = TRUE /\ persist' = "loop"
    /\ UNCHANGED <<dbVars, agentVars, emitVars, entry, syncVars, ghostVars>>

PersistCancelled ==
    /\ persist = "loop" /\ ctx = "done"
    /\ persist' = "none"
    /\ UNCHANGED <<dbVars, agentVars, emitVars, entry, logSyncCh, syncVars, ghostVars>>

logPersistLoop ==
    \/ PersistTake \/ PersistSave \/ PersistSaveFails \/ PersistSignal
    \/ PersistCancelled

-------------------------------------------------------------------------------
(* logSyncLoop                                                                 *)

SyncWake ==
    /\ sync = "wait" /\ logSyncCh
    /\ logSyncCh' = FALSE /\ sync' = "check"
    /\ UNCHANGED <<dbVars, agentVars, emitVars, persistVars, batch, full, syncedIDs,
                   ghostVars>>

SyncCancelled ==
    /\ sync = "wait" /\ ctx = "done"
    /\ sync' = "none"
    /\ UNCHANGED <<dbVars, agentVars, emitVars, persistVars, logSyncCh, batch, full,
                   syncedIDs, ghostVars>>

(* isConnected                                                                 *)
SyncCheck ==
    /\ sync = "check"
    /\ sync' = IF link THEN "get" ELSE "wait"
    /\ UNCHANGED <<dbVars, agentVars, emitVars, persistVars, logSyncCh, batch, full,
                   syncedIDs, ghostVars>>

(* The first rows with synced = 0, as many as fit.  Seeded fault: the last.    *)
Unsynced == Ids \ synced
LastRows(b) == \A i \in b, j \in Unsynced : i < j => j \in b
FirstRows(b) == \A i \in b, j \in Unsynced : j < i => j \in b

GetUnsyncedLogs(b) ==
    /\ FirstRows(b)
    /\ Cardinality(b) = logSyncBatchSize \/ (b = Unsynced /\ Cardinality(b) < logSyncBatchSize)

SyncGet ==
    /\ sync = "get"
    /\ \E b \in SUBSET Unsynced :
          /\ GetUnsyncedLogs(b)
          /\ batch' = b
          /\ full' = (Cardinality(b) = logSyncBatchSize)
          /\ sync' = IF b = {} THEN "wait" ELSE "send"
    /\ UNCHANGED <<dbVars, agentVars, emitVars, persistVars, logSyncCh, syncedIDs,
                   ghostVars>>

SyncGetFails ==
    /\ StorageFails /\ sync = "get"
    /\ sync' = "wait"
    /\ UNCHANGED <<dbVars, agentVars, emitVars, persistVars, logSyncCh, batch, full,
                   syncedIDs, ghostVars>>

(* The entry whose turn it is.                                                 *)
Entry(i) == i \in batch /\ \A j \in batch : i <= j

SyncSkip(i) ==
    /\ sync = "send" /\ Entry(i) /\ rows[i] \in Unencodable
    /\ syncedIDs' = syncedIDs \cup {i} /\ batch' = batch \ {i}
    /\ UNCHANGED <<dbVars, agentVars, emitVars, persistVars, logSyncCh, sync, full,
                   ghostVars>>

(* writeDirect returns nil: the row is written, received or not.  Between its   *)
(* taking the connection and its write the link may go or come back; as the    *)
(* write looks at the connection it took, and nobody else at what it writes,   *)
(* that is no different from the link changing after the write.                *)
SyncSend(i) ==
    /\ sync = "send" /\ Entry(i) /\ rows[i] \notin Unencodable /\ link
    /\ written' = written \cup {i}
    /\ syncedIDs' = syncedIDs \cup {i} /\ batch' = batch \ {i}
    /\ UNCHANGED <<dbVars, agentVars, emitVars, persistVars, logSyncCh, sync, full,
                   excused, direct>>

(* It returns an error, and calls handleDisconnect if the write failed.        *)
(* Seeded fault: the row that was not written is marked with the others.       *)
FailedToo(i) == syncedIDs \cup {i}
FailedNot(i) == syncedIDs

SyncSendFails(i) ==
    /\ sync = "send" /\ Entry(i) /\ rows[i] \notin Unencodable
    /\ link' = FALSE
    /\ batch' = {} /\ sync' = "partial" /\ syncedIDs' = FailedNot(i)
    /\ UNCHANGED <<dbVars, agent, ctx, connecting, emitVars, persistVars, logSyncCh, full,
                   ghostVars>>

(* Where a full batch goes on.  Seeded fault: one batch for each signal.       *)
AfterBatchLazy == "wait"
AfterBatch == IF full THEN "check" ELSE "wait"

(* MarkLogsSynced of a whole batch, or of what was sent before a failure.      *)
(* Seeded fault: what was sent before a failure is not marked.                 *)
MarkedWhenWhole == IF sync = "partial" THEN {} ELSE syncedIDs
MarkedAlways == syncedIDs

BatchDone == sync = "partial" \/ (sync = "send" /\ batch = {})

SyncMark ==
    /\ BatchDone
    /\ synced' = synced \cup MarkedAlways
    /\ sync' = IF sync = "partial" THEN "wait" ELSE AfterBatch
    /\ syncedIDs' = {} /\ full' = FALSE
    /\ UNCHANGED <<rows, agentVars, emitVars, persistVars, logSyncCh, batch, ghostVars>>

SyncMarkFails ==
    /\ StorageFails
    /\ BatchDone
    /\ sync' = "wait" /\ syncedIDs' = {} /\ full' = FALSE
    /\ excused' = excused \cup syncedIDs
    /\ UNCHANGED <<dbVars, agentVars, emitVars, persistVars, logSyncCh, batch, written,
                   direct>>

logSyncLoop ==
    \/ SyncWake \/ SyncCancelled \/ SyncCheck \/ SyncGet \/ SyncGetFails
    \/ \E i \in Ids : SyncSkip(i) \/ SyncSend(i) \/ SyncSendFails(i)
    \/ SyncMark \/ SyncMarkFails

-------------------------------------------------------------------------------
Next ==
    \/ Start \/ ConnectOnceSignal \/ StartWorkers \/ ConnectSignal
    \/ LinkLost \/ LinkInstalled \/ Shutdown \/ Exit
    \/ \E l \in Logs : emitLog(l)
    \/ logPersistLoop \/ logSyncLoop

Spec == Init /\ [][Next]_vars

(* The agent's goroutines go on.                                               *)
FairSpec ==
    /\ Spec
    /\ WF_vars(ConnectOnceSignal \/ StartWorkers \/ ConnectSignal)
    /\ \A l \in Logs : WF_vars(EmitLogSave(l))
    /\ WF_vars(logPersistLoop) /\ WF_vars(logSyncLoop)

-------------------------------------------------------------------------------
(* Properties                                                                  *)

(* No row is marked that was not written to a connection, unless it cannot be  *)
(* encoded: a write that fails in the middle of a batch marks only the rows    *)
(* before it (manager.go:612-617).                                             *)
MarkedWasWritten ==
    \A i \in synced : i \in written \/ rows[i] \in Unencodable

(* A row is written again only after a crash or a failing UPDATE came between  *)
(* the write and the mark: every other row that was written is marked, or is   *)
(* in the hands of syncUnsyncedLogs (manager.go:603-624).                      *)
ResendIsExcused == written \subseteq synced \cup syncedIDs \cup excused

(* The platform is sent the rows in the order they were saved: when a row has  *)
(* been written or marked, so have all rows before it that can be encoded.     *)
InOrder ==
    \A i \in written : \A j \in 1..(i - 1) : j \in written \/ rows[j] \in Unencodable

(* A log the agent has accepted is in exactly one place, the queue, the hands  *)
(* of logPersistLoop or one row of the table, until the agent's process ends;  *)
(* queue and fall-back never both take it (process manager.go:404-421).        *)
KeptOnce ==
    \A l \in Logs : emit[l] \in {"sent", "saved"} =>
        Cardinality({i \in Ids : rows[i] = l}) + Cardinality({i \in DOMAIN logCh : logCh[i] = l})
            + (IF entry = l THEN 1 ELSE 0) = 1

(* No wake-up is lost: when there is a connection and a row that               *)
(* logPersistLoop saved waits to be synced, the sync is busy or somebody has   *)
(* signalled it or is about to, though logSyncCh holds one signal only         *)
(* (manager.go:752-757).  Without failing statements; a row emitLog saved      *)
(* itself waits for the next signal.                                           *)
NoLostWakeup ==
    link /\ agent # "down" /\ sync # "none" /\ ~StorageFails /\ Ids \ (synced \cup direct) # {} =>
        logSyncCh \/ sync # "wait" \/ persist = "signal" \/ connecting \/ agent = "signal"

(* The inductive strengthening of the safety properties.                       *)

(* Goroutines run, and the connection is there, only while the process runs;   *)
(* what logPersistLoop saves is a log.                                         *)
Running ==
    /\ persist = "save" => entry \in Logs
    /\ agent = "down" => ~link /\ ~connecting /\ persist = "none" /\ sync = "none"
    /\ agent \in {"connect", "workers"} => persist = "none" /\ sync = "none"

(* What syncUnsyncedLogs holds: rows not marked yet, those to be handled after *)
(* those it has handled, and nothing outside a batch.                          *)
Batches ==
    /\ (batch \cup syncedIDs) \cap synced = {} /\ batch \cap syncedIDs = {}
    /\ sync # "send" => batch = {}
    /\ sync \notin {"send", "partial"} => syncedIDs = {}
    /\ \A i \in syncedIDs : i \in written \/ rows[i] \in Unencodable

(* The rows before one that was written or marked are done with; those before  *)
(* one in the batch are done with or in the batch.                             *)
DoneWith(j) == j \in synced \cup written \/ rows[j] \in Unencodable
NoGap ==
    /\ \A i \in synced \cup written \cup syncedIDs, j \in Ids : j < i => DoneWith(j)
    /\ \A i \in batch, j \in Ids : j < i => DoneWith(j) \/ j \in batch

(* A row of logPersistLoop that a busy sync will not come to has a signal.     *)
Pending == Ids \ (synced \cup direct \cup batch \cup syncedIDs)
Awake == logSyncCh \/ persist = "signal" \/ connecting \/ agent = "signal"
SomeoneWakes ==
    /\ ~StorageFails /\ link /\ Pending # {}
    /\ sync \in {"wait", "partial"} \/ (sync = "send" /\ ~full)
    => Awake

IInv == /\ TypeOK /\ Running /\ Batches /\ NoGap /\ SomeoneWakes
        /\ MarkedWasWritten /\ ResendIsExcused

(* Where a log may be: no place holds it twice, no two places share it, and it *)
(* is in one of them just when the agent has accepted it.                      *)
InRows(l) == \E i \in Ids : rows[i] = l
InQueue(l) == \E i \in DOMAIN logCh : logCh[i] = l
Places ==
    /\ \A i, j \in Ids : rows[i] = rows[j] => i = j
    /\ \A i, j \in DOMAIN logCh : logCh[i] = logCh[j] => i = j
    /\ \A l \in Logs :
          /\ ~(InRows(l) /\ InQueue(l))
          /\ entry = l => ~InRows(l) /\ ~InQueue(l)
          /\ emit[l] \in {"sent", "saved"} <=> InRows(l) \/ InQueue(l) \/ entry = l
    /\ entry # None => persist = "save"

(* As long as the agent runs with a lasting connection, every log that         *)
(* logPersistLoop saved is synced.                                             *)
EventuallySynced ==
    <>[](link /\ ctx = "live") =>
        \A l \in Logs : emit[l] = "sent" ~> \/ \E i \in synced : rows[i] = l
                                           \/ emit[l] = "lost"
===============================================================================
