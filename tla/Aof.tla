-------------------------------- MODULE Aof --------------------------------
(***************************************************************************)
(* The append-only file (crates/rustkv-server/src/aof.rs) with the write   *)
(* path of handle_client and the rewrite worker (server.rs): writers log a *)
(* command before they execute it, a rewrite replaces the log by a         *)
(* snapshot of the store, a restart replays whatever the log then holds.   *)
(*                                                                         *)
(* The store is one map: writers execute one at a time under the engine    *)
(* lock, and a snapshot is the store of one instant (ShardedDatabase).  A  *)
(* file is a sequence of frames; a frame is the command it decodes to, or  *)
(* TornFrame for bytes that do not decode.                                 *)
(***************************************************************************)
EXTENDS Database, FairLock, SequencesExt

CONSTANTS
  Rewriter,      \* the task of the rewrite worker; the others are clients
  Writes,        \* the write commands clients send
  RewriteMinSize,\* ServerConfig::aof_rewrite_min_size, in frames
  Missing,       \* no file of that name
  TornFrame,
  MaxTime, MaxWrites, MaxCrashes, MaxFaults, MaxTears  \* bounds

Client == Task \ {Rewriter}

ASSUME AofAssumption ==
  /\ Rewriter \in Task
  /\ Writes \subseteq Command
  /\ \A c \in Writes : c.op \in {"SET", "SETAT", "DEL", "EXPIRE", "EXPIREAT", "FLUSHDB"}
  /\ Missing \notin Seq(Command \cup {TornFrame})
  /\ TornFrame \notin Command
  /\ {MaxTime, MaxWrites, MaxCrashes, MaxFaults, MaxTears} \subseteq Nat

VARIABLES
  now,
  status,    \* up, down (crashed, may restart) or refused (load_and_replay failed)
  db,        \* the store in memory
  path, temp, backup,  \* the log, its .rewrite and its .bak file
  handle,    \* AofEngine::file: open or closed (None)
  barrier,   \* rewrite_barrier
  engine,    \* the mutex around AofEngine
  pc, cmd,   \* where each task is and the command it writes
  snapshot,  \* what the rewrite in progress will write
  budget,    \* writes, crashes, faults and tears still allowed
  promised,  \* ghost: permanent entries acknowledged before the last crash
  damaged    \* ghost: the log holds bytes of a refused or panicked write, or was
             \* created empty after a rewrite that could neither promote nor restore

files == <<path, temp, backup, handle>>
locks == <<barrier, engine>>
ghosts == <<promised, damaged>>
vars == <<now, status, db, files, locks, pc, cmd, snapshot, budget, ghosts>>

NoCommand == [op |-> "NONE", keys |-> << >>, value |-> Absent, arg |-> Never]

File == Seq(Command \cup {TornFrame}) \cup {Missing}

ClientStage == {"idle", "barrier", "engine", "append", "sync", "execute", "respond"}
RewriteStage == {"idle", "size", "barrier", "snapshot", "engine", "temp", "flush", "unbackup",
                 "backup", "promote", "restore", "cleanup", "reopen"}

TypeOK ==
  /\ now \in 0 .. MaxTime
  /\ status \in {"up", "down", "refused"}
  /\ db \in Data
  /\ {path, temp, backup} \subseteq File
  /\ handle \in {"open", "closed"}
  /\ barrier \in Lock
  /\ engine \in Lock
  /\ pc \in [Task -> ClientStage \cup RewriteStage]
  /\ cmd \in [Task -> Writes \cup {NoCommand}]
  /\ snapshot \in Data
  /\ budget \in [writes : 0 .. MaxWrites, crashes : 0 .. MaxCrashes,
                 faults : 0 .. MaxFaults, tears : 0 .. MaxTears]
  /\ promised \in Data
  /\ damaged \in BOOLEAN

Init ==
  /\ now = 0
  /\ status = "up"
  /\ db = EmptyData
  /\ path = << >>
  /\ temp = Missing
  /\ backup = Missing
  /\ handle = "open"
  /\ barrier = Unlocked
  /\ engine = Unlocked
  /\ pc = [t \in Task |-> "idle"]
  /\ cmd = [t \in Task |-> NoCommand]
  /\ snapshot = EmptyData
  /\ budget = [writes |-> MaxWrites, crashes |-> MaxCrashes,
               faults |-> MaxFaults, tears |-> MaxTears]
  /\ promised = EmptyData
  /\ damaged = FALSE

Goto(t, stage) == pc' = [pc EXCEPT ![t] = stage]
Fault == budget.faults > 0 /\ budget' = [budget EXCEPT !.faults = @ - 1]

-----------------------------------------------------------------------------
(***************************************************************************)
(* The contents of the log.                                                *)
(***************************************************************************)

\* A write command on the store (execute_command, and replay_command too).
Run(d, c, time) ==
  CASE c.op = "FLUSHDB" -> EmptyData
    [] c.op = "DEL"     -> [k \in Key |-> IF k \in ToSet(c.keys) THEN Absent ELSE d[k]]
    [] OTHER            -> Effect(d, c, c.keys[1], time)

\* expire_at_ms_from_now: a duration too long for the clock is clamped to a
\* time no clock reading reaches.
ExpireAtFromNow(duration, time) ==
  IF duration = TooLong THEN MaxTime + 1 ELSE time + duration

\* Mutant: every SET is logged with a deadline, None included.
LoggedAlwaysAbsolute(c, time) ==
  IF c.op = "SET" THEN [c EXCEPT !.op = "SETAT", !.arg = IF @ = Never THEN @ ELSE ExpireAtFromNow(@, time)]
                  ELSE c

\* command_to_resp_bytes: a relative expiry becomes an absolute time.
Logged(c, time) ==
  CASE c.op = "SET" /\ c.arg # Never ->
         [c EXCEPT !.op = "SETAT", !.arg = ExpireAtFromNow(@, time)]
    [] c.op = "EXPIRE" ->
         [c EXCEPT !.op = "EXPIREAT",
                   !.arg = ExpireAtFromNow(IF @ = TooLong THEN @ ELSE Second * @, time)]
    [] OTHER -> c

\* snapshot_entry_to_resp_bytes, one frame per entry.
SnapshotFrames(d) ==
  LET frame(k) == [op    |-> IF d[k].expireAt = Never THEN "SET" ELSE "SETAT",
                   keys  |-> <<k>>, value |-> d[k].value, arg |-> d[k].expireAt]
  IN  SetToSeq({frame(k) : k \in Stored(d)})

\* load_and_replay: a missing file is an empty log, bytes that do not decode
\* fail the whole load.
Loadable(file) == file = Missing \/ TornFrame \notin ToSet(file)

\* The store after the first n frames of a file are replayed.
Replayed(file, time, n) ==
  LET store[i \in 0 .. Len(file)] ==
        IF i = 0 THEN EmptyData ELSE Run(store[i - 1], file[i], time)
  IN  store[n]

Replay(file, time) ==
  IF file = Missing THEN EmptyData ELSE Replayed(file, time, Len(file))

-----------------------------------------------------------------------------
(***************************************************************************)
(* A client's write: barrier for reading, engine, append, execute, answer, *)
(* and only then both guards are dropped.                                  *)
(***************************************************************************)
Send(t, c) ==
  /\ status = "up"
  /\ pc[t] = "idle"
  /\ budget.writes > 0
  /\ budget' = [budget EXCEPT !.writes = @ - 1]
  /\ cmd' = [cmd EXCEPT ![t] = c]
  /\ barrier' = Wait(barrier, t)
  /\ Goto(t, "barrier")
  /\ UNCHANGED <<now, status, db, files, engine, snapshot, ghosts>>

ReadBarrier(t) ==
  /\ pc[t] = "barrier"
  /\ CanRead(barrier, t)
  /\ barrier' = ReadLock(barrier, t)
  /\ engine' = Wait(engine, t)
  /\ Goto(t, "engine")
  /\ UNCHANGED <<now, status, db, files, cmd, snapshot, budget, ghosts>>

LockEngine(t) ==
  /\ pc[t] = "engine"
  /\ CanWrite(engine, t)
  /\ engine' = WriteLock(engine, t)
  /\ Goto(t, IF t = Rewriter THEN "temp" ELSE "append")
  /\ UNCHANGED <<now, status, db, files, barrier, cmd, snapshot, budget, ghosts>>

\* write_all of the frame; with the handle closed, or on an I/O error that
\* may leave part of the frame behind, the command is refused.
AppendFrame(t) ==
  /\ pc[t] = "append"
  /\ \/ /\ handle = "open"
        /\ path' = Append(path, Logged(cmd[t], now))
        /\ Goto(t, "sync")
        /\ UNCHANGED <<budget, damaged>>
     \/ /\ handle = "closed"
        /\ Goto(t, "respond")
        /\ UNCHANGED <<path, budget, damaged>>
     \/ /\ handle = "open"
        /\ Fault
        /\ path' \in {path, Append(path, TornFrame)}
        /\ damaged' = (damaged \/ path' # path)
        /\ Goto(t, "respond")
  /\ UNCHANGED <<now, status, db, temp, backup, handle, locks, cmd, snapshot, promised>>

\* Mutant: the guards are dropped as soon as the frame is safe.
SyncUnlocks(t) ==
  /\ pc[t] = "sync"
  /\ Goto(t, "execute")
  /\ engine' = Unlock(engine, t)
  /\ barrier' = Unlock(barrier, t)
  /\ UNCHANGED <<now, status, db, files, cmd, snapshot, budget, ghosts>>

\* sync_all; when it fails the command is refused with its frame in the log.
Sync(t) ==
  /\ pc[t] = "sync"
  /\ \/ Goto(t, "execute") /\ UNCHANGED <<budget, damaged>>
     \/ Fault /\ damaged' = TRUE /\ Goto(t, "respond")
  /\ UNCHANGED <<now, status, db, files, locks, cmd, snapshot, promised>>

\* SET and, on a live key, EXPIRE panic on a deadline Instant cannot hold
\* (ShardedDatabase's Panics).
Panics(t) ==
  /\ cmd[t].arg = TooLong
  /\ cmd[t].op = "SET" \/ IsLive(db, cmd[t].keys[1], now)

Execute(t) ==
  /\ pc[t] = "execute"
  /\ ~Panics(t)
  /\ db' = Run(db, cmd[t], now)
  /\ Goto(t, "respond")
  /\ UNCHANGED <<now, status, files, locks, cmd, snapshot, budget, ghosts>>

\* The panic unwinds the client task through both guards, without an answer;
\* its frame stays in the log.  SET has purged by then.
Panic(t) ==
  /\ pc[t] = "execute"
  /\ Panics(t)
  /\ db' = IF cmd[t].op = "SET" THEN LiveView(db, now) ELSE db
  /\ damaged' = TRUE
  /\ engine' = Unlock(engine, t)
  /\ barrier' = Unlock(barrier, t)
  /\ cmd' = [cmd EXCEPT ![t] = NoCommand]
  /\ Goto(t, "idle")
  /\ UNCHANGED <<now, status, files, snapshot, budget, promised>>

Respond(t) ==
  /\ pc[t] = "respond"
  /\ engine' = Unlock(engine, t)
  /\ barrier' = Unlock(barrier, t)
  /\ cmd' = [cmd EXCEPT ![t] = NoCommand]
  /\ Goto(t, "idle")
  /\ UNCHANGED <<now, status, db, files, snapshot, budget, ghosts>>

-----------------------------------------------------------------------------
(***************************************************************************)
(* maybe_rewrite_aof and AofEngine::rewrite.                               *)
(***************************************************************************)
R == Rewriter

StartRewrite ==
  /\ status = "up"
  /\ pc[R] = "idle"
  /\ engine' = Wait(engine, R)
  /\ Goto(R, "size")
  /\ UNCHANGED <<now, status, db, files, barrier, cmd, snapshot, budget, ghosts>>

\* file_size under a guard that is dropped at once; a missing file has size 0.
CheckSize ==
  LET enough == path # Missing /\ Len(path) >= RewriteMinSize
  IN  /\ pc[R] = "size"
      /\ CanWrite(engine, R)
      /\ engine' = Unlock(WriteLock(engine, R), R)
      /\ \/ enough /\ barrier' = Wait(barrier, R) /\ Goto(R, "barrier") /\ UNCHANGED budget
         \/ ~enough /\ Goto(R, "idle") /\ UNCHANGED <<barrier, budget>>
         \/ Fault /\ Goto(R, "idle") /\ UNCHANGED barrier
      /\ UNCHANGED <<now, status, db, files, cmd, snapshot, ghosts>>

\* Mutant: the rewrite does not wait for the writers between log and store.
WriteBarrierIgnoresReaders ==
  /\ pc[R] = "barrier"
  /\ First(barrier, R)
  /\ barrier' = WriteLock(barrier, R)
  /\ Goto(R, "snapshot")
  /\ UNCHANGED <<now, status, db, files, engine, cmd, snapshot, budget, ghosts>>

WriteBarrier ==
  /\ pc[R] = "barrier"
  /\ CanWrite(barrier, R)
  /\ barrier' = WriteLock(barrier, R)
  /\ Goto(R, "snapshot")
  /\ UNCHANGED <<now, status, db, files, engine, cmd, snapshot, budget, ghosts>>

\* snapshot_entries, which also purges; then the engine is asked for again.
TakeSnapshot ==
  /\ pc[R] = "snapshot"
  /\ db' = LiveView(db, now)
  /\ snapshot' = LiveView(db, now)
  /\ engine' = Wait(engine, R)
  /\ Goto(R, "engine")
  /\ UNCHANGED <<now, status, files, barrier, cmd, budget, ghosts>>

\* Mutant: the writers stay shut out.
GiveUpKeepsBarrier ==
  /\ engine' = Unlock(engine, R)
  /\ UNCHANGED barrier
  /\ snapshot' = EmptyData
  /\ Goto(R, "idle")

\* Early `?` returns before the handle is taken: both guards dropped.
GiveUp ==
  /\ engine' = Unlock(engine, R)
  /\ barrier' = Unlock(barrier, R)
  /\ snapshot' = EmptyData
  /\ Goto(R, "idle")

\* remove_file_if_exists(temp), write_rewrite_file: written, or given up with
\* the old file, none, or part of the new one left.
WriteTemp ==
  /\ pc[R] = "temp"
  /\ \/ /\ temp' = SnapshotFrames(snapshot)
        /\ Goto(R, "flush")
        /\ UNCHANGED <<budget, locks, snapshot>>
     \/ /\ Fault
        /\ temp' \in {temp, Missing, <<TornFrame>>}
        /\ GiveUp
  /\ UNCHANGED <<now, status, db, path, backup, handle, cmd, ghosts>>

\* self.flush()? fails for good on a closed handle; then file.take().
FlushAndTake ==
  /\ pc[R] = "flush"
  /\ \/ /\ handle = "open"
        /\ handle' = "closed"
        /\ Goto(R, "unbackup")
        /\ UNCHANGED <<budget, locks, snapshot>>
     \/ handle = "closed" /\ GiveUp /\ UNCHANGED <<budget, handle>>
     \/ handle = "open" /\ Fault /\ GiveUp /\ UNCHANGED handle
  /\ UNCHANGED <<now, status, db, path, temp, backup, cmd, ghosts>>

\* replace_aof_file, one call of the file system per step.
RemoveOldBackup ==
  /\ pc[R] = "unbackup"
  /\ \/ backup' = Missing /\ Goto(R, "backup") /\ UNCHANGED budget
     \/ Fault /\ Goto(R, "reopen") /\ UNCHANGED backup
  /\ UNCHANGED <<now, status, db, path, temp, handle, locks, cmd, snapshot, ghosts>>

\* Mutant: the old log is removed, not kept.
RemoveLog ==
  /\ pc[R] = "backup"
  /\ path' = Missing
  /\ Goto(R, "promote")
  /\ UNCHANGED <<now, status, db, temp, backup, handle, locks, cmd, snapshot, budget, ghosts>>

\* A missing log is not an error; there is then nothing to restore.
RenameToBackup ==
  /\ pc[R] = "backup"
  /\ \/ backup' = path /\ path' = Missing /\ Goto(R, "promote") /\ UNCHANGED budget
     \/ Fault /\ Goto(R, "reopen") /\ UNCHANGED <<path, backup>>
  /\ UNCHANGED <<now, status, db, temp, handle, locks, cmd, snapshot, ghosts>>

Promote ==
  /\ pc[R] = "promote"
  /\ \/ /\ path' = temp
        /\ temp' = Missing
        /\ damaged' = FALSE
        /\ Goto(R, IF backup = Missing THEN "reopen" ELSE "cleanup")
        /\ UNCHANGED budget
     \/ /\ Fault
        /\ Goto(R, IF backup = Missing THEN "reopen" ELSE "restore")
        /\ UNCHANGED <<path, temp, damaged>>
  /\ UNCHANGED <<now, status, db, backup, handle, locks, cmd, snapshot, promised>>

\* The error of the rename back is ignored.
RestoreBackup ==
  /\ pc[R] = "restore"
  /\ \/ path' = backup /\ backup' = Missing /\ UNCHANGED budget
     \/ Fault /\ UNCHANGED <<path, backup>>
  /\ Goto(R, "reopen")
  /\ UNCHANGED <<now, status, db, temp, handle, locks, cmd, snapshot, ghosts>>

RemoveBackup ==
  /\ pc[R] = "cleanup"
  /\ \/ backup' = Missing /\ UNCHANGED budget
     \/ Fault /\ UNCHANGED backup
  /\ Goto(R, "reopen")
  /\ UNCHANGED <<now, status, db, path, temp, handle, locks, cmd, snapshot, ghosts>>

\* open_append_file creates the log if it is missing; if it fails, the
\* engine stays without a handle.
Reopen ==
  /\ pc[R] = "reopen"
  /\ \/ /\ handle' = "open"
        /\ path' = IF path = Missing THEN << >> ELSE path
        /\ damaged' = (damaged \/ path = Missing)
        /\ UNCHANGED budget
     \/ Fault /\ UNCHANGED <<handle, path, damaged>>
  /\ GiveUp
  /\ UNCHANGED <<now, status, db, temp, backup, cmd, promised>>

-----------------------------------------------------------------------------
(***************************************************************************)
(* The TTL worker, the clock, crashes and restarts.                        *)
(***************************************************************************)
Sweep ==
  /\ status = "up"
  /\ db # LiveView(db, now)
  /\ db' = LiveView(db, now)
  /\ UNCHANGED <<now, status, files, locks, pc, cmd, snapshot, budget, ghosts>>

Tick ==
  /\ now < MaxTime
  /\ now' = now + 1
  /\ UNCHANGED <<status, db, files, locks, pc, cmd, snapshot, budget, ghosts>>

\* Keys a client was writing: their frame may or may not be in the log.
InDoubt ==
  UNION {IF cmd[t].op = "FLUSHDB" THEN Key ELSE ToSet(cmd[t].keys) :
           t \in {u \in Client : pc[u] \in {"append", "sync", "execute"}}}

\* What a crash leaves of the frame being written or not yet synced.
AfterCrash ==
  LET writing == {t \in Client : pc[t] = "append" /\ handle = "open"}
      written == UNION {{Append(path, Logged(cmd[t], now)), Append(path, TornFrame)} : t \in writing}
      unsynced == \E t \in Client : pc[t] = "sync"
  IN  {path} \cup written
        \cup (IF unsynced THEN {Front(path), Append(Front(path), TornFrame)} ELSE {})

\* The process dies: memory, handle and locks are gone, files stay.  A temp
\* file being written may be left half done.
Crash ==
  /\ status = "up"
  /\ budget.crashes > 0
  /\ path' \in AfterCrash
  /\ IF path' # Missing /\ path' # << >> /\ Last(path') = TornFrame /\ path' # path
       THEN budget.tears > 0 /\ budget' = [budget EXCEPT !.crashes = @ - 1, !.tears = @ - 1]
       ELSE budget' = [budget EXCEPT !.crashes = @ - 1]
  /\ temp' \in IF pc[R] = "temp" THEN {temp, Missing, <<TornFrame>>} ELSE {temp}
  /\ status' = "down"
  /\ promised' = [k \in Key |-> IF db[k] = Absent THEN Absent
                                ELSE IF db[k].expireAt # Never \/ k \in InDoubt
                                  THEN Absent ELSE db[k]]
  /\ db' = EmptyData
  /\ handle' = "closed"
  /\ barrier' = Unlocked
  /\ engine' = Unlocked
  /\ pc' = [t \in Task |-> "idle"]
  /\ cmd' = [t \in Task |-> NoCommand]
  /\ snapshot' = EmptyData
  /\ UNCHANGED <<now, backup, damaged>>

\* run_with_listener_and_shutdown: replay, then AofEngine::new; neither the
\* temp nor the backup file is looked at.
Restart ==
  /\ status = "down"
  /\ IF Loadable(path)
       THEN /\ status' = "up"
            /\ db' = Replay(path, now)
            /\ path' = IF path = Missing THEN << >> ELSE path
            /\ handle' = "open"
       ELSE status' = "refused" /\ UNCHANGED <<db, path, handle>>
  /\ UNCHANGED <<now, temp, backup, locks, pc, cmd, snapshot, budget, ghosts>>

-----------------------------------------------------------------------------
ClientStep(t) ==
  \/ ReadBarrier(t) \/ (t # Rewriter /\ LockEngine(t)) \/ AppendFrame(t) \/ Sync(t)
  \/ Execute(t) \/ Panic(t) \/ Respond(t)

RewriteStep ==
  \/ CheckSize \/ WriteBarrier \/ TakeSnapshot \/ LockEngine(R) \/ WriteTemp \/ FlushAndTake
  \/ RemoveOldBackup \/ RenameToBackup \/ Promote \/ RestoreBackup \/ RemoveBackup \/ Reopen

Next ==
  \/ \E t \in Client : ClientStep(t) \/ \E c \in Writes : Send(t, c)
  \/ StartRewrite
  \/ RewriteStep
  \/ Sweep
  \/ Tick
  \/ Crash
  \/ Restart

SafeSpec == Init /\ [][Next]_vars

\* Tasks that can run are polled and the rewrite interval keeps ticking.
Spec ==
  /\ SafeSpec
  /\ \A t \in Client : WF_vars(ClientStep(t))
  /\ WF_vars(RewriteStep)
  /\ WF_vars(StartRewrite)

-----------------------------------------------------------------------------
(***************************************************************************)
(* Properties.                                                             *)
(***************************************************************************)

\* Between the two renames there is no log; every other property says what
\* it holds outside this window.
InWindow == pc[R] \in {"promote", "restore"}

Quiet == \A t \in Client : pc[t] \notin {"sync", "execute"}

\* A log that decodes, holds no refused write and was not lost.
Sound(file) == Loadable(file) /\ ~damaged

\* A frame after which the log's earlier ones about key k do not count, and one that
\* gives k a deadline that has passed.
Replaces(frame, k) ==
  frame.op = "FLUSHDB" \/ (frame.op \in {"SET", "SETAT", "DEL"} /\ k \in ToSet(frame.keys))
Dated(frame, k, time) ==
  frame.op \in {"SETAT", "EXPIREAT"} /\ k \in ToSet(frame.keys) /\ frame.arg <= time

\* A deadline the log gave key k since it last set or removed k has passed.
Lapsed(file, k, time) ==
  \E i \in 1 .. Len(file) :
    Dated(file[i], k, time) /\ \A j \in i + 1 .. Len(file) : ~Replaces(file[j], k)

\* No entry comes back from the dead: what a restart would load is in memory
\* too, with the same value and a deadline no earlier (the log is written
\* before the store, with the clock of that moment).
NothingResurrected(file) ==
  LET loaded == LiveView(Replay(file, now), now)
      stored == LiveView(db, now)
  IN  \A k \in Key : loaded[k] # Absent =>
        /\ stored[k] # Absent /\ stored[k].value = loaded[k].value
        /\ (stored[k].expireAt = Never) = (loaded[k].expireAt = Never)
        /\ loaded[k].expireAt # Never => loaded[k].expireAt <= stored[k].expireAt

\* Nothing alive is missing from what a restart would load, but what had a
\* deadline, one of those in the log having passed.
NothingLost(file) ==
  LET loaded == LiveView(Replay(file, now), now)
      stored == LiveView(db, now)
  IN  \A k \in Key : stored[k] # Absent /\ loaded[k] = Absent =>
        stored[k].expireAt # Never /\ Lapsed(file, k, now)

\* The log, but for the frame of a write that is not executed yet.
Executed == IF Quiet THEN path ELSE Front(path)

\* At every moment outside the window the log and the store agree, and with a write
\* half done all of the log but that write's frame: whatever the interleaving of
\* writers and rewrites, log order is execution order and a rewrite keeps what it
\* replaces (rewrite_barrier).
LogMatchesStore ==
  status = "up" /\ ~InWindow /\ Sound(path) /\ path # Missing =>
    NothingResurrected(Executed) /\ NothingLost(Executed)

\* Inside the window the backup still is a complete log: replace_aof_file
\* never lets go of the last good copy while it runs undisturbed.
BackupCoversWindow ==
  status = "up" /\ InWindow /\ Sound(backup) =>
    NothingResurrected(backup) /\ NothingLost(backup)

\* README: writes are appended to the log and replayed at a restart to
\* recover.  What was permanent and acknowledged is there after a restart.
RestartKeepsPromises ==
  [][status = "down" /\ status' = "up" =>
       \A k \in Key : promised[k] # Absent => db'[k] = promised[k]]_vars

\* The same for every crash that leaves a log, one no failed append or failed
\* rewrite has damaged: whatever was being written, rewritten or torn then.
RestartFromLogKeepsPromises ==
  [][status = "down" /\ status' = "up" /\ path # Missing /\ ~damaged =>
       \A k \in Key : promised[k] # Absent => db'[k] = promised[k]]_vars

\* The same promise: a server that crashed can be started again on its log.
ServerCanRestart == status # "refused"

\* The deadline in the log's last frame about key k, if it has one.
LoggedDeadline(file, k) ==
  LET about == {i \in 1 .. Len(file) : k \in ToSet(file[i].keys) \/ file[i].op = "FLUSHDB"}
      last == file[CHOOSE i \in about : \A j \in about : j <= i]
  IN  IF about # {} /\ last.op \in {"SETAT", "EXPIREAT"} THEN last.arg ELSE Never

\* A test of the log says that a replay keeps the remaining TTL: a live entry
\* whose logged deadline is still ahead is in what a restart would load.
RemainingTtlKept ==
  status = "up" /\ ~InWindow /\ Quiet /\ Sound(path) /\ path # Missing =>
    \A k \in Key :
      LET deadline == LoggedDeadline(path, k)
      IN  LiveView(db, now)[k] # Absent /\ deadline # Never /\ deadline > now =>
            LiveView(Replay(path, now), now)[k] # Absent

\* A write that was sent is answered, or refused, and lets the next one in,
\* also when a rewrite is waiting or fails (barrier before engine, everywhere).
EveryWriteAnswered == \A t \in Client : pc[t] = "barrier" ~> pc[t] = "idle"
=============================================================================
