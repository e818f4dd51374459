# RustKV-Lab in TLA+

A TLA+ development of the RustKV-Lab key-value server: modules translated from
`src/crates`, TLC runs on small instances, and proofs checked by TLAPS for every
instance. `PROJECT.json` lists, for each definition, the lines it models.

## 1. The system

| component | state | operations | talks to |
|---|---|---|---|
| `Database` (`rustkv-core/src/db.rs`, `entry.rs`) | the `HashMap` of one shard, entries with an optional deadline | set, get, del, exists, keys, expire, ttl, flush, purge | called under the shard's lock |
| `ShardedDatabase` (`db.rs`) | `global` lock, one lock per shard, atomic `key_count` | the same, plus INFO's snapshot, the sweep, the rewrite's snapshot | shared by all tasks |
| executor and statistics (`executor.rs`, `stats.rs`) | a dozen relaxed atomics | one arm per command | store, then statistics |
| TTL worker (`rustkv-server/src/ttl.rs`) | none | a sweep per interval, until the shutdown | store, then statistics |
| `AofEngine` (`aof.rs`) | the log, its `.rewrite` and `.bak` files, the open handle | append, flush, size, rewrite, replay | file system |
| write path and rewrite worker (`server.rs`) | `rewrite_barrier`, the engine mutex | log then execute; size check, snapshot, rewrite | engine and store |
| accept loop, client tasks, shutdown (`server.rs`) | shutdown watch, `JoinSet`, worker handles, `connected_clients` | accept, join, flush | everything above |
| `Connection` (`connection.rs`) | read buffer | next frame, write answer | parser, socket |
| RESP parser and encoder (`rustkv-protocol`) | none (a cursor) | parse, encode | connection, log, clients |
| command parsing (`command.rs`, `aof.rs`) | none | `Command::from_resp`, `is_write_command`, `command_to_resp_bytes`, `replay_command` | parser, executor, log |
| CLI (`rustkv-cli`) | the shell's line, history and response buffer; a socket | one shot, or a line at a time | server |
| monitor (`rustkv-monitor`) | the last sample, status, QPS | a refresh per interval, each on a new socket | server |
| benchmark (`rustkv-bench`) | each worker's socket, buffer and counts | prepare, send, join, report | server |

What is hard in it, and what must hold:

* **Store.** Every command takes `global` for reading and a shard for writing, or
  `global` for writing and then every shard; `key_count` sits beside the locks.
  Keyed commands, scans, lazy expiry and a panicking `Instant + Duration`
  interleave. Correct means: the store behaves as a plain map of live entries;
  the count is exact; a scan sees one store; nobody deadlocks or starves.
* **Statistics.** They are written after the locks are dropped, one atomic at a
  time. Correct means: each expiry counted once; staleness only from a race.
* **Log.** Written before the store, replaced behind a barrier, replayed after a
  crash against another clock. Correct means: log order is execution order, a
  rewrite never loses what it replaces, acknowledged writes survive a crash,
  writers always get in again.
* **Connection.** The stream arrives in pieces that respect no frame. Correct
  means: each request is taken whole, once and in order, answered once, and never
  left in the buffer; the connection ends for the reason it reports; a shutdown
  ends it wherever it waits, without losing an answer.
* **Server.** A shutdown meets clients and workers at any await: queued for the
  log, inside a rewrite, about to answer a client that does not read; tasks end by
  leaving, by an error or by a panic. Correct means: guards never outlive the work
  they protect, clients are counted in and out, the workers are joined in the order
  that leaves nobody to append after the last flush, and a shutdown completes.
* **Command path.** A command is converted six times (line, arguments, frame,
  `Command`, log frame, `Command` again) by lists kept in four files. Correct means:
  what reaches the store is what was asked for, every change is logged, and the log
  replays to what was executed.
* **Tools.** Each keeps a buffer or a sample across answers, errors, timeouts and a
  server that restarts. Correct means: a report or a figure stands for commands that
  really ran, an answer is shown below its own line, and every tool comes to an end.

`PROJECT.json` lists the hazards line by line, with the properties that cover them.

## 2. Modules

    Database ----------+--> KvStore (abstract map)
       |               |        ^ refinement
    FairLock ---+--> ShardedDatabase --> ShardedDatabaseRefinement --> MCShardedDatabase
                |         |                       |
                |         |             ShardedDatabaseProofs
                |         |                       |
                |         +--> Executor --> ExecutorProofs, MCExecutor
                +--> Aof --> AofProofs, MCAof
                +--> Server --> GracefulService (abstract), ServerProofs, MCServer

    Resp --> CommandParse --+--> Connection --> ConnectionProofs, MCConnection
                            +--> CommandPath --> CommandPathProofs, MCCommandPath
                            +--> RespProofs --> ConnectionProofs, CommandPathProofs

    Clients --> ClientsProofs, MCClients

* **`Database`**: a shard's map is a function from every key to an entry or
  `Absent`; each method of `Database` is an operator on it, with the clock as an
  argument. `Effect`, `Answer` and `ExpiredBy` say what a keyed command leaves,
  answers and counts as expired.
* **`FairLock`**: tokio's `RwLock` and `Mutex` as the code relies on them, one
  FIFO queue per lock (external to the repository).
* **`ShardedDatabase`**: `shards`, `keyCount`, `global`, `shardLock` are the
  fields of the struct; `pc`, `cmd`, `at`, `before`, `since`, `collected`, `out`
  are the locals of each task's call (`before` is the set whose size the code
  takes as `before`); `found` is a ghost, what was live in the whole store at the
  instant a snapshot captured. Actions: `Call`; `EnterKeyed`, `EnterShard` (locks);
  `Execute`, `StartTtl`/`TtlRemaining` (TTL's two looks at the clock), `Panic`;
  `ApplyLen` (`apply_len_change`, and DEL's next key); `ReturnOutcome`;
  `EnterWhole`, `Scan`, `Finish` (commands on the whole store); `Return`; `Tick`.
  A step ends wherever another task could look: `key_count` is visible between
  the change of a shard and its correction, so those are two steps.
* **`KvStore`**: the promise to callers: a map of live entries, each keyed
  command atomic, DEL atomic per key, FLUSHDB atomic for all keys, scans
  invisible. `ShardedDatabaseRefinement` maps the store onto it; a command takes
  effect where it changes its shard, TTL at its second look at the clock,
  FLUSHDB at its first shard (no keyed command can look before the last).
* **`Executor`**: adds `ServerStats` and, per task, the statistics still to be
  written. Ghosts count the expired entries really removed (`purged`), those a
  snapshot or a panic removed uncounted, and whether a call ran alone.
* **`Aof`**: the three files as sequences of frames (a frame is the command it
  decodes to, or `TornFrame`), the handle, `rewrite_barrier`, the engine mutex,
  writers and the rewrite worker one file-system call per step, each of which
  may fail; a SET or EXPIRE that is logged with the deadline the log's own
  arithmetic gives it (`ExpireAtFromNow` stops at the largest time) and then
  panics in the store (`Panic`); crashes, torn tails, restarts. `promised` (what
  was acknowledged) and `damaged` (the log holds the frame of a refused or a
  panicked write, or a new log replaced one that could neither be promoted nor
  restored) are ghosts.
* **`Server`**: the life of the process. `phase` is where
  `run_with_listener_and_shutdown` stands, `stage` where each connection's task does,
  `jobs` the `JoinSet`; the workers' loops are a step per await. What a command does
  to the store and the files is left to the modules above: here it only reads, writes
  or panics (`Kind`), and what matters is which guards it holds while it waits.
  Clients connect, read their answers or not (`outbox` is what the sockets hold),
  and hang up. `Fail` is `?` on a start, an accept or the last flush.
  `GracefulService` is the promise: after the signal nobody enters, and a clean end
  has nobody left; `Live` and `Status` map the server onto it.
* **`Resp`**: the parser and the encoder as operators on sequences of bytes, a byte
  being the character it stands for. A result is a value and the next position,
  `Incomplete` or `Invalid`, like `parse_resp`'s `Result`. The calls of `parse_value` from
  within `parse_array` are a function on the positions of the input: from each, what
  `parse_value` gives.
* **`CommandParse`**: `Command::from_resp` with every command's arity, options and
  numbers, `is_write_command`, `command_to_resp_bytes` and `replay_command`'s arms.
* **`CommandPath`**: one command from the prompt (`Split`, `Trim`, the shell's local
  commands), from `rustkv-cli`'s own arguments (`IntoArgs`) or from another client, to
  `FromResp`, the log and its replay.
* **`Connection`**: `buffer` is the field of the struct, `frame` and `pc` say where
  `handle_client` stands: in `read_value` before its parse or at its await, or with
  a frame, which a write takes through the log first, executing its command, or in
  `write_value`. `TakeFrame`, `AwaitMore`, `Refuse`, `ReadSome`, `ReadEof`, `IoError` are
  the branches of `read_value`, `Stop` is the watch's branch of the `select!`,
  `PassLog`, `Execute` and `Respond` the rest of the loop, with commands that among them
  have every kind of reply. The log and the client may keep a connection waiting for ever
  (`PassLog`, `Respond`): no fairness forces them. The client sends requests and malformed
  bytes ahead of the answers, stops in the middle of one, closes or resets. `sent`, `part`,
  `handled` and `replies` are ghosts.
* **`Clients`**: the benchmark's preparation, workers and joins, the one-shot
  client, the shell's history and response buffer, and the monitor's refresh loop, each
  over streams that a server may answer in pieces, late, with an error, or never, and
  that break when it ends. In a behaviour one tool runs, next to other clients.

Definitions commented "Mutant" are plausible bugs. They are not used by the
specifications: they show that each property can fail.

## 3. Runs

| run | states | shows |
|---|---|---|
| `DbCommands` | 0.3 M | two clients with every operation: `ImplementsKvStore`, `TtlNeverZero`, `KeyCountExact`, `KeysBracketed`, `SnapshotOfOneInstant`, `EveryCallCompletes` |
| `ExecStats` | 2.2 M | statistics written in any order, scans against writers, the sweep and panics: `ExpiredAccounted`, `QuietCommandSyncs`, `ExecTypeOK`, `ScanSeesFrozenStore`, `IInv` |
| `AofSafety` | 5.4 M | every kind of write, the rewrite worker, expiry, one fault: `LogMatchesStore`, `BackupCoversWindow`, `TypeOK` |
| `AofCrash` | 0.2 M | two crashes, two faults, one torn frame, panicking writes: `RestartFromLogKeepsPromises`, `EveryWriteAnswered` |
| `ConnFrames` | 0.7 M | every cut of a stream of two requests: `FramesInOrder`, `WaitsOnlyForMore`, `EndsForCause`, `OneReplyPerRequest`, `EveryRequestAnswered`, `StopsOnShutdown`, `TypeOK` |
| `ServerLife` | 0.1 M | two clients, both workers, a shutdown or failure at any moment: `ConnectedExact`, `GuardsOwned`, `FlushIsLast`, `ImplementsGracefulService`, `ShutdownCompletes`, `ReadsAnswered` |
| `CommandPath` | 0.2 M | every line of up to six characters, every subcommand and request: `TrimIsHarmless`, `QuotingSendsTheSame`, `OneShotUnderstood`, `ChangesAreLogged`, `ReplayedAsExecuted` |
| `Clients` | 0.3 M | each tool next to other clients and a server that restarts: `GetsHit`, `ReportIsComplete`, `QpsIsReal`, `AnswersBelowTheirLine`, `ToolsEnd`, `TypeOK` |

Four runs end in a counterexample. They are disagreements between the code and
what the repository says of it:

* `AofCrashWindow`: a crash between the two renames of a rewrite leaves no log;
  the restart takes that for an empty one and does not look at `.bak`.
* `AofTornTail`: part of a frame at the end of the log keeps the server from
  starting, although all acknowledged commands are in the log.
* `AofExtendedTtl`: `SET EX` then `EXPIRE` with a later time, replayed after the
  first deadline: the key is dropped and the EXPIREAT finds nothing.
* `ConnFrameLimit`: `--max-frame-size` is documented as the size of one frame, but
  compared with all that is buffered (`connection.rs:68`): two small requests that arrive
  together are refused as one large one.

Not listed as a disagreement but worth knowing; the properties name these exceptions:

* INFO's `key_count` may be a value another task stored over INFO's own
  (`executor.rs:118`), `expired_keys` misses what a snapshot purged (`server.rs:334`),
  and a SET that panics on its deadline leaves `key_count` too high.
* A SET or EXPIRE that panics is already in the log, with a clamped deadline, and
  stays there until a rewrite (`aof.rs:227`, then `entry.rs:15` or `db.rs:160`): a replay
  executes what the running server did not.
* A client task that panics never counts itself out: `connected_clients` stays too
  high by one (`server.rs:205`). A finished task stays in `client_tasks` until the
  shutdown joins it.
* One failed reopen after a rewrite leaves the engine without a handle, and every
  later write is refused until a restart (`aof.rs:74`).
* A shutdown waits for a client that neither reads its answer nor goes away, and a
  writer that waits for one blocks every other writer and the rewrite
  (`server.rs:283`): `ShutdownCompletes`, `ReadsAnswered`,
  `EveryRequestAnswered` and `StopsOnShutdown` hold under the conditions they state.
* The error for an unknown command echoes its name, so a name with a line end in it
  reads as two answers (`executor.rs:129`).
* The shell trims a line before it splits it: a blank that was escaped at the end of
  the line is lost and its backslash stays (`tui.rs:96`).

**Bounds.** In the store, two shards and three keys, two of them in one shard: enough
for a SET to purge a key of another command, for DEL to cross shards, and for shards to be
locked in both orders. Two clients give every pairwise race; the third task of
`ExecStats` is a background worker, so a reader can
queue behind a writer behind a reader. A second has two ticks, so TTL's rounding
and every deadline comparison are met below, at and above the boundary within
`MaxTime` = 2. `MaxLeak`, `MaxCommands`, `MaxWrites`, `MaxFaults`, `MaxTears` and
`MaxCrashes` stop counters that would otherwise grow. In the log two or three writes suffice:
one in the old log, one in flight, one after the rewrite. Two faults are needed
for promotion and restoration to fail together, two crashes for one to hit what
the other left. `RewriteMinSize` = 1 frame lets a rewrite start at any moment.

For a connection two requests suffice: a read can end in the first, between the two
or in the second, and what one leaves in the buffer meets the other. A read returns any
number of bytes (`ReadSize` exceeds what two requests that fit can hold), so every cut of
the stream is met. The requests have every kind of frame the parser knows, and the
malformed ones fail at each of its errors except those of integers beyond 64 bits.

For the server two clients suffice: one holds the log or does not read while the other
waits for it, and the rewrite worker waits for both. A socket that holds one answer
(`OutCapacity` = 1) makes a writer wait at its second. A client connects once: a second
connection differs from a second client in nothing the server looks at. In
`CommandPath` six characters hold two quoted arguments, an escape in and outside of
quotes and blanks anywhere; `MaxU64` = 9999 stands for `u64::MAX`, and amounts lie
below, at and above it. In `Clients` five requests of two workers split unevenly, four
history lines overflow in three typed lines, and one restart falls anywhere between
two samples; `MaxExecuted` stops the commands of others.

**Fairness.** The store's `Spec` assumes that a task whose lock has been granted is polled
again (`WF` of its steps: tokio schedules every woken task, and nothing in a store
call waits for anything but locks). Clients and the clock owe nothing. `AofCrash`
assumes the same of writers and of the rewrite, and that the interval of the rewrite
worker keeps firing; crashes, restarts and faults are never required. It also assumes
that a client reads its answer, which `Server` does not.

`ConnFrames` assumes that a connection's task that can go on is polled: parsing never
waits and a command that executes ends (`EveryCallCompletes`), so their fairness only says
they are left (which keeps the parser out of `ENABLED`), and a read, an end of the
stream or the watch is noticed. Nothing is fair about the log, where a write waits behind
other writers and a rewrite, or about the client, which may stop sending at any byte
and need not read. So `EveryRequestAnswered` and `StopsOnShutdown` are about a connection
that is not held up for ever by either (`HeldUp`): `write_value` is outside the
`select!`, and nothing else ends a wait there. The client sends `MaxRequests` requests, so
no stream of them competes with the watch for ever.

`Server` assumes weak fairness of every task's steps, and strong fairness of the
watch's branch of a `select!` in a client task and in the rewrite worker: tokio polls
the branches of a `select!` in random order, so one that is ready again and again is
taken in the end although the other is ready too. Clients owe nothing; where a property
needs one to read its answers it says so (`PeersRead`, `WF` of `ReadAnswer`), and a
client that has gone away makes the write fail, which the task notices by itself.
In `Clients` the tools run (`WF`), the server executes what the benchmark and the one-shot
client send, which have no timeout, and owes the shell and the monitor nothing.
`CommandPath` has no liveness and no fairness.

`CHECK_DEADLOCK FALSE` where the system may really stop: in `AofCrash` (after its last
crash the server may be refused its log, or not be restarted), for a closed connection,
after the server's end, when every tool is through, and when a command has been replayed.

## 4. Proofs

The proofs hold for any number of tasks, shards, keys and commands, of the server for
any number of connections. Each module of proofs ends in one inductive
invariant, preserved by one lemma per action (under it, one step per conjunct that the
action can disturb), and the properties that follow from it.

**`ShardedDatabaseProofs`**: `Invariance` (`SafeSpec => []IInv`), and from it
`TypeCorrect`, `KeyCountIsExact` and `KeysStayInTheirShard`. The types are not a formality:
`out.expired` is a difference of sizes, `key_count` a subtraction, TTL's answer a
quotient. `KeyCountExact` is not inductive alone: a correction is right only if the size taken
before is still the shard's size when the shard is changed, no second command is in
the shard, and no FLUSHDB is between. `IInv` adds just that: what a task's stage
says of its command (`CommandsOK`), who holds `global` (`GlobalOK`) and the shards
(`ShardLocksOK`), that `before` is what is stored until the task changes it
(`BeforeOK`), that the shards a FLUSHDB has passed are empty (`FlushOK`), and
`WellPlaced`, without which a shard's entries would not be the keys that hash to
it. Lemmas on the operators say what `Effect` leaves and keeps in
place, that `ExpiredBy` is never negative, what a lock operation does to its
holders; `PartReplaced` is the arithmetic on sizes behind `apply_len_change`.

A second part of the module is about commands on the whole store. It has an invariant of
its own, `ScanInv`, on top of `IInv`: the queue of a shard lock holds only tasks that are
about to work on that shard, each once (`QueuesOK`), a scan began no later than now, and it
has gathered of the shards it passed what it promises and of the others nothing
(`GatheredOK`): a snapshot exactly the entries of these shards among those that were live
in the whole store at its instant (`found`), and the shards ahead still hold theirs. From it `WholeCommandsNeverWait` (with no keyed command inside, nobody holds
or awaits a shard), `KeysAreBracketed`, `SnapshotIsOfOneInstant`, and
`ScansSeeFrozenStore`.

The last part is the refinement: `StoreIsAMap` (`SafeSpec => ImplementsKvStore`). Lemmas say what
each operation does to the live view of a shard and of the whole store (`Effect` on a
shard is `KvStore`'s operation on the view; a purge is invisible; the clock takes away
what expires), then each step of the store is shown to be one of the map's or a
stutter. FLUSHDB needs `IInv`: it takes effect at its first shard, which nobody can tell
because it holds `global`. TTL needs that its entry stays in place between its two looks;
`TtlIsNeverZero` follows from the same facts.

**`ExecutorProofs`**: `EveryExpiryCounted` and `QuietCommandsSync`, from an invariant
that adds to `IInv` what is left of each command's two writes (`RecordingOK`), that a command
has found nothing before its effect (`NothingYetOK`), that what is found and not yet
recorded is a finite set whose size closes the account (`FoundCounted`), and that a command that
is alone has the store to itself (`AloneOK`). The heart is `EffectCounted`: the difference of
two sizes that a command adds up as expired is the number of expired entries it
removed, which holds because an expired entry of a shard cannot lie outside the keys that
hash to it. `StatisticsTyped` (`ExecTypeOK`) adds `CommandsCounted`: the counters by kind,
with the commands that are still to be counted by kind, stay below the total. They do not
meet it, because of commands of no kind and those that panic.

**`AofProofs`** begins with what replaying a log gives, for a file of any length. TLAPS cannot do
an induction over an operator, but over a set it can: the replay is a function on the
positions of the file, the positions up to which a fact holds are a set, and a set of
numbers that is not everything leaves out a least one (`LeastNumber`, `UpTo`, from
`NatLessThanWellFounded`). `ReplayExists` shows that the recursion of `Replayed` defines
what it says, `ReplayAppend` what one more frame does, `ReplayLater` that a log replayed
later gives what is still alive of what it gave, and `SnapshotReplay` that a rewritten log
gives the snapshot, in whatever order its keys were written. The `Spares` lemmas say what a
replay may miss: an entry whose deadline, or an earlier one it was logged with, has passed
since the log last set its key (`Lapsed`), and nothing else, after one more frame
(`SparesAfter`), later (`SparesLater`) and after a rewrite (`SparesSnapshot`).

It goes on to `Invariance`, and from it `TypeCorrect`, `LogAgrees`, `BackupCovers` and
`PromisesKept` (`RestartFromLogKeepsPromises`), for any number of clients, keys, faults, torn
frames and crashes. `LogMatchesStore` is two-sided: the log brings back nothing that the store
lacks (`NothingResurrected`), and of what is alive it misses only what lapsed (`NothingLost`;
`AofExtendedTtl` shows that this does happen). It holds also while a write is between log
and store, for the log without that write's frame (`Executed`). It says nothing of a log
that holds the frame of a refused or a panicked write, or that replaced one that could be neither
promoted nor restored (`damaged`): such a log does not agree with the store,
and the code does nothing about it until the next rewrite. It speaks of one moment; a write
that waits, a crash and a restart need it of every later one, so the invariant says that a file agrees with the store *from now
on* (`AgreesFromNow`). Its parts: who is at which stage (`StagesOK`) and holds what
(`LocksOK`), without which a frame could come between a snapshot and its promotion; which
file is where (`FilesOK`); that the log covers the store but for the one frame whose command is
not executed yet (`LogCovers`), which is what makes log order execution order; that
the snapshot, and in the window the backup, cover it as well (`RewriteCovers`); and that
after a crash the log replays to what was promised (`PromisesLogged`). The heart is
`MatchesAfter`: a frame logged at one moment and its command executed at a later one leave
stores that agree, although the frame holds a deadline and the command may hold a duration.

**`ClientsProofs`**: `Invariance`, and from it `TypeCorrect`, `ReportsAreComplete`, `AllGetsHit`,
`MonitorIsHonest` and `LinesAnswered`, for any number of requests, workers, lines and
restarts. Under all of them lies `StreamsOK`: on each stream one request at a time, and
none while its answer is under way; a lemma for each way to touch a stream (`OpOpens`,
`OpSends`, `OpTakes`, ...) says what becomes of it, and that the others at most lose something
(`Fades`). On top, each tool has its own part: a worker's count of answers keeps up with
the server's count of executions, across an answer that is under way (`WorkerOK`), and the
sum of the joined workers' shares is the quotient times their number plus those with one
request more (`SumOK`), which gives `--requests` in the end because `Longer` has as many
members as the division leaves; the keys before the preparation's position are stored
(`StoreOK`); the monitor's samples were taken in order (`Later`), also across restarts, which
set the total back; in the history, whatever was pushed out of it, each line stands below its own
(`HistoryOK`).

**`RespProofs`**: about `parse_resp`, for any input and however deep its arrays
nest, and `encode_resp`. `ParseBounded`: a frame ends within the input and takes at least one byte.
`ParseKept`: once the answer is a frame or an error, no bytes behind it change it; only
`Incomplete` may become something else. Both go by induction from the end of the input to its
beginning (`DownTo`), since an array asks for what is parsed behind its own line, and within an
array by induction over its elements (`UpTo`); `Recursion` is what makes the two
recursive functions of the parser what their definitions say. `EncodedParsed`: what is
encoded is parsed back, whatever follows it: a number is what its digits say (`DecimalRead`,
`IntegerRead`), a line without a line end in its text ends at its end (`LineRead`), a
bulk string is as long as announced (`BulkRead`), and of an array each element is parsed where
the one before ends (`ItemsRead`, by induction from its last element). `ArgsSent`: so the
arguments of a request are those the client put in.

**`ConnectionProofs`**: `Invariance`, and from it `TypeCorrect`, `FramesTakenInOrder`,
`WaitsForMore`, `CausesAreReal` and `OneReplyEach`, for any requests and malformed bytes, cut anywhere, in
any number. The invariant says that the frames taken, the buffer and what is behind it are
what was sent (`NothingLost`: after a reset there is something behind it, but no longer on the
wire), and that a task that waits has an `Incomplete` buffer (`ReadsForMore`). `CausesAreReal` needs that the
buffer is part of what is outstanding (`BufferOutstanding`). The step that takes
a frame needs that it is the *next piece*: the buffer is the beginning of the stream, the
stream behind the frames taken begins with the next piece (`ComesNext`), of two beginnings
of one sequence one is the beginning of the other (`BeginningsNest`), and `ParseKept` then makes what
is parsed from the shorter the answer for the longer (`PieceNext`). A request that was cut
short is never taken for one, nor for an error (`PartNext`). `OneReplyEach` needs a part of its
own, `Answered`: what was written is the encodings of the replies, and every reply is a value
that can be encoded, since what the parser returns is typed (`ParsedTyped`), hence its
arguments (`ArgsTyped`) and the answers to it (`AnswersTyped`). That a client decodes
the encodings of some values as these values (`DecodedIs`) goes by induction from the
last, by `EncodedParsed`.

**`CommandPathProofs`**: `Invariance`, and from it `SubcommandsExecuted`, `NothingUnlogged`,
`ReplayFaithful`, `TrimmingHarmless` and `QuotingFaithful`: for every key and value, every
subcommand, line and request, and every limit on numbers. The invariant follows a command along its
way: a request is one frame of arguments, those of the subcommand if there was one (`OnTheWire`);
the command is what these arguments mean (`Understood`); a write has the frame of its
arguments in the log before it is executed (`Logged`). `ArgsSent` takes the frame out of the
question, which leaves what a name and its arguments are understood as (`ParseIs`, `NameMeans`,
`NamesDiffer`): `SubcommandUnderstood` compares the client's list of commands with the
server's, `LoggedUnderstood` the log's with both, and `DecimalRead` makes a number that is written
the number that is read, which needs `MaxU64` where a deadline would exceed it (`DeadlineBounded`). For
the shell's lines the loop of `split_command_line` is a function on the positions of the line
(`ScanExists`, `ScanIs`); it can be stopped anywhere and gone on with (`ScanJoined`). Blanks then
change nothing outside of quotes (`BlanksBefore`, `BlanksAfter`), and an argument in quotes is
read, character by character (`SpelledRead`, `SpellingRead`), as one word (`WordRead`).

**`ServerProofs`**: `ServerInvariance`, and from it `ServerTypes`, `GuardsAreOwned`,
`FlushedLast`, `GracefulShutdown` (`SafeSpec => ImplementsGracefulService`) and, with a
counting argument of its own, `ClientsCounted`. `GuardsOwned` alone is not inductive: that a
release empties a lock needs to know which stages hold a request at all (`JobsOK`); that a
shutdown leaves nobody behind needs that whoever runs is in the `JoinSet` (`TasksOK`)
and that the workers run until they are joined, in that order (`WorkersOK`).

Assumed of the constants, as weak as the code allows: `DatabaseAssumption` (finitely many keys; `Absent`, `Never` and
`TooLong` are no values or times), `ShardedDatabaseAssumption` (at least one shard, every key
hashes to one, tasks issue commands), `ExecutorAssumption`, `ServerAssumption` (the
tasks are the connections, the rewrite worker and `Main`, all different), `AofAssumption` (the
rewrite worker is a task, what is appended is a write command, a torn frame is none, and a missing file is not a
file), `RespAssumption` and `CommandParseAssumption` (the bytes of the protocol and of its words are
bytes), `ConnectionAssumption` (a request is a sequence the parser takes for one frame, to its
last byte; malformed ones are those in which it finds an error; stored values are bytes), `CommandPathAssumption`
(what is typed is bytes, subcommands have the types of `ClientCommand`'s fields, other clients send
sequences of arguments, and clocks fit u64) and `ClientsAssumption` (one to `--requests` workers, which the benchmark's `main` ensures; the
other tools are four different ones; the history has room for a line). TLC
evaluates them on every run.

Proved but no property of a run: `TypeOK` of the store and of the server,
`WellPlaced`, `WholeNeverWaits`. Only model-checked:
all liveness (with `ENABLED`, it is beyond the proof system), and the four violations.

## 5. Abstractions

* One clock stands for `Instant` and `SystemTime`; it never jumps back. Clock reads
  within one critical section are one, except TTL's two, which a property is about.
* A crash kills the process; what was renamed or synced stays. A frame is lost,
  whole or torn if it was not yet synced.
* Any bytes after a torn frame fail to load too (the parser either reports them
  incomplete or misreads them).
* `key_count` never nears `usize::MAX`; sizes and times are naturals. Durations too
  long for `Instant` are the single value `TooLong`.
* The name of a command or an option is one letter, an error text is "E", and one byte that
  is not UTF-8 stands for all. Lengths stay far below `i64::MAX`; the memory an array header
  reserves is not counted, its panic is (`ParserPanics`). A write to a client either fails,
  waits for room, or delivers all bytes.
* Arrays that are sent, logged or answered hold no arrays, as the code builds them, so `Encode`
  writes none inside an array; the parser takes arrays of any depth.
* `memory_estimate_bytes`, INFO's JSON, latencies, error texts and logging are left out.
* `Aof`'s writers execute against one map, since the engine lock serialises them and
  a snapshot is of one instant (`SnapshotOfOneInstant`).
* `Server` leaves out what `EveryCallCompletes` and `EveryWriteAnswered` settle: a sweep
  or a snapshot is a step that ends. The runtime's own abort of a task at the end of
  the process is `Fail` or comes after "done".
* An answer to a tool is cut in at most two pieces; that every cut is put
  together again is `ConnFrames`' matter.

## 6. Not modelled, and what is left

Not modelled: the drawing of the two terminal interfaces (`ui.rs`, `tui.rs`'s
layout), logging, JSON, and argument parsing by `clap`, which change no state another
component sees. `rustkv-core/src/lib.rs` holds tests, which the modules were read with.

Every safety property and action property of the passing runs is stated by a theorem, and so are
both refinements' steps. What is left for proofs is below the level of the modules: that
`Database`'s operators are what a reference map does, which the refinement now states of the
store as a whole.
