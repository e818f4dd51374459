------------------------------- MODULE Server -------------------------------
(***************************************************************************)
(* The life of the server (server.rs, ttl.rs): the accept loop, one task   *)
(* per client, the two workers, and the shutdown that joins them all       *)
(* before it flushes the log.  What a command does to the store and to the *)
(* files is left to ShardedDatabase and Aof; here it matters which guards  *)
(* a task holds while it waits, for a lock or for a client that reads.     *)
(***************************************************************************)
EXTENDS FairLock, Naturals, FiniteSets

CONSTANTS
  Conn,          \* the connections that clients may open
  Rewriter,      \* the AOF rewrite worker
  Main,          \* run_with_listener_and_shutdown itself
  OutCapacity    \* answers the sockets hold before write_value has to wait

\* A command that only reads (or does not parse), one that writes, and a write
\* whose deadline the clock cannot represent: its execution panics.
Kind == {"read", "write", "doomed"}

ASSUME ServerAssumption ==
  /\ IsFiniteSet(Conn)
  /\ Task = Conn \cup {Rewriter, Main}
  /\ Rewriter \notin Conn
  /\ Main \notin Conn \cup {Rewriter}
  /\ OutCapacity \in Nat \ {0}

VARIABLES
  aof,        \* whether ServerConfig::aof_path is set
  phase,      \* where run_with_listener_and_shutdown stands
  stopping,   \* the shutdown watch says stop: it is true, or its sender is gone
  stage,      \* where each connection, or its task, stands
  job,        \* the request each task handles
  jobs,       \* client_tasks, the JoinSet
  ttl,        \* the TTL worker
  rewriter,   \* the rewrite worker
  barrier,    \* rewrite_barrier
  engine,     \* the mutex around AofEngine
  connected,  \* stats.connected_clients
  peer,       \* each client: open or gone
  outbox,     \* answers each client has not read yet
  flushed     \* ghost: nothing was appended since the last flush

locks == <<barrier, engine>>
peers == <<peer, outbox>>
workers == <<ttl, rewriter>>
vars == <<aof, phase, stopping, stage, job, jobs, workers, locks, connected, peers, flushed>>

Phase == {"starting", "accept", "clients", "ttl", "rewriter", "flush", "done", "failed"}

\* A task holds the guards of the log in Guarded stages, and in "reply" after a
\* write.
Guarded == {"append", "execute"}
Running == {"spawned", "select", "barrier", "engine", "reply", "leaving"} \cup Guarded
Stage == Running \cup {"absent", "backlog", "ended", "panicked", "aborted"}
RewriteStage == {"off", "tick", "size", "barrier", "snapshot", "engine", "rewrite", "stopped"}

TypeOK ==
  /\ aof \in BOOLEAN
  /\ phase \in Phase
  /\ stopping \in BOOLEAN
  /\ stage \in [Conn -> Stage]
  /\ job \in [Conn -> Kind \cup {"none"}]
  /\ jobs \in SUBSET Conn
  /\ ttl \in {"off", "running", "stopped"}
  /\ rewriter \in RewriteStage
  /\ barrier \in Lock
  /\ engine \in Lock
  /\ connected \in Nat
  /\ peer \in [Conn -> {"open", "gone"}]
  /\ outbox \in [Conn -> 0 .. OutCapacity]
  /\ flushed \in BOOLEAN

Init ==
  /\ aof \in BOOLEAN
  /\ phase = "starting"
  /\ stopping = FALSE
  /\ stage = [c \in Conn |-> "absent"]
  /\ job = [c \in Conn |-> "none"]
  /\ jobs = {}
  /\ ttl = "off"
  /\ rewriter = "off"
  /\ barrier = Unlocked
  /\ engine = Unlocked
  /\ connected = 0
  /\ peer = [c \in Conn |-> "open"]
  /\ outbox = [c \in Conn |-> 0]
  /\ flushed = TRUE

Goto(c, s) == stage' = [stage EXCEPT ![c] = s]

DropGuards(t) ==
  /\ engine' = Unlock(engine, t)
  /\ barrier' = Unlock(barrier, t)

-----------------------------------------------------------------------------
(***************************************************************************)
(* Clients: they connect, read their answers or do not, and go away at any *)
(* time.  What they send shows in TakeRequest.                              *)
(***************************************************************************)
Listening == phase \notin {"starting", "done", "failed"}

Connect(c) ==
  /\ Listening
  /\ stage[c] = "absent"
  /\ Goto(c, "backlog")
  /\ UNCHANGED <<aof, phase, stopping, job, jobs, workers, locks, connected, peers, flushed>>

ReadAnswer(c) ==
  /\ peer[c] = "open"
  /\ outbox[c] > 0
  /\ outbox' = [outbox EXCEPT ![c] = @ - 1]
  /\ UNCHANGED <<aof, phase, stopping, stage, job, jobs, workers, locks, connected, peer, flushed>>

HangUp(c) ==
  /\ stage[c] \in Running \cup {"backlog"}
  /\ peer[c] = "open"
  /\ peer' = [peer EXCEPT ![c] = "gone"]
  /\ outbox' = [outbox EXCEPT ![c] = 0]
  /\ UNCHANGED <<aof, phase, stopping, stage, job, jobs, workers, locks, connected, flushed>>

\* Ctrl+C: send(true); or ctrl_c() fails and the sender is dropped, which
\* every receiver takes for the same (changed.is_err() || *shutdown.borrow()).
Signal ==
  /\ ~stopping
  /\ stopping' = TRUE
  /\ UNCHANGED <<aof, phase, stage, job, jobs, workers, locks, connected, peers, flushed>>

-----------------------------------------------------------------------------
(***************************************************************************)
(* A client's task: handle_client between two counts.                      *)
(***************************************************************************)
Count(c) ==
  /\ stage[c] = "spawned"
  /\ connected' = connected + 1
  /\ Goto(c, "select")
  /\ UNCHANGED <<aof, phase, stopping, job, jobs, workers, locks, peers, flushed>>

\* select! takes the branch of the watch.
SeeStop(c) ==
  /\ stage[c] = "select"
  /\ stopping
  /\ Goto(c, "leaving")
  /\ UNCHANGED <<aof, phase, stopping, job, jobs, workers, locks, connected, peers, flushed>>

\* Mutant: every command goes through the log.
TakeAnyAsWrite(c) ==
  /\ stage[c] = "select"
  /\ peer[c] = "open"
  /\ \E kind \in Kind :
       /\ job' = [job EXCEPT ![c] = kind]
       /\ IF aof
            THEN barrier' = Wait(barrier, c) /\ Goto(c, "barrier")
            ELSE Goto(c, "execute") /\ UNCHANGED barrier
  /\ UNCHANGED <<aof, phase, stopping, jobs, workers, engine, connected, peers, flushed>>

\* The client has sent a request and select! takes the branch of read_value;
\* a write waits for the barrier first if there is a log.
TakeRequest(c) ==
  /\ stage[c] = "select"
  /\ peer[c] = "open"
  /\ \E kind \in Kind :
       /\ job' = [job EXCEPT ![c] = kind]
       /\ IF aof /\ kind # "read"
            THEN barrier' = Wait(barrier, c) /\ Goto(c, "barrier")
            ELSE Goto(c, "execute") /\ UNCHANGED barrier
  /\ UNCHANGED <<aof, phase, stopping, jobs, workers, engine, connected, peers, flushed>>

\* parse_array panics as it reserves what an array announces, inside read_value.
ParserPanics(c) ==
  /\ stage[c] = "select"
  /\ peer[c] = "open"
  /\ Goto(c, "panicked")
  /\ UNCHANGED <<aof, phase, stopping, job, jobs, workers, locks, connected, peers, flushed>>

ReadBarrier(c) ==
  /\ stage[c] = "barrier"
  /\ CanRead(barrier, c)
  /\ barrier' = ReadLock(barrier, c)
  /\ engine' = Wait(engine, c)
  /\ Goto(c, "engine")
  /\ UNCHANGED <<aof, phase, stopping, job, jobs, workers, connected, peers, flushed>>

LockEngine(c) ==
  /\ stage[c] = "engine"
  /\ CanWrite(engine, c)
  /\ engine' = WriteLock(engine, c)
  /\ Goto(c, "append")
  /\ UNCHANGED <<aof, phase, stopping, job, jobs, workers, barrier, connected, peers, flushed>>

\* Logged and synced, or refused (the frame may be in the file all the same).
AppendCommand(c) ==
  /\ stage[c] = "append"
  /\ flushed' = FALSE
  /\ \E next \in {"execute", "reply"} : Goto(c, next)
  /\ UNCHANGED <<aof, phase, stopping, job, jobs, workers, locks, connected, peers>>

Execute(c) ==
  /\ stage[c] = "execute"
  /\ job[c] # "doomed"
  /\ Goto(c, "reply")
  /\ UNCHANGED <<aof, phase, stopping, job, jobs, workers, locks, connected, peers, flushed>>

\* The task unwinds: the guards are dropped, decr_connected_clients is not reached.
Panic(c) ==
  /\ stage[c] = "execute" /\ job[c] = "doomed"
  /\ DropGuards(c)
  /\ job' = [job EXCEPT ![c] = "none"]
  /\ Goto(c, "panicked")
  /\ UNCHANGED <<aof, phase, stopping, jobs, workers, connected, peers, flushed>>

\* write_value, under the guards a write still holds; it waits for room.
Reply(c) ==
  /\ stage[c] = "reply"
  /\ peer[c] = "open"
  /\ outbox[c] < OutCapacity
  /\ outbox' = [outbox EXCEPT ![c] = @ + 1]
  /\ DropGuards(c)
  /\ job' = [job EXCEPT ![c] = "none"]
  /\ Goto(c, "select")
  /\ UNCHANGED <<aof, phase, stopping, jobs, workers, connected, peer, flushed>>

\* Mutant: an error between the guards and the answer keeps the guards.
LoseClientKeepsGuards(c) ==
  /\ peer[c] = "gone"
  /\ stage[c] \in {"select", "reply"}
  /\ job' = [job EXCEPT ![c] = "none"]
  /\ Goto(c, "leaving")
  /\ UNCHANGED <<aof, phase, stopping, jobs, workers, locks, connected, peers, flushed>>

\* The stream has ended or broken: read_value or write_value says so.
LoseClient(c) ==
  /\ peer[c] = "gone"
  /\ stage[c] \in {"select", "reply"}
  /\ DropGuards(c)
  /\ job' = [job EXCEPT ![c] = "none"]
  /\ Goto(c, "leaving")
  /\ UNCHANGED <<aof, phase, stopping, jobs, workers, connected, peers, flushed>>

\* Mutant: the client is not counted out.
LeaveUncounted(c) ==
  /\ stage[c] = "leaving"
  /\ UNCHANGED connected
  /\ Goto(c, "ended")
  /\ UNCHANGED <<aof, phase, stopping, job, jobs, workers, locks, peers, flushed>>

\* decr_connected_clients, which stops at 0.
Leave(c) ==
  /\ stage[c] = "leaving"
  /\ connected' = IF connected = 0 THEN 0 ELSE connected - 1
  /\ Goto(c, "ended")
  /\ UNCHANGED <<aof, phase, stopping, job, jobs, workers, locks, peers, flushed>>

-----------------------------------------------------------------------------
(***************************************************************************)
(* The workers: a select! between the watch and an interval.               *)
(***************************************************************************)
\* The TTL worker is at its select!: a sweep waits for locks of the store only,
\* and every task releases those (ShardedDatabase's EveryCallCompletes).
TtlStops ==
  /\ ttl = "running"
  /\ stopping
  /\ ttl' = "stopped"
  /\ UNCHANGED <<aof, phase, stopping, stage, job, jobs, rewriter, locks, connected, peers, flushed>>

RewriteTick ==
  /\ rewriter = "tick"
  /\ engine' = Wait(engine, Rewriter)
  /\ rewriter' = "size"
  /\ UNCHANGED <<aof, phase, stopping, stage, job, jobs, ttl, barrier, connected, peers, flushed>>

\* Mutant: the engine's guard is kept while the worker waits for the barrier.
CheckSizeKeepsEngine ==
  /\ rewriter = "size"
  /\ CanWrite(engine, Rewriter)
  /\ engine' = WriteLock(engine, Rewriter)
  /\ rewriter' = "barrier" /\ barrier' = Wait(barrier, Rewriter)
  /\ UNCHANGED <<aof, phase, stopping, stage, job, jobs, ttl, connected, peers, flushed>>

\* file_size under a guard that is dropped at once: enough, too small or an error.
CheckSize ==
  /\ rewriter = "size"
  /\ CanWrite(engine, Rewriter)
  /\ engine' = Unlock(WriteLock(engine, Rewriter), Rewriter)
  /\ \/ rewriter' = "barrier" /\ barrier' = Wait(barrier, Rewriter)
     \/ rewriter' = "tick" /\ UNCHANGED barrier
  /\ UNCHANGED <<aof, phase, stopping, stage, job, jobs, ttl, connected, peers, flushed>>

WriteBarrier ==
  /\ rewriter = "barrier"
  /\ CanWrite(barrier, Rewriter)
  /\ barrier' = WriteLock(barrier, Rewriter)
  /\ rewriter' = "snapshot"
  /\ UNCHANGED <<aof, phase, stopping, stage, job, jobs, ttl, engine, connected, peers, flushed>>

Snapshot ==
  /\ rewriter = "snapshot"
  /\ engine' = Wait(engine, Rewriter)
  /\ rewriter' = "engine"
  /\ UNCHANGED <<aof, phase, stopping, stage, job, jobs, ttl, barrier, connected, peers, flushed>>

LockForRewrite ==
  /\ rewriter = "engine"
  /\ CanWrite(engine, Rewriter)
  /\ engine' = WriteLock(engine, Rewriter)
  /\ rewriter' = "rewrite"
  /\ UNCHANGED <<aof, phase, stopping, stage, job, jobs, ttl, barrier, connected, peers, flushed>>

\* rewrite, whatever its outcome, then both guards are dropped; the new log
\* is synced when it takes the old one's place.
Rewrite ==
  /\ rewriter = "rewrite"
  /\ DropGuards(Rewriter)
  /\ rewriter' = "tick"
  /\ flushed' = FALSE
  /\ UNCHANGED <<aof, phase, stopping, stage, job, jobs, ttl, connected, peers>>

RewriterStops ==
  /\ rewriter = "tick"
  /\ stopping
  /\ rewriter' = "stopped"
  /\ UNCHANGED <<aof, phase, stopping, stage, job, jobs, ttl, locks, connected, peers, flushed>>

-----------------------------------------------------------------------------
(***************************************************************************)
(* run_with_listener_and_shutdown.                                         *)
(***************************************************************************)

\* The configuration is valid and the log, if any, was loaded: the workers start.
Start ==
  /\ phase = "starting"
  /\ phase' = "accept"
  /\ ttl' = "running"
  /\ rewriter' = IF aof THEN "tick" ELSE "off"
  /\ UNCHANGED <<aof, stopping, stage, job, jobs, locks, connected, peers, flushed>>

Accept(c) ==
  /\ phase = "accept"
  /\ stage[c] = "backlog"
  /\ jobs' = jobs \cup {c}
  /\ Goto(c, "spawned")
  /\ UNCHANGED <<aof, phase, stopping, job, workers, locks, connected, peers, flushed>>

StopAccepting ==
  /\ phase = "accept"
  /\ stopping
  /\ phase' = "clients"
  /\ UNCHANGED <<aof, stopping, stage, job, jobs, workers, locks, connected, peers, flushed>>

\* join_next returns a task that is over, panicked or not.
JoinClient(c) ==
  /\ phase = "clients"
  /\ c \in jobs
  /\ stage[c] \in {"ended", "panicked"}
  /\ jobs' = jobs \ {c}
  /\ UNCHANGED <<aof, phase, stopping, stage, job, workers, locks, connected, peers, flushed>>

\* Mutant: the clients are not waited for.
ClientsNotJoined ==
  /\ phase = "clients"
  /\ phase' = "ttl"
  /\ UNCHANGED <<aof, stopping, stage, job, jobs, workers, locks, connected, peers, flushed>>

ClientsJoined ==
  /\ phase = "clients"
  /\ jobs = {}
  /\ phase' = "ttl"
  /\ UNCHANGED <<aof, stopping, stage, job, jobs, workers, locks, connected, peers, flushed>>

JoinTtl ==
  /\ phase = "ttl"
  /\ ttl = "stopped"
  /\ phase' = IF aof THEN "rewriter" ELSE "done"
  /\ UNCHANGED <<aof, stopping, stage, job, jobs, workers, locks, connected, peers, flushed>>

\* Mutant: the rewrite worker is not waited for.
RewriterNotJoined ==
  /\ phase = "rewriter"
  /\ engine' = Wait(engine, Main)
  /\ phase' = "flush"
  /\ UNCHANGED <<aof, stopping, stage, job, jobs, workers, barrier, connected, peers, flushed>>

JoinRewriter ==
  /\ phase = "rewriter"
  /\ rewriter = "stopped"
  /\ engine' = Wait(engine, Main)
  /\ phase' = "flush"
  /\ UNCHANGED <<aof, stopping, stage, job, jobs, workers, barrier, connected, peers, flushed>>

Flush ==
  /\ phase = "flush"
  /\ CanWrite(engine, Main)
  /\ engine' = Unlock(WriteLock(engine, Main), Main)
  /\ flushed' = TRUE
  /\ phase' = "done"
  /\ UNCHANGED <<aof, stopping, stage, job, jobs, workers, barrier, connected, peers>>

\* `?` on validate, bind or the log at the start, on accept(), or on the last
\* flush: the process ends, and what ran in it with it.
Fail ==
  /\ phase \in {"starting", "accept", "flush"}
  /\ phase' = "failed"
  /\ stage' = [c \in Conn |-> IF stage[c] \in Running THEN "aborted" ELSE stage[c]]
  /\ job' = [c \in Conn |-> "none"]
  /\ jobs' = {}
  /\ ttl' = "stopped"
  /\ rewriter' = "stopped"
  /\ barrier' = Unlocked
  /\ engine' = Unlocked
  /\ connected' = 0
  /\ UNCHANGED <<aof, stopping, peer, outbox, flushed>>

\* The listener is closed with the process.
Refuse(c) ==
  /\ ~Listening
  /\ stage[c] = "backlog"
  /\ Goto(c, "ended")
  /\ UNCHANGED <<aof, phase, stopping, job, jobs, workers, locks, connected, peers, flushed>>

-----------------------------------------------------------------------------
PeerStep(c) ==
  Connect(c) \/ TakeRequest(c) \/ ParserPanics(c) \/ ReadAnswer(c) \/ HangUp(c)

TaskStep(c) ==
  \/ Count(c) \/ ReadBarrier(c) \/ LockEngine(c) \/ AppendCommand(c)
  \/ Execute(c) \/ Panic(c) \/ Reply(c) \/ LoseClient(c) \/ Leave(c)

RewriteStep ==
  RewriteTick \/ CheckSize \/ WriteBarrier \/ Snapshot \/ LockForRewrite \/ Rewrite

MainStep ==
  \/ StopAccepting \/ ClientsJoined \/ JoinTtl \/ JoinRewriter \/ Flush
  \/ \E c \in Conn : JoinClient(c)

Next ==
  \/ \E c \in Conn : PeerStep(c) \/ TaskStep(c) \/ SeeStop(c) \/ Accept(c) \/ Refuse(c)
  \/ Signal
  \/ TtlStops
  \/ RewriteStep \/ RewriterStops
  \/ Start \/ MainStep \/ Fail

SafeSpec == Init /\ [][Next]_vars

\* A task that can go on is polled.  A select! polls its branches in random
\* order, so one that is ready again and again is taken in the end; a client
\* owes nothing.
Spec ==
  /\ SafeSpec
  /\ \A c \in Conn : WF_vars(TaskStep(c)) /\ SF_vars(SeeStop(c))
  /\ WF_vars(TtlStops)
  /\ WF_vars(RewriteStep) /\ SF_vars(RewriterStops)
  /\ WF_vars(MainStep)
  /\ \A c \in Conn : WF_vars(Refuse(c))

-----------------------------------------------------------------------------
(***************************************************************************)
(* Properties.                                                             *)
(***************************************************************************)

\* INFO's connected_clients counts the tasks between their two counts and,
\* for good, those that panicked there (server.rs:197, 205).
ConnectedExact ==
  phase # "failed" =>
    connected = Cardinality({c \in Conn : stage[c] \in (Running \ {"spawned"}) \cup {"panicked"}})

\* Where a task may hold a guard: a write that has passed the barrier.
InsideLog(c) == job[c] \in {"write", "doomed"} /\ stage[c] \in {"engine", "reply"} \cup Guarded

\* No guard outlives the work it protects, however a task ends (an answer
\* that fails, a client that goes away, a panic, a rewrite that fails), and a
\* rewrite is alone with the log (handle_client, maybe_rewrite_aof).
GuardsOwned ==
  /\ barrier.readers = {c \in Conn : aof /\ InsideLog(c)}
  /\ barrier.writers = {r \in {Rewriter} : rewriter \in {"snapshot", "engine", "rewrite"}}
  /\ barrier.readers = {} \/ barrier.writers = {}
  /\ engine.readers = {}
  /\ engine.writers = {c \in Conn : aof /\ InsideLog(c) /\ stage[c] # "engine"}
                        \cup {r \in {Rewriter} : rewriter = "rewrite"}
  /\ \A s, t \in engine.writers : s = t

\* A clean end flushes the log when nobody is left that could append to it
\* (the order of the joins before engine.flush()).
FlushIsLast ==
  phase = "done" =>
    /\ aof => flushed
    /\ \A c \in Conn : stage[c] \notin Running
    /\ ttl = "stopped" /\ rewriter \in {"stopped", "off"}

(***************************************************************************)
(* The inductive invariant.                                                *)
(***************************************************************************)

\* A task has a request exactly while it handles one, and reaches the locks
\* only for a write that is logged.
JobsOK ==
  \A c \in Conn :
    /\ job[c] # "none" <=> stage[c] \in {"barrier", "engine", "append", "execute", "reply"}
    /\ stage[c] \in {"barrier", "engine", "append"} => aof /\ job[c] # "read"

\* Whoever runs is in the JoinSet, and nobody runs before the start, once the
\* clients are joined, or after a failure.
TasksOK ==
  /\ \A c \in Conn : stage[c] \in Running => c \in jobs
  /\ phase \notin {"accept", "clients"} => jobs = {}

\* The workers run from the start until they are joined.
WorkersOK ==
  /\ phase = "starting" => ttl = "off" /\ rewriter = "off"
  /\ phase \notin {"starting", "failed"} => (aof <=> rewriter # "off")
  /\ phase \in {"rewriter", "flush", "done", "failed"} => ttl = "stopped"
  /\ phase \in {"flush", "done", "failed"} => rewriter \in {"off", "stopped"}
  /\ phase \in {"rewriter", "flush"} => aof
  /\ phase = "done" /\ aof => flushed

\* All of it is inductive.
IInv == TypeOK /\ JobsOK /\ TasksOK /\ WorkersOK /\ GuardsOwned

\* The server implements the promise of a graceful shutdown.
Live ==
  {c \in Conn : stage[c] \in Running}
    \cup {w \in {Main} : ttl = "running"}
    \cup {w \in {Rewriter} : rewriter \notin {"off", "stopped"}}

Status ==
  CASE phase = "starting" -> "new"
    [] phase = "accept"   -> "open"
    [] phase = "done"     -> "closed"
    [] phase = "failed"   -> "failed"
    [] OTHER              -> "draining"

Promise == INSTANCE GracefulService WITH Member <- Task, status <- Status, live <- Live

\* README.md:146: stop accepting, tell the workers, wait for the connections'
\* tasks, then flush the log: no task enters after the signal was seen, and
\* the server is done only when all have left.
ImplementsGracefulService == Promise!Spec

PeersRead == \A c \in Conn : WF_vars(ReadAnswer(c))

Over == phase \in {"done", "failed"}

\* A shutdown ends, whatever commands, rewrites and sweeps are under way, if
\* the clients read their answers or go away (the joins of the shutdown).
ShutdownCompletes == PeersRead => ((phase = "accept" /\ stopping) ~> Over)

\* A client that reads is answered, or sees its connection end, even if another
\* client holds up the log by not reading, as long as it writes nothing itself
\* (reads take no guard of the log, server.rs:262-288).
ReadsAnswered ==
  \A c \in Conn : WF_vars(ReadAnswer(c)) =>
    (job[c] = "read" ~> job[c] # "read")
=============================================================================
