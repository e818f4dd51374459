---------------------------- MODULE ServerProofs ----------------------------
(***************************************************************************)
(* Proofs about Server, for any number of connections and any capacity of  *)
(* their sockets: who holds the guards of the log, that a clean end        *)
(* flushes last, and that the server implements GracefulService.           *)
(***************************************************************************)
EXTENDS Server, FiniteSetTheorems, TLAPS

-----------------------------------------------------------------------------
\* What an operation on a lock does to those who hold it.
LEMMA GuardFacts ==
  ASSUME NEW lock \in Lock, NEW t \in Task
  PROVE  /\ Wait(lock, t) \in Lock
         /\ Wait(lock, t).readers = lock.readers
         /\ Wait(lock, t).writers = lock.writers
         /\ Unlock(lock, t) \in Lock
         /\ Unlock(lock, t).readers = lock.readers \ {t}
         /\ Unlock(lock, t).writers = lock.writers \ {t}
         /\ CanRead(lock, t) =>
              /\ lock.writers = {}
              /\ ReadLock(lock, t) \in Lock
              /\ ReadLock(lock, t).readers = lock.readers \cup {t}
              /\ ReadLock(lock, t).writers = {}
         /\ CanWrite(lock, t) =>
              /\ lock.readers = {} /\ lock.writers = {}
              /\ WriteLock(lock, t) \in Lock
              /\ WriteLock(lock, t).readers = {}
              /\ WriteLock(lock, t).writers = {t}
<1>1. lock.queue # << >> => Tail(lock.queue) \in Seq(Task)
  BY DEF Lock
<1>2. Append(lock.queue, t) \in Seq(Task)
  BY DEF Lock
<1> QED BY <1>1, <1>2 DEF Lock, Wait, Unlock, CanRead, CanWrite, First, ReadLock, WriteLock

\* Locks and those who ask for them.
LEMMA Locks ==
  ASSUME TypeOK
  PROVE  /\ barrier \in Lock /\ engine \in Lock
         /\ Conn \subseteq Task /\ Rewriter \in Task /\ Main \in Task
BY ServerAssumption DEF TypeOK

\* The guards a connection's task should hold: of the barrier, of the engine.
InBarrier(c) == aof /\ InsideLog(c)
InEngine(c) == aof /\ InsideLog(c) /\ stage[c] # "engine"
RewriterInBarrier == rewriter \in {"snapshot", "engine", "rewrite"}

\* A step that takes and drops no guard leaves them with their owners.
LEMMA GuardsKept ==
  ASSUME GuardsOwned,
         barrier'.readers = barrier.readers, barrier'.writers = barrier.writers,
         engine'.readers = engine.readers, engine'.writers = engine.writers,
         \A d \in Conn : (InBarrier(d)' <=> InBarrier(d)) /\ (InEngine(d)' <=> InEngine(d)),
         RewriterInBarrier' <=> RewriterInBarrier,
         (rewriter = "rewrite")' <=> (rewriter = "rewrite")
  PROVE  GuardsOwned'
BY DEF GuardsOwned, InBarrier, InEngine, RewriterInBarrier

\* A connection at stage s with request k is inside the log.
Inside(s, k) == k \in {"write", "doomed"} /\ s \in {"engine", "reply"} \cup Guarded

\* Connection c goes to stage s with request k, taking or dropping the guards
\* that go with them; nobody else moves.
Moves(c, s, k) ==
  /\ Goto(c, s)
  /\ job' = [job EXCEPT ![c] = k]
  /\ k # "none" <=> s \in {"barrier", "engine", "append", "execute", "reply"}
  /\ s \in {"barrier", "engine", "append"} => aof /\ k # "read"
  /\ s \in Running => c \in jobs'
  /\ jobs' = jobs \/ (phase = "accept" /\ jobs' = jobs \cup {c})
  /\ flushed' = flushed \/ (flushed' = FALSE /\ c \in jobs)
  /\ connected' \in Nat
  /\ outbox' \in [Conn -> 0 .. OutCapacity]
  /\ UNCHANGED <<aof, phase, stopping, ttl, rewriter, peer>>

MovesBarrier(c, s, k) ==
  /\ barrier' \in Lock
  /\ barrier'.writers = barrier.writers
  /\ IF aof /\ Inside(s, k)
       THEN barrier'.readers = barrier.readers \cup {c}
            /\ (c \in barrier.readers \/ barrier.writers = {})
       ELSE barrier'.readers = barrier.readers \ {c}

MovesEngine(c, s, k) ==
  /\ engine' \in Lock
  /\ engine'.readers = {}
  /\ IF aof /\ Inside(s, k) /\ s # "engine"
       THEN engine'.writers = engine.writers \cup {c}
            /\ (c \in engine.writers \/ engine.writers = {})
       ELSE engine'.writers = engine.writers \ {c}

-----------------------------------------------------------------------------
\* The invariant holds before anything starts.
LEMMA InitOK == Init => IInv
<1> SUFFICES ASSUME Init PROVE IInv
  OBVIOUS
<1>1. Unlocked \in Lock /\ Unlocked.readers = {} /\ Unlocked.writers = {}
  BY DEF Unlocked, Lock
<1>2. TypeOK
  <2>1. 0 \in 0 .. OutCapacity
    BY ServerAssumption
  <2>2. stage \in [Conn -> Stage] /\ job \in [Conn -> Kind \cup {"none"}]
        /\ peer \in [Conn -> {"open", "gone"}] /\ outbox \in [Conn -> 0 .. OutCapacity]
    BY <2>1 DEF Init, Stage
  <2> QED BY <1>1, <2>2 DEF Init, TypeOK, Phase, RewriteStage
<1>3. JobsOK /\ TasksOK /\ WorkersOK
  BY DEF Init, JobsOK, TasksOK, WorkersOK, Running, Guarded
<1>4. GuardsOwned
  BY <1>1 DEF Init, GuardsOwned, InsideLog
<1> QED BY <1>2, <1>3, <1>4 DEF IInv

\* A connection that moves with its guards preserves the invariant.
LEMMA MoveOK ==
  ASSUME IInv, NEW c \in Conn, NEW s \in Stage, NEW k \in Kind \cup {"none"},
         Moves(c, s, k), MovesBarrier(c, s, k), MovesEngine(c, s, k)
  PROVE  IInv'
<1> USE DEF IInv, Moves
<1>0. /\ stage' \in [Conn -> Stage] /\ job' \in [Conn -> Kind \cup {"none"}]
      /\ stage'[c] = s /\ job'[c] = k
      /\ \A d \in Conn \ {c} : stage'[d] = stage[d] /\ job'[d] = job[d]
  BY DEF TypeOK, Goto
<1>1. TypeOK'
  <2>1. jobs' \in SUBSET Conn /\ flushed' \in BOOLEAN
    BY DEF TypeOK
  <2> QED BY <1>0, <2>1 DEF TypeOK, MovesBarrier, MovesEngine
<1>2. JobsOK'
  BY <1>0 DEF JobsOK
<1>3. TasksOK'
  BY <1>0 DEF TasksOK
<1>4. WorkersOK'
  BY DEF WorkersOK, TasksOK
<1>5. GuardsOwned'
  <2>1. InsideLog(c)' <=> Inside(s, k)
    BY <1>0 DEF InsideLog, Inside
  <2>2. \A d \in Conn \ {c} : InsideLog(d)' <=> InsideLog(d)
    BY <1>0 DEF InsideLog
  <2>3. barrier'.readers = {d \in Conn : aof /\ InsideLog(d)'}
    BY <2>1, <2>2 DEF GuardsOwned, MovesBarrier
  <2>4. engine'.writers = {d \in Conn : aof /\ InsideLog(d)' /\ stage'[d] # "engine"}
                            \cup {r \in {Rewriter} : rewriter = "rewrite"}
    BY <1>0, <2>1, <2>2, ServerAssumption DEF GuardsOwned, MovesEngine
  <2>5. barrier'.readers = {} \/ barrier'.writers = {}
    BY DEF GuardsOwned, MovesBarrier
  <2>6. \A t, u \in engine'.writers : t = u
    BY DEF GuardsOwned, MovesEngine
  <2> QED BY <2>3, <2>4, <2>5, <2>6 DEF GuardsOwned, MovesBarrier, MovesEngine
<1> QED BY <1>1, <1>2, <1>3, <1>4, <1>5

\* A connection that is outside the log before and after keeps no guard.
LEMMA MoveOutside ==
  ASSUME IInv, NEW c \in Conn, NEW s \in Stage, NEW k \in Kind \cup {"none"},
         Moves(c, s, k), ~InsideLog(c) \/ ~aof, ~Inside(s, k) \/ ~aof,
         barrier' \in Lock, barrier'.readers = barrier.readers,
         barrier'.writers = barrier.writers, engine' = engine
  PROVE  IInv'
<1>1. c \notin barrier.readers /\ c \notin engine.writers
  BY ServerAssumption DEF IInv, GuardsOwned
<1>2. MovesBarrier(c, s, k) /\ MovesEngine(c, s, k)
  BY <1>1 DEF MovesBarrier, MovesEngine, IInv, TypeOK, GuardsOwned
<1> QED BY <1>2, MoveOK

\* A connection that is not accepted has no task.
LEMMA ConnectOK ==
  ASSUME IInv, NEW c \in Conn, Connect(c)
  PROVE  IInv'
<1>1. job[c] = "none" /\ ~InsideLog(c) /\ ~Inside("backlog", "none")
  BY DEF Connect, IInv, JobsOK, InsideLog, Inside, Guarded
<1>2. Moves(c, "backlog", "none")
  BY <1>1 DEF Connect, IInv, TypeOK, TasksOK, Moves, Goto, Running, Guarded, workers, peers
<1> QED BY <1>1, <1>2, MoveOutside DEF Connect, IInv, TypeOK, Stage, Running, locks

\* An accepted one enters the JoinSet with its task.
LEMMA AcceptOK ==
  ASSUME IInv, NEW c \in Conn, Accept(c)
  PROVE  IInv'
<1>1. job[c] = "none" /\ ~InsideLog(c) /\ ~Inside("spawned", "none")
  BY DEF Accept, IInv, JobsOK, InsideLog, Inside, Guarded
<1>2. Moves(c, "spawned", "none")
  BY <1>1 DEF Accept, IInv, TypeOK, TasksOK, Moves, Goto, Running, Guarded, workers, peers
<1> QED BY <1>1, <1>2, MoveOutside DEF Accept, IInv, TypeOK, Stage, Running, locks

\* Counting a client touches no guard.
LEMMA CountOK ==
  ASSUME IInv, NEW c \in Conn, Count(c)
  PROVE  IInv'
<1>1. job[c] = "none" /\ ~InsideLog(c) /\ ~Inside("select", "none")
  BY DEF Count, IInv, JobsOK, InsideLog, Inside, Guarded
<1>2. Moves(c, "select", "none")
  BY <1>1 DEF Count, IInv, TypeOK, TasksOK, Moves, Goto, Running, Guarded, workers, peers
<1> QED BY <1>1, <1>2, MoveOutside DEF Count, IInv, TypeOK, Stage, Running, locks

\* A task sees the watch only where it holds nothing.
LEMMA SeeStopOK ==
  ASSUME IInv, NEW c \in Conn, SeeStop(c)
  PROVE  IInv'
<1>1. job[c] = "none" /\ ~InsideLog(c) /\ ~Inside("leaving", "none")
  BY DEF SeeStop, IInv, JobsOK, InsideLog, Inside, Guarded
<1>2. Moves(c, "leaving", "none")
  BY <1>1 DEF SeeStop, IInv, TypeOK, TasksOK, Moves, Goto, Running, Guarded, workers, peers
<1> QED BY <1>1, <1>2, MoveOutside DEF SeeStop, IInv, TypeOK, Stage, Running, locks

\* Reading a frame holds nothing.
LEMMA ParserPanicsOK ==
  ASSUME IInv, NEW c \in Conn, ParserPanics(c)
  PROVE  IInv'
<1>1. job[c] = "none" /\ ~InsideLog(c) /\ ~Inside("panicked", "none")
  BY DEF ParserPanics, IInv, JobsOK, InsideLog, Inside, Guarded
<1>2. Moves(c, "panicked", "none")
  BY <1>1 DEF ParserPanics, IInv, TypeOK, TasksOK, Moves, Goto, Running, Guarded, workers, peers
<1> QED BY <1>1, <1>2, MoveOutside DEF ParserPanics, IInv, TypeOK, Stage, Running, locks

\* Neither does a task that is done.
LEMMA LeaveOK ==
  ASSUME IInv, NEW c \in Conn, Leave(c)
  PROVE  IInv'
<1>1. job[c] = "none" /\ ~InsideLog(c) /\ ~Inside("ended", "none")
  BY DEF Leave, IInv, JobsOK, InsideLog, Inside, Guarded
<1>2. Moves(c, "ended", "none")
  BY <1>1 DEF Leave, IInv, TypeOK, TasksOK, Moves, Goto, Running, Guarded, workers, peers
<1> QED BY <1>1, <1>2, MoveOutside DEF Leave, IInv, TypeOK, Stage, Running, locks

\* Nor a connection that never had one.
LEMMA RefuseOK ==
  ASSUME IInv, NEW c \in Conn, Refuse(c)
  PROVE  IInv'
<1>1. job[c] = "none" /\ ~InsideLog(c) /\ ~Inside("ended", "none")
  BY DEF Refuse, IInv, JobsOK, InsideLog, Inside, Guarded
<1>2. Moves(c, "ended", "none")
  BY <1>1 DEF Refuse, IInv, TypeOK, TasksOK, Moves, Goto, Running, Guarded, workers, peers
<1> QED BY <1>1, <1>2, MoveOutside DEF Refuse, IInv, TypeOK, Stage, Running, locks

\* A request takes its place in the barrier's queue, which is no guard yet.
LEMMA TakeRequestOK ==
  ASSUME IInv, NEW c \in Conn, TakeRequest(c)
  PROVE  IInv'
<1>1. PICK kind \in Kind :
        /\ job' = [job EXCEPT ![c] = kind]
        /\ IF aof /\ kind # "read"
             THEN barrier' = Wait(barrier, c) /\ Goto(c, "barrier")
             ELSE Goto(c, "execute") /\ UNCHANGED barrier
  BY DEF TakeRequest
<1>2. c \in jobs /\ job[c] = "none" /\ ~InsideLog(c)
  BY DEF TakeRequest, IInv, JobsOK, TasksOK, InsideLog, Running, Guarded
<1>3. CASE aof /\ kind # "read"
  <2>1. ~Inside("barrier", kind)
    BY DEF Inside, Guarded
  <2>2. Moves(c, "barrier", kind)
    BY <1>1, <1>2, <1>3 DEF TakeRequest, IInv, TypeOK, Moves, Kind, workers, peers
  <2>3. barrier' \in Lock /\ barrier'.readers = barrier.readers
        /\ barrier'.writers = barrier.writers
    <3>1. c \in Task /\ barrier \in Lock /\ barrier' = Wait(barrier, c)
      BY <1>1, <1>3, Locks DEF IInv
    <3> QED BY <3>1, GuardFacts
  <2> QED BY <1>2, <2>1, <2>2, <2>3, MoveOutside DEF TakeRequest, Stage, Running
<1>4. CASE ~(aof /\ kind # "read")
  <2>1. ~Inside("execute", kind) \/ ~aof
    BY <1>4 DEF Inside, Kind
  <2>2. Moves(c, "execute", kind)
    BY <1>1, <1>2, <1>4 DEF TakeRequest, IInv, TypeOK, Moves, Kind, workers, peers
  <2> QED BY <1>1, <1>2, <1>4, <2>1, <2>2, MoveOutside
          DEF TakeRequest, IInv, TypeOK, Stage, Running, Guarded
<1> QED BY <1>3, <1>4

\* The barrier is shared when no rewrite has it.
LEMMA ReadBarrierOK ==
  ASSUME IInv, NEW c \in Conn, ReadBarrier(c)
  PROVE  IInv'
<1>1. aof /\ c \in jobs /\ job[c] \in {"write", "doomed"} /\ "engine" \in Stage
  BY DEF ReadBarrier, IInv, JobsOK, TasksOK, TypeOK, Kind, Stage, Running, Guarded
<1>2. Moves(c, "engine", job[c])
  BY <1>1 DEF ReadBarrier, IInv, TypeOK, Moves, workers, peers
<1>3. MovesBarrier(c, "engine", job[c])
  <2>1. c \in Task /\ barrier \in Lock /\ barrier' = ReadLock(barrier, c) /\ CanRead(barrier, c)
    BY Locks DEF ReadBarrier, IInv
  <2>2. /\ barrier.writers = {} /\ barrier' \in Lock
        /\ barrier'.readers = barrier.readers \cup {c} /\ barrier'.writers = {}
    BY <2>1, GuardFacts
  <2> QED BY <1>1, <2>2 DEF MovesBarrier, Inside
<1>4. MovesEngine(c, "engine", job[c])
  <2>1. ~(InsideLog(c) /\ stage[c] # "engine")
    BY DEF ReadBarrier, InsideLog, Guarded
  <2>2. c \notin engine.writers
    BY <2>1, ServerAssumption DEF IInv, GuardsOwned
  <2>3. c \in Task /\ engine \in Lock /\ engine' = Wait(engine, c)
    BY Locks DEF ReadBarrier, IInv
  <2>4. /\ engine' \in Lock /\ engine'.readers = engine.readers
        /\ engine'.writers = engine.writers
    BY <2>3, GuardFacts
  <2> QED BY <2>2, <2>4 DEF IInv, MovesEngine, GuardsOwned
<1> QED BY <1>1, <1>2, <1>3, <1>4, MoveOK DEF IInv, TypeOK

\* The engine is taken when nobody has it.
LEMMA LockEngineOK ==
  ASSUME IInv, NEW c \in Conn, LockEngine(c)
  PROVE  IInv'
<1>1. aof /\ c \in jobs /\ job[c] \in {"write", "doomed"} /\ "append" \in Stage
  BY DEF LockEngine, IInv, JobsOK, TasksOK, TypeOK, Kind, Stage, Running, Guarded
<1>2. Moves(c, "append", job[c])
  BY <1>1 DEF LockEngine, IInv, TypeOK, Moves, workers, peers
<1>3. c \in barrier.readers
  BY <1>1 DEF LockEngine, IInv, GuardsOwned, InsideLog
<1>4. MovesBarrier(c, "append", job[c])
  BY <1>1, <1>3 DEF LockEngine, IInv, TypeOK, MovesBarrier, Inside, Guarded
<1>5. MovesEngine(c, "append", job[c])
  <2>1. c \in Task /\ engine \in Lock /\ engine' = WriteLock(engine, c) /\ CanWrite(engine, c)
    BY Locks DEF LockEngine, IInv
  <2>2. /\ engine.writers = {} /\ engine' \in Lock
        /\ engine'.readers = {} /\ engine'.writers = {c}
    BY <2>1, GuardFacts
  <2> QED BY <1>1, <2>2 DEF MovesEngine, Inside, Guarded
<1> QED BY <1>1, <1>2, <1>4, <1>5, MoveOK DEF IInv, TypeOK

\* Logged or not, a write keeps its guards until it has answered.
LEMMA AppendCommandOK ==
  ASSUME IInv, NEW c \in Conn, AppendCommand(c)
  PROVE  IInv'
<1>1. aof /\ c \in jobs /\ job[c] \in {"write", "doomed"}
  BY DEF AppendCommand, IInv, JobsOK, TasksOK, TypeOK, Kind, Running, Guarded
<1>2. PICK s \in {"execute", "reply"} : Goto(c, s)
  BY DEF AppendCommand
<1>3. Moves(c, s, job[c]) /\ s \in Stage
  BY <1>1, <1>2 DEF AppendCommand, IInv, TypeOK, Moves, Stage, Running, Guarded, workers, peers
<1>4. c \in barrier.readers /\ c \in engine.writers
  BY <1>1 DEF AppendCommand, IInv, GuardsOwned, InsideLog, Guarded
<1>5. MovesBarrier(c, s, job[c]) /\ MovesEngine(c, s, job[c])
  BY <1>1, <1>4
     DEF AppendCommand, IInv, TypeOK, GuardsOwned, MovesBarrier, MovesEngine, Inside, Guarded, locks
<1> QED BY <1>3, <1>5, MoveOK DEF IInv, TypeOK

\* So does its execution; a read has none.
LEMMA ExecuteOK ==
  ASSUME IInv, NEW c \in Conn, Execute(c)
  PROVE  IInv'
<1>1. c \in jobs /\ job[c] # "none" /\ "reply" \in Stage
  BY DEF Execute, IInv, JobsOK, TasksOK, Stage, Running, Guarded
<1>2. Moves(c, "reply", job[c])
  BY <1>1 DEF Execute, IInv, TypeOK, Moves, workers, peers
<1>3. InsideLog(c) <=> Inside("reply", job[c])
  BY DEF Execute, InsideLog, Inside, Guarded
<1>4. /\ c \in barrier.readers <=> aof /\ Inside("reply", job[c])
      /\ c \in engine.writers <=> aof /\ Inside("reply", job[c])
  BY <1>3, ServerAssumption DEF Execute, IInv, GuardsOwned
<1>5. MovesBarrier(c, "reply", job[c]) /\ MovesEngine(c, "reply", job[c])
  BY <1>4 DEF Execute, IInv, TypeOK, GuardsOwned, MovesBarrier, MovesEngine, locks
<1> QED BY <1>1, <1>2, <1>5, MoveOK DEF IInv, TypeOK

\* A task that is done with its request drops both guards.
LEMMA DropOK ==
  ASSUME IInv, NEW c \in Conn, NEW s \in {"panicked", "select", "leaving"},
         Moves(c, s, "none"), DropGuards(c)
  PROVE  IInv'
<1>1. s \in Stage /\ ~Inside(s, "none")
  BY DEF Stage, Running, Inside
<1>2. MovesBarrier(c, s, "none") /\ MovesEngine(c, s, "none")
  <2>1. /\ c \in Task /\ barrier \in Lock /\ engine \in Lock
        /\ barrier' = Unlock(barrier, c) /\ engine' = Unlock(engine, c)
    BY Locks DEF DropGuards, IInv
  <2>2. /\ barrier' \in Lock /\ engine' \in Lock
        /\ barrier'.readers = barrier.readers \ {c} /\ barrier'.writers = barrier.writers \ {c}
        /\ engine'.readers = engine.readers \ {c} /\ engine'.writers = engine.writers \ {c}
    BY <2>1, GuardFacts
  <2>3. c \notin barrier.writers /\ engine.readers = {}
    BY ServerAssumption DEF IInv, GuardsOwned
  <2> QED BY <1>1, <2>2, <2>3 DEF MovesBarrier, MovesEngine
<1> QED BY <1>1, <1>2, MoveOK

\* A panic drops them as the task unwinds.
LEMMA PanicOK ==
  ASSUME IInv, NEW c \in Conn, Panic(c)
  PROVE  IInv'
<1>1. Moves(c, "panicked", "none")
  BY DEF Panic, IInv, TypeOK, Moves, Running, Guarded, workers, peers
<1> QED BY <1>1, DropOK DEF Panic

\* An answer that found room ends the request.
LEMMA ReplyOK ==
  ASSUME IInv, NEW c \in Conn, Reply(c)
  PROVE  IInv'
<1>1. c \in jobs
  BY DEF Reply, IInv, TasksOK, Running
<1>2. outbox' \in [Conn -> 0 .. OutCapacity]
  BY ServerAssumption DEF Reply, IInv, TypeOK
<1>3. Moves(c, "select", "none")
  BY <1>1, <1>2 DEF Reply, IInv, TypeOK, Moves, workers
<1> QED BY <1>3, DropOK DEF Reply

\* So does a client that has gone away.
LEMMA LoseClientOK ==
  ASSUME IInv, NEW c \in Conn, LoseClient(c)
  PROVE  IInv'
<1>1. c \in jobs
  BY DEF LoseClient, IInv, TasksOK, Running
<1>2. Moves(c, "leaving", "none")
  BY <1>1 DEF LoseClient, IInv, TypeOK, Moves, workers, peers
<1> QED BY <1>2, DropOK DEF LoseClient

-----------------------------------------------------------------------------
\* A step of nobody who may hold a guard.
LEMMA AsideOK ==
  ASSUME IInv, UNCHANGED <<aof, stage, job, rewriter>>,
         barrier' \in Lock, barrier'.readers = barrier.readers, barrier'.writers = barrier.writers,
         engine' \in Lock, engine'.readers = engine.readers, engine'.writers = engine.writers
  PROVE  JobsOK' /\ GuardsOwned'
<1>1. JobsOK'
  BY DEF IInv, JobsOK
<1>2. \A d \in Conn : (InBarrier(d)' <=> InBarrier(d)) /\ (InEngine(d)' <=> InEngine(d))
  BY DEF InBarrier, InEngine, InsideLog
<1> QED BY <1>1, <1>2, GuardsKept DEF IInv, RewriterInBarrier

\* The clients and the signal.
LEMMA PeersOK ==
  ASSUME IInv, Signal \/ (\E c \in Conn : ReadAnswer(c) \/ HangUp(c))
  PROVE  IInv'
<1>1. UNCHANGED <<aof, phase, stage, job, jobs, ttl, rewriter, barrier, engine, connected, flushed>>
  BY DEF Signal, ReadAnswer, HangUp, locks, workers
<1>2. JobsOK' /\ GuardsOwned'
  BY <1>1, AsideOK DEF IInv, TypeOK
<1>3. TasksOK' /\ WorkersOK'
  BY <1>1 DEF IInv, TasksOK, WorkersOK
<1>4. TypeOK'
  <2>1. CASE Signal
    BY <1>1, <2>1 DEF Signal, IInv, TypeOK, peers
  <2>2. ASSUME NEW c \in Conn, ReadAnswer(c) PROVE TypeOK'
    <3>1. outbox' \in [Conn -> 0 .. OutCapacity]
      BY <2>2, ServerAssumption DEF ReadAnswer, IInv, TypeOK
    <3> QED BY <1>1, <2>2, <3>1 DEF ReadAnswer, IInv, TypeOK
  <2>3. ASSUME NEW c \in Conn, HangUp(c) PROVE TypeOK'
    <3>1. outbox' \in [Conn -> 0 .. OutCapacity] /\ peer' \in [Conn -> {"open", "gone"}]
      BY <2>3, ServerAssumption DEF HangUp, IInv, TypeOK
    <3> QED BY <1>1, <2>3, <3>1 DEF HangUp, IInv, TypeOK
  <2> QED BY <2>1, <2>2, <2>3
<1> QED BY <1>2, <1>3, <1>4 DEF IInv

\* The start, the joins and the end of the TTL worker.
LEMMA MainOK ==
  ASSUME IInv, \/ TtlStops \/ StopAccepting \/ ClientsJoined \/ JoinTtl
               \/ \E c \in Conn : JoinClient(c)
  PROVE  IInv'
<1>1. UNCHANGED <<aof, stopping, stage, job, rewriter, barrier, engine, connected, peer, outbox, flushed>>
  BY DEF TtlStops, StopAccepting, ClientsJoined, JoinTtl, JoinClient, locks, workers, peers
<1>2. JobsOK' /\ GuardsOwned'
  BY <1>1, AsideOK DEF IInv, TypeOK
<1>3. CASE TtlStops
  <2>1. TypeOK' /\ TasksOK' /\ WorkersOK'
    BY <1>1, <1>3 DEF TtlStops, IInv, TypeOK, TasksOK, WorkersOK
  <2> QED BY <1>2, <2>1 DEF IInv
<1>4. CASE StopAccepting
  <2>1. TypeOK' /\ TasksOK' /\ WorkersOK'
    BY <1>1, <1>4 DEF StopAccepting, IInv, TypeOK, TasksOK, WorkersOK, Phase, workers
  <2> QED BY <1>2, <2>1 DEF IInv
<1>5. CASE ClientsJoined
  <2>1. TypeOK' /\ TasksOK' /\ WorkersOK'
    BY <1>1, <1>5 DEF ClientsJoined, IInv, TypeOK, TasksOK, WorkersOK, Phase, workers
  <2> QED BY <1>2, <2>1 DEF IInv
<1>6. CASE JoinTtl
  <2>1. TypeOK' /\ TasksOK'
    BY <1>1, <1>6 DEF JoinTtl, IInv, TypeOK, TasksOK, Phase, workers
  <2>2. WorkersOK'
    BY <1>1, <1>6 DEF JoinTtl, IInv, TypeOK, WorkersOK, workers
  <2> QED BY <1>2, <2>1, <2>2 DEF IInv
<1>7. ASSUME NEW c \in Conn, JoinClient(c) PROVE IInv'
  <2>1. stage[c] \notin Running
    BY <1>7 DEF JoinClient, Running, Guarded
  <2>2. TypeOK' /\ TasksOK' /\ WorkersOK'
    BY <1>1, <1>7, <2>1 DEF JoinClient, IInv, TypeOK, TasksOK, WorkersOK, workers
  <2> QED BY <1>2, <2>2 DEF IInv
<1> QED BY <1>3, <1>4, <1>5, <1>6, <1>7

\* The workers start when nothing else has.
LEMMA StartOK ==
  ASSUME IInv, Start
  PROVE  IInv'
<1>1. rewriter = "off" /\ rewriter' \in {"off", "tick"}
  BY DEF Start, IInv, WorkersOK
<1>2. \A d \in Conn : (InBarrier(d)' <=> InBarrier(d)) /\ (InEngine(d)' <=> InEngine(d))
  BY DEF Start, InBarrier, InEngine, InsideLog
<1>3. JobsOK' /\ TasksOK' /\ WorkersOK'
  BY DEF Start, IInv, TypeOK, JobsOK, TasksOK, WorkersOK
<1>4. TypeOK'
  BY <1>1 DEF Start, IInv, TypeOK, Phase, RewriteStage, locks, peers
<1>5. GuardsOwned'
  BY <1>1, <1>2, GuardsKept DEF Start, IInv, RewriterInBarrier, locks
<1> QED BY <1>3, <1>4, <1>5 DEF IInv

\* The last flush asks for the engine after the rewrite worker has ended.
LEMMA JoinRewriterOK ==
  ASSUME IInv, JoinRewriter
  PROVE  IInv'
<1>1. Main \in Task /\ engine \in Lock /\ engine' = Wait(engine, Main)
  BY Locks DEF JoinRewriter, IInv
<1>2. engine' \in Lock /\ engine'.readers = engine.readers /\ engine'.writers = engine.writers
  BY <1>1, GuardFacts
<1>3. JobsOK' /\ GuardsOwned'
  BY <1>2, AsideOK DEF JoinRewriter, IInv, TypeOK, workers
<1>4. TypeOK' /\ TasksOK' /\ WorkersOK'
  BY <1>2 DEF JoinRewriter, IInv, TypeOK, TasksOK, WorkersOK, Phase, workers, peers
<1> QED BY <1>3, <1>4 DEF IInv

\* It takes the engine and gives it back at once.
LEMMA FlushOK ==
  ASSUME IInv, Flush
  PROVE  IInv'
<1>1. /\ Main \in Task /\ engine \in Lock /\ CanWrite(engine, Main)
      /\ engine' = Unlock(WriteLock(engine, Main), Main)
  BY Locks DEF Flush, IInv
<1>2. /\ engine.readers = {} /\ engine.writers = {}
      /\ WriteLock(engine, Main) \in Lock
      /\ WriteLock(engine, Main).readers = {} /\ WriteLock(engine, Main).writers = {Main}
  BY <1>1, GuardFacts
<1>3. /\ engine' \in Lock
      /\ engine'.readers = {} \ {Main} /\ engine'.writers = {Main} \ {Main}
  BY <1>1, <1>2, GuardFacts
<1>4. engine'.readers = engine.readers /\ engine'.writers = engine.writers
  BY <1>2, <1>3
<1>5. JobsOK' /\ GuardsOwned'
  BY <1>3, <1>4, AsideOK DEF Flush, IInv, TypeOK, workers
<1>6. TypeOK' /\ TasksOK' /\ WorkersOK'
  BY <1>3 DEF Flush, IInv, TypeOK, TasksOK, WorkersOK, Phase, workers, peers
<1> QED BY <1>5, <1>6 DEF IInv

\* A failure takes everything with it.
LEMMA FailOK ==
  ASSUME IInv, Fail
  PROVE  IInv'
<1>1. Unlocked \in Lock /\ Unlocked.readers = {} /\ Unlocked.writers = {}
  BY DEF Unlocked, Lock
<1>2. stage' \in [Conn -> Stage] /\ \A c \in Conn : stage'[c] \notin Running
  BY DEF Fail, IInv, TypeOK, Stage, Running, Guarded
<1>3. job' = [c \in Conn |-> "none"]
  BY DEF Fail
<1>4. TypeOK'
  BY <1>1, <1>2, <1>3 DEF Fail, IInv, TypeOK, Phase, RewriteStage
<1>5. JobsOK'
  BY <1>2, <1>3 DEF JobsOK, Running, Guarded
<1>6. TasksOK' /\ WorkersOK'
  BY <1>2 DEF Fail, IInv, TypeOK, TasksOK, WorkersOK
<1>7. GuardsOwned'
  BY <1>1, <1>3 DEF Fail, GuardsOwned, InsideLog
<1> QED BY <1>4, <1>5, <1>6, <1>7 DEF IInv

-----------------------------------------------------------------------------
\* The rewrite worker goes to r with the guards that belong there; nobody else
\* moves.
RewriterMoves(r) ==
  /\ rewriter \notin {"off", "stopped"}
  /\ rewriter' = r
  /\ barrier' \in Lock
  /\ barrier'.readers = barrier.readers
  /\ IF r \in {"snapshot", "engine", "rewrite"}
       THEN barrier'.writers = {Rewriter} /\ barrier.readers = {}
       ELSE barrier'.writers = {}
  /\ engine' \in Lock
  /\ engine'.readers = {}
  /\ IF r = "rewrite"
       THEN engine'.writers = {Rewriter} /\ engine.writers = {}
       ELSE engine'.writers = engine.writers \ {Rewriter}
  /\ flushed' \in BOOLEAN
  /\ UNCHANGED <<aof, phase, stopping, stage, job, jobs, ttl, connected, peer, outbox>>

\* A worker that moves with its guards preserves the invariant.
LEMMA RewriterMovesOK ==
  ASSUME IInv, NEW r \in RewriteStage \ {"off"}, RewriterMoves(r)
  PROVE  IInv'
<1> USE DEF IInv, RewriterMoves
<1>1. phase # "done" /\ phase \notin {"starting", "flush", "failed"}
  BY DEF WorkersOK, TypeOK
<1>2. TypeOK' /\ JobsOK' /\ TasksOK' /\ WorkersOK'
  BY <1>1 DEF TypeOK, JobsOK, TasksOK, WorkersOK
<1>3. \A d \in Conn : (InBarrier(d)' <=> InBarrier(d)) /\ (InEngine(d)' <=> InEngine(d))
  BY DEF InBarrier, InEngine, InsideLog
<1>4. engine'.writers = {d \in Conn : InEngine(d)'} \cup {w \in {Rewriter} : r = "rewrite"}
  <2>1. engine.writers \ {Rewriter} = {d \in Conn : InEngine(d)}
    BY ServerAssumption DEF GuardsOwned, InEngine
  <2> QED BY <1>3, <2>1
<1>5. barrier'.readers = {d \in Conn : InBarrier(d)'}
  BY <1>3 DEF GuardsOwned, InBarrier
<1>6. \A t, u \in engine'.writers : t = u
  BY DEF GuardsOwned
<1>7. barrier'.writers = {w \in {Rewriter} : r \in {"snapshot", "engine", "rewrite"}}
  OBVIOUS
<1>8. barrier'.readers = {} \/ barrier'.writers = {}
  OBVIOUS
<1>9. GuardsOwned'
  BY <1>4, <1>5, <1>6, <1>7, <1>8 DEF GuardsOwned, InBarrier, InEngine
<1> QED BY <1>2, <1>9

\* What the worker holds where it stands.
LEMMA RewriterHolds ==
  ASSUME IInv
  PROVE  /\ engine.readers = {}
         /\ rewriter # "rewrite" => Rewriter \notin engine.writers
         /\ rewriter \in {"snapshot", "engine", "rewrite"} =>
              barrier.writers = {Rewriter} /\ barrier.readers = {}
         /\ rewriter \notin {"snapshot", "engine", "rewrite"} => barrier.writers = {}
BY ServerAssumption DEF IInv, GuardsOwned

\* The tick, the snapshot and the end of the worker take no guard.
LEMMA RewriterWaitsOK ==
  ASSUME IInv, RewriteTick \/ Snapshot \/ RewriterStops
  PROVE  IInv'
<1>1. Rewriter \in Task /\ engine \in Lock /\ barrier \in Lock
  BY Locks DEF IInv
<1>2. /\ Wait(engine, Rewriter) \in Lock
      /\ Wait(engine, Rewriter).readers = engine.readers
      /\ Wait(engine, Rewriter).writers = engine.writers
  BY <1>1, GuardFacts
<1>3. CASE RewriteTick
  <2>1. RewriterMoves("size")
    BY <1>1, <1>2, <1>3, RewriterHolds DEF RewriteTick, RewriterMoves, IInv, TypeOK, peers
  <2> QED BY <2>1, RewriterMovesOK DEF RewriteStage
<1>4. CASE Snapshot
  <2>1. RewriterMoves("engine")
    BY <1>1, <1>2, <1>4, RewriterHolds DEF Snapshot, RewriterMoves, IInv, TypeOK, peers
  <2> QED BY <2>1, RewriterMovesOK DEF RewriteStage
<1>5. CASE RewriterStops
  <2>1. RewriterMoves("stopped")
    BY <1>1, <1>5, RewriterHolds DEF RewriterStops, RewriterMoves, IInv, TypeOK, peers, locks
  <2> QED BY <2>1, RewriterMovesOK DEF RewriteStage
<1> QED BY <1>3, <1>4, <1>5

\* The engine is given back before the worker asks for the barrier.
LEMMA CheckSizeOK ==
  ASSUME IInv, CheckSize
  PROVE  IInv'
<1>1. /\ Rewriter \in Task /\ engine \in Lock /\ barrier \in Lock /\ CanWrite(engine, Rewriter)
      /\ engine' = Unlock(WriteLock(engine, Rewriter), Rewriter)
  BY Locks DEF CheckSize, IInv
<1>2. /\ engine.readers = {} /\ engine.writers = {}
      /\ WriteLock(engine, Rewriter) \in Lock
      /\ WriteLock(engine, Rewriter).readers = {}
      /\ WriteLock(engine, Rewriter).writers = {Rewriter}
  BY <1>1, GuardFacts
<1>3. /\ engine' \in Lock /\ engine'.readers = {} \ {Rewriter}
      /\ engine'.writers = {Rewriter} \ {Rewriter}
  BY <1>1, <1>2, GuardFacts
<1>4. /\ Wait(barrier, Rewriter) \in Lock
      /\ Wait(barrier, Rewriter).readers = barrier.readers
      /\ Wait(barrier, Rewriter).writers = barrier.writers
  BY <1>1, GuardFacts
<1>5. PICK r \in {"barrier", "tick"} :
        rewriter' = r /\ (barrier' = barrier \/ barrier' = Wait(barrier, Rewriter))
  BY DEF CheckSize
<1>6. RewriterMoves(r)
  BY <1>1, <1>2, <1>3, <1>4, <1>5, RewriterHolds DEF CheckSize, RewriterMoves, IInv, TypeOK, peers
<1> QED BY <1>6, RewriterMovesOK DEF RewriteStage

\* The barrier is taken when no write is inside the log.
LEMMA WriteBarrierOK ==
  ASSUME IInv, WriteBarrier
  PROVE  IInv'
<1>1. /\ Rewriter \in Task /\ engine \in Lock /\ barrier \in Lock /\ CanWrite(barrier, Rewriter)
      /\ barrier' = WriteLock(barrier, Rewriter)
  BY Locks DEF WriteBarrier, IInv
<1>2. /\ barrier.readers = {} /\ barrier' \in Lock
      /\ barrier'.readers = {} /\ barrier'.writers = {Rewriter}
  BY <1>1, GuardFacts
<1>3. RewriterMoves("snapshot")
  BY <1>1, <1>2, RewriterHolds DEF WriteBarrier, RewriterMoves, IInv, TypeOK, peers
<1> QED BY <1>3, RewriterMovesOK DEF RewriteStage

\* The engine is taken when nobody has it.
LEMMA LockForRewriteOK ==
  ASSUME IInv, LockForRewrite
  PROVE  IInv'
<1>1. /\ Rewriter \in Task /\ engine \in Lock /\ barrier \in Lock /\ CanWrite(engine, Rewriter)
      /\ engine' = WriteLock(engine, Rewriter)
  BY Locks DEF LockForRewrite, IInv
<1>2. /\ engine.writers = {} /\ engine' \in Lock
      /\ engine'.readers = {} /\ engine'.writers = {Rewriter}
  BY <1>1, GuardFacts
<1>3. RewriterMoves("rewrite")
  BY <1>1, <1>2, RewriterHolds DEF LockForRewrite, RewriterMoves, IInv, TypeOK, peers
<1> QED BY <1>3, RewriterMovesOK DEF RewriteStage

\* Both guards go with the rewrite, whatever came of it.
LEMMA RewriteOK ==
  ASSUME IInv, Rewrite
  PROVE  IInv'
<1>1. /\ Rewriter \in Task /\ engine \in Lock /\ barrier \in Lock
      /\ engine' = Unlock(engine, Rewriter) /\ barrier' = Unlock(barrier, Rewriter)
  BY Locks DEF Rewrite, DropGuards, IInv
<1>2. /\ engine' \in Lock /\ barrier' \in Lock
      /\ engine'.readers = engine.readers \ {Rewriter}
      /\ engine'.writers = engine.writers \ {Rewriter}
      /\ barrier'.readers = barrier.readers \ {Rewriter}
      /\ barrier'.writers = barrier.writers \ {Rewriter}
  BY <1>1, GuardFacts
<1>3. RewriterMoves("tick")
  BY <1>1, <1>2, RewriterHolds DEF Rewrite, RewriterMoves, IInv, TypeOK, peers
<1> QED BY <1>3, RewriterMovesOK DEF RewriteStage

-----------------------------------------------------------------------------
\* Every step preserves the invariant.
LEMMA NextOK == IInv /\ [Next]_vars => IInv'
<1> SUFFICES ASSUME IInv, [Next]_vars PROVE IInv'
  OBVIOUS
<1>1. ASSUME NEW c \in Conn, PeerStep(c) PROVE IInv'
  BY <1>1, ConnectOK, TakeRequestOK, ParserPanicsOK, PeersOK DEF PeerStep
<1>2. ASSUME NEW c \in Conn, TaskStep(c) PROVE IInv'
  BY <1>2, CountOK, ReadBarrierOK, LockEngineOK, AppendCommandOK, ExecuteOK, PanicOK,
     ReplyOK, LoseClientOK, LeaveOK DEF TaskStep
<1>3. ASSUME NEW c \in Conn, SeeStop(c) \/ Accept(c) \/ Refuse(c) PROVE IInv'
  BY <1>3, SeeStopOK, AcceptOK, RefuseOK
<1>4. CASE RewriteStep \/ RewriterStops
  BY <1>4, RewriterWaitsOK, CheckSizeOK, WriteBarrierOK, LockForRewriteOK, RewriteOK
     DEF RewriteStep
<1>5. CASE Signal \/ TtlStops \/ Start \/ MainStep \/ Fail
  BY <1>5, PeersOK, MainOK, StartOK, JoinRewriterOK, FlushOK, FailOK DEF MainStep
<1>6. CASE UNCHANGED vars
  <2>1. UNCHANGED <<aof, phase, stopping, stage, job, jobs, ttl, rewriter, barrier, engine,
                    connected, peer, outbox, flushed>>
    BY <1>6 DEF vars, workers, locks, peers
  <2>2. JobsOK' /\ GuardsOwned'
    BY <2>1, AsideOK DEF IInv, TypeOK
  <2> QED BY <2>1, <2>2 DEF IInv, TypeOK, TasksOK, WorkersOK
<1> QED BY <1>1, <1>2, <1>3, <1>4, <1>5, <1>6 DEF Next

\* The inductive invariant of the server, for any number of clients: a guard of
\* the log is held exactly where handle_client and maybe_rewrite_aof hold it,
\* and the joins of the shutdown come in their order.
THEOREM ServerInvariance == SafeSpec => []IInv
<1>1. Init => IInv
  BY InitOK
<1>2. IInv /\ [Next]_vars => IInv'
  BY NextOK
<1> QED BY <1>1, <1>2, PTL DEF SafeSpec

\* The variables keep their types.
THEOREM ServerTypes == SafeSpec => []TypeOK
<1>1. IInv => TypeOK
  BY DEF IInv
<1> QED BY <1>1, ServerInvariance, PTL

\* No guard of the log outlives the work it protects, and a rewrite is alone
\* with the log, however many clients write, panic or go away.
THEOREM GuardsAreOwned == SafeSpec => []GuardsOwned
<1>1. IInv => GuardsOwned
  BY DEF IInv
<1> QED BY <1>1, ServerInvariance, PTL

\* A clean end has flushed the log with no task left that could append to it.
THEOREM FlushedLast == SafeSpec => []FlushIsLast
<1>1. IInv => FlushIsLast
  BY DEF IInv, TasksOK, WorkersOK, FlushIsLast
<1> QED BY <1>1, ServerInvariance, PTL

-----------------------------------------------------------------------------
(***************************************************************************)
(* The server implements GracefulService.                                  *)
(***************************************************************************)

\* A task that neither starts nor ends stays among those that run.
LEMMA StillLive ==
  ASSUME TypeOK, NEW c \in Conn, NEW s \in Stage, Goto(c, s),
         s \in Running <=> stage[c] \in Running, UNCHANGED <<phase, ttl, rewriter>>
  PROVE  UNCHANGED <<Status, Live>>
<1>1. \A d \in Conn : stage'[d] \in Running <=> stage[d] \in Running
  BY DEF TypeOK, Goto
<1> QED BY <1>1 DEF Status, Live

\* One that ends leaves.
LEMMA EndsLive ==
  ASSUME IInv, NEW c \in Conn, NEW s \in {"ended", "panicked"}, Goto(c, s),
         UNCHANGED <<phase, ttl, rewriter>>
  PROVE  Promise!Leave(c)
<1>1. s \notin Running
  BY DEF Running, Guarded
<1>2. \A d \in Conn : stage'[d] \in Running <=> stage[d] \in Running /\ d # c
  BY <1>1 DEF IInv, TypeOK, Goto
<1> QED BY <1>2, ServerAssumption DEF Status, Live, Promise!Leave

\* What a client's task, or a client, does is a stutter, or the task's end.
LEMMA ConnImplements ==
  ASSUME IInv, NEW c \in Conn, PeerStep(c) \/ TaskStep(c) \/ SeeStop(c) \/ Refuse(c)
  PROVE  Promise!Leave(c) \/ UNCHANGED <<Status, Live>>
<1> USE DEF workers, IInv
<1>1. UNCHANGED <<phase, ttl, rewriter>>
  BY DEF PeerStep, Connect, TakeRequest, ParserPanics, ReadAnswer, HangUp, TaskStep, Count,
         ReadBarrier, LockEngine, AppendCommand, Execute, Panic, Reply, LoseClient, Leave,
         SeeStop, Refuse
<1>2. CASE ReadAnswer(c) \/ HangUp(c)
  BY <1>2 DEF ReadAnswer, HangUp, Status, Live
<1>3. CASE ParserPanics(c) \/ Panic(c)
  BY <1>1, <1>3, EndsLive DEF ParserPanics, Panic
<1>4. CASE Leave(c) \/ Refuse(c)
  BY <1>1, <1>4, EndsLive DEF Leave, Refuse
<1>5. CASE Connect(c)
  BY <1>1, <1>5, StillLive DEF Connect, Stage, Running, Guarded
<1>6. CASE TakeRequest(c)
  <2>1. PICK s \in {"barrier", "execute"} : Goto(c, s)
    BY <1>6 DEF TakeRequest
  <2> QED BY <1>1, <1>6, <2>1, StillLive DEF TakeRequest, Stage, Running, Guarded
<1>7. CASE AppendCommand(c)
  <2>1. PICK s \in {"execute", "reply"} : Goto(c, s)
    BY <1>7 DEF AppendCommand
  <2> QED BY <1>1, <1>7, <2>1, StillLive DEF AppendCommand, Stage, Running, Guarded
<1>8. CASE Count(c) \/ SeeStop(c) \/ Reply(c) \/ LoseClient(c)
  BY <1>1, <1>8, StillLive DEF Count, SeeStop, Reply, LoseClient, Stage, Running, Guarded
<1>9. CASE ReadBarrier(c) \/ LockEngine(c) \/ Execute(c)
  BY <1>1, <1>9, StillLive DEF ReadBarrier, LockEngine, Execute, Stage, Running, Guarded
<1> QED BY <1>2, <1>3, <1>4, <1>5, <1>6, <1>7, <1>8, <1>9 DEF PeerStep, TaskStep

\* A task enters when it is accepted, which is while the server is open.
LEMMA AcceptImplements ==
  ASSUME IInv, NEW c \in Conn, Accept(c)
  PROVE  Promise!Enter(c)
<1>1. \A d \in Conn : stage'[d] \in Running <=> stage[d] \in Running \/ d = c
  BY DEF Accept, Goto, IInv, TypeOK, Running
<1>2. stage[c] \notin Running
  BY DEF Accept, Running, Guarded
<1> QED BY <1>1, <1>2, ServerAssumption DEF Accept, Status, Live, Promise!Enter, workers

\* The rewrite worker is there until it stops.
LEMMA RewriterImplements ==
  ASSUME IInv, RewriteStep \/ RewriterStops
  PROVE  Promise!Leave(Rewriter) \/ UNCHANGED <<Status, Live>>
<1>1. CASE RewriteStep
  <2>1. UNCHANGED <<phase, stage, ttl>> /\ rewriter \notin {"off", "stopped"}
        /\ rewriter' \notin {"off", "stopped"}
    BY <1>1 DEF RewriteStep, RewriteTick, CheckSize, WriteBarrier, Snapshot, LockForRewrite, Rewrite
  <2> QED BY <2>1 DEF Status, Live
<1>2. CASE RewriterStops
  BY <1>2, ServerAssumption DEF RewriterStops, Status, Live, Promise!Leave
<1> QED BY <1>1, <1>2

\* Once the clients are joined only the workers can be left.
LEMMA NobodyLeft ==
  ASSUME IInv, phase \in {"rewriter", "flush"} \/ (phase = "ttl" /\ ttl = "stopped"),
         ~aof \/ phase = "flush"
  PROVE  Live = {}
<1>1. \A c \in Conn : stage[c] \notin Running
  BY DEF IInv, TasksOK
<1>2. ttl # "running" /\ rewriter \in {"off", "stopped"}
  BY DEF IInv, WorkersOK, TypeOK
<1> QED BY <1>1, <1>2 DEF Live

\* The steps of run_with_listener_and_shutdown.
LEMMA MainImplements ==
  ASSUME IInv, TtlStops \/ Signal \/ Start \/ MainStep \/ Fail
  PROVE  Promise!Next \/ UNCHANGED <<Status, Live>>
<1> USE DEF workers, IInv
<1>1. CASE TtlStops
  <2>1. Promise!Leave(Main)
    BY <1>1, ServerAssumption DEF TtlStops, Status, Live, Promise!Leave
  <2> QED BY <2>1, ServerAssumption DEF Promise!Next
<1>2. CASE Signal
  BY <1>2 DEF Signal, Status, Live
<1>3. CASE Start
  <2>1. Promise!Open
    BY <1>3, ServerAssumption DEF Start, Status, Live, Promise!Open
  <2> QED BY <2>1 DEF Promise!Next
<1>4. CASE StopAccepting
  <2>1. Promise!Drain
    BY <1>4 DEF StopAccepting, Status, Live, Promise!Drain
  <2> QED BY <2>1 DEF Promise!Next
<1>5. CASE ClientsJoined \/ JoinRewriter \/ \E c \in Conn : JoinClient(c)
  BY <1>5 DEF ClientsJoined, JoinRewriter, JoinClient, Status, Live
<1>6. CASE JoinTtl
  <2>1. CASE aof
    BY <1>6, <2>1 DEF JoinTtl, Status, Live
  <2>2. CASE ~aof
    <3>1. Live = {}
      BY <1>6, <2>2, NobodyLeft DEF JoinTtl
    <3>2. Live' = Live
      BY <1>6 DEF JoinTtl, Live
    <3>3. Promise!Close
      BY <1>6, <2>2, <3>1, <3>2 DEF JoinTtl, Status, Promise!Close
    <3> QED BY <3>3 DEF Promise!Next
  <2> QED BY <2>1, <2>2
<1>7. CASE Flush
  <2>1. Live = {}
    BY <1>7, NobodyLeft DEF Flush
  <2>2. Live' = Live
    BY <1>7 DEF Flush, Live
  <2>3. Promise!Close
    BY <1>7, <2>1, <2>2 DEF Flush, Status, Promise!Close
  <2> QED BY <2>3 DEF Promise!Next
<1>8. CASE Fail
  <2>1. \A c \in Conn : stage'[c] \notin Running
    BY <1>8 DEF Fail, TypeOK, Running, Guarded
  <2>2. Live' = {}
    BY <1>8, <2>1 DEF Fail, Live
  <2>3. Promise!Fail
    BY <1>8, <2>2 DEF Fail, Status, Promise!Fail
  <2> QED BY <2>3 DEF Promise!Next
<1> QED BY <1>1, <1>2, <1>3, <1>4, <1>5, <1>6, <1>7, <1>8 DEF MainStep

\* The server keeps the promise of a graceful shutdown: no task enters after
\* the signal was seen, and it closes only when all have left.
THEOREM GracefulShutdown == SafeSpec => ImplementsGracefulService
<1>1. Init => Promise!Init
  <2> SUFFICES ASSUME Init PROVE Promise!Init
    OBVIOUS
  <2>1. \A c \in Conn : stage[c] \notin Running
    BY DEF Init, Running, Guarded
  <2> QED BY <2>1 DEF Init, Status, Live, Promise!Init
<1>2. IInv /\ [Next]_vars => [Promise!Next]_<<Status, Live>>
  <2> SUFFICES ASSUME IInv, [Next]_vars
               PROVE  Promise!Next \/ UNCHANGED <<Status, Live>>
    OBVIOUS
  <2>1. CASE Signal \/ TtlStops \/ Start \/ MainStep \/ Fail
    BY <2>1, MainImplements
  <2>2. CASE RewriteStep \/ RewriterStops
    BY <2>2, RewriterImplements, ServerAssumption DEF Promise!Next
  <2>3. ASSUME NEW c \in Conn, PeerStep(c) \/ TaskStep(c) \/ SeeStop(c) \/ Refuse(c)
        PROVE  Promise!Next \/ UNCHANGED <<Status, Live>>
    BY <2>3, ConnImplements, ServerAssumption DEF Promise!Next
  <2>4. ASSUME NEW c \in Conn, Accept(c) PROVE Promise!Next
    BY <2>4, AcceptImplements, ServerAssumption DEF Promise!Next
  <2>5. CASE UNCHANGED vars
    BY <2>5 DEF vars, workers, Status, Live
  <2> QED BY <2>1, <2>2, <2>3, <2>4, <2>5 DEF Next
<1> QED BY <1>1, <1>2, ServerInvariance, PTL
        DEF SafeSpec, ImplementsGracefulService, Promise!Spec, Promise!service

-----------------------------------------------------------------------------
(***************************************************************************)
(* connected_clients.                                                      *)
(***************************************************************************)
CountedAt == (Running \ {"spawned"}) \cup {"panicked"}
Counted == {c \in Conn : stage[c] \in CountedAt}

\* A connection that neither enters nor leaves the count leaves it right.
LEMMA SameCount ==
  ASSUME TypeOK, ConnectedExact, NEW c \in Conn, NEW s \in Stage, Goto(c, s),
         s \in CountedAt <=> stage[c] \in CountedAt, UNCHANGED <<phase, connected>>
  PROVE  ConnectedExact'
<1>1. Counted' = Counted
  BY DEF TypeOK, Goto, Counted
<1> QED BY <1>1 DEF ConnectedExact, Counted, CountedAt

\* The tasks of the connections that are counted in and out.
LEMMA CountedIn ==
  ASSUME IInv, ConnectedExact, NEW c \in Conn, Count(c)
  PROVE  ConnectedExact'
<1>1. Counted' = Counted \cup {c} /\ c \notin Counted
  BY DEF Count, Goto, IInv, TypeOK, Counted, CountedAt, Running, Guarded
<1>2. IsFiniteSet(Counted)
  BY ServerAssumption, FS_Subset DEF Counted
<1>3. Cardinality(Counted') = Cardinality(Counted) + 1
  BY <1>1, <1>2, FS_AddElement
<1> QED BY <1>3 DEF Count, ConnectedExact, Counted, CountedAt

\* saturating_sub never saturates: who leaves was counted.
LEMMA CountedOut ==
  ASSUME IInv, ConnectedExact, NEW c \in Conn, Leave(c)
  PROVE  ConnectedExact'
<1>1. Counted' = Counted \ {c} /\ c \in Counted
  BY DEF Leave, Goto, IInv, TypeOK, Counted, CountedAt, Running, Guarded
<1>2. IsFiniteSet(Counted)
  BY ServerAssumption, FS_Subset DEF Counted
<1>3. Cardinality(Counted') = Cardinality(Counted) - 1
  BY <1>1, <1>2, FS_RemoveElement
<1>4. Cardinality(Counted) \in Nat /\ Cardinality(Counted) # 0
  BY <1>1, <1>2, FS_CardinalityType, FS_EmptySet
<1>5. phase # "failed" => connected = Cardinality(Counted)
  BY DEF ConnectedExact, Counted, CountedAt
<1>6. phase # "failed" => connected' = Cardinality(Counted')
  BY <1>3, <1>4, <1>5 DEF Leave
<1> QED BY <1>6 DEF Leave, ConnectedExact, Counted, CountedAt

\* Every step of a connection leaves the count right.
LEMMA ConnCounted ==
  ASSUME IInv, ConnectedExact, NEW c \in Conn,
         PeerStep(c) \/ TaskStep(c) \/ SeeStop(c) \/ Accept(c) \/ Refuse(c)
  PROVE  ConnectedExact'
<1> USE DEF IInv
<1>1. CASE Count(c) \/ Leave(c)
  BY <1>1, CountedIn, CountedOut
<1>2. CASE ReadAnswer(c) \/ HangUp(c)
  BY <1>2 DEF ReadAnswer, HangUp, ConnectedExact
<1>3. CASE TakeRequest(c)
  <2>1. PICK s \in {"barrier", "execute"} : Goto(c, s)
    BY <1>3 DEF TakeRequest
  <2> QED BY <1>3, <2>1, SameCount DEF TakeRequest, Stage, CountedAt, Running, Guarded
<1>4. CASE AppendCommand(c)
  <2>1. PICK s \in {"execute", "reply"} : Goto(c, s)
    BY <1>4 DEF AppendCommand
  <2> QED BY <1>4, <2>1, SameCount DEF AppendCommand, Stage, CountedAt, Running, Guarded
<1>5. CASE Connect(c) \/ Accept(c) \/ Refuse(c)
  BY <1>5, SameCount DEF Connect, Accept, Refuse, Stage, CountedAt, Running, Guarded
<1>6. CASE SeeStop(c) \/ Reply(c) \/ LoseClient(c)
  BY <1>6, SameCount DEF SeeStop, Reply, LoseClient, Stage, CountedAt, Running, Guarded
<1>7. CASE ReadBarrier(c) \/ LockEngine(c) \/ Execute(c)
  BY <1>7, SameCount DEF ReadBarrier, LockEngine, Execute, Stage, CountedAt, Running, Guarded
<1>8. CASE Panic(c) \/ ParserPanics(c)
  BY <1>8, SameCount DEF Panic, ParserPanics, Stage, CountedAt, Running, Guarded
<1> QED BY <1>1, <1>2, <1>3, <1>4, <1>5, <1>6, <1>7, <1>8 DEF PeerStep, TaskStep

\* connected_clients is the number of tasks between their counts, those that
\* panicked there included: the decrement never has to stop at 0.
THEOREM ClientsCounted == SafeSpec => []ConnectedExact
<1>1. Init => ConnectedExact
  <2> SUFFICES ASSUME Init PROVE ConnectedExact
    OBVIOUS
  <2>1. Counted = {}
    BY DEF Init, Counted, CountedAt, Running, Guarded
  <2> QED BY <2>1, FS_EmptySet DEF Init, ConnectedExact, Counted, CountedAt
<1>2. IInv /\ ConnectedExact /\ [Next]_vars => ConnectedExact'
  <2> SUFFICES ASSUME IInv, ConnectedExact, [Next]_vars PROVE ConnectedExact'
    OBVIOUS
  <2>1. ASSUME NEW c \in Conn,
               PeerStep(c) \/ TaskStep(c) \/ SeeStop(c) \/ Accept(c) \/ Refuse(c)
        PROVE  ConnectedExact'
    BY <2>1, ConnCounted
  <2>2. CASE RewriteStep \/ RewriterStops
    BY <2>2 DEF RewriteStep, RewriteTick, CheckSize, WriteBarrier, Snapshot, LockForRewrite,
                Rewrite, RewriterStops, ConnectedExact
  <2>3. CASE Signal \/ TtlStops \/ StopAccepting \/ ClientsJoined \/ JoinTtl
             \/ (\E c \in Conn : JoinClient(c))
    BY <2>3 DEF Signal, TtlStops, StopAccepting, ClientsJoined, JoinTtl, JoinClient, ConnectedExact
  <2>4. CASE Start \/ JoinRewriter \/ Flush \/ UNCHANGED vars
    BY <2>4 DEF Start, JoinRewriter, Flush, vars, ConnectedExact
  <2>5. CASE Fail
    BY <2>5 DEF Fail, ConnectedExact
  <2> QED BY <2>1, <2>2, <2>3, <2>4, <2>5 DEF Next, MainStep
<1> QED BY <1>1, <1>2, ServerInvariance, PTL DEF SafeSpec

=============================================================================
