------------------------------ MODULE Clients ------------------------------
(***************************************************************************)
(* The tools around the server: the workers of rustkv-bench, rustkv-cli    *)
(* for one command or with its shell, and the refresh loop of              *)
(* rustkv-monitor, on TCP streams of their own.  In a behaviour one of     *)
(* them runs, next to other clients and a server that may end and start    *)
(* again.  Here the server is what a tool can tell of it: it executes one  *)
(* request of a stream at a time, counts it, and answers (ShardedDatabase, *)
(* Connection and Server say how).                                         *)
(***************************************************************************)
EXTENDS Integers, FiniteSets, SequencesExt

CONSTANTS
  Requests,       \* rustkv-bench --requests
  ClientCount,    \* args.clients.min(args.requests)
  Prep, Cli, Shell, Monitor,  \* the other streams: prepare_get_keys and the other tools
  MaxHistory,     \* MAX_HISTORY_LINES
  MaxTyped,       \* bound: lines typed into the shell
  MaxExecuted,    \* bound: commands after which other clients send none and INFO waits
  MaxRestarts     \* bound: ends of a server process

Worker == 0 .. ClientCount - 1
Others == {Prep, Cli, Shell, Monitor}
Link == Worker \cup Others

ASSUME ClientsAssumption ==
  /\ Requests \in Nat \ {0}
  /\ ClientCount \in 1 .. Requests
  /\ Worker \cap Others = {}
  /\ Cardinality(Others) = 4
  /\ {MaxHistory, MaxTyped} \subseteq Nat \ {0}

VARIABLES
  tool,        \* which tool runs
  mode,        \* rustkv-bench --command
  up,          \* a server process runs
  life,        \* ghost: how many have ended
  store,       \* the keys of the benchmark that are set
  total,       \* stats.total_commands
  executed,    \* ghost: commands executed by all processes so far
  undisturbed, \* ghost: nobody else removed a key of the benchmark
  link,        \* each stream: none, open, or broken by the server's end
  request,     \* what was written to it and is not executed yet
  arriving,    \* pieces of the answer the client has not read
  buffer,      \* pieces it has read and not parsed
  bench,       \* the benchmark's main
  position,    \* prepare_get_keys: the next client_id and sequence
  worker,      \* where each worker stands
  completed,   \* its stats.completed
  answered,    \* ghost: requests of each worker that the server executed
  joined,      \* workers join_next has returned
  aggregate,   \* aggregate.completed
  cli,         \* run_one_shot: connect, wait, printed or failed
  shell,       \* the shell: prompt, waiting or closed
  typed,       \* lines typed so far
  history,     \* app.history
  connected,   \* app.connected
  monitor,     \* the refresh loop: tick, connect, wait or quit
  status,      \* MonitorState::status
  previous,    \* previous_total_commands
  qps,         \* the commands in the numerator of state.qps
  sampled,     \* ghost: the statistics of the last sample
  since        \* ghost: what happened between the last two samples

server == <<up, life, store, total, executed, undisturbed>>
streams == <<link, request, arriving, buffer>>
benchmark == <<bench, position, worker, completed, joined, aggregate>>
terminal == <<cli, shell, typed, history, connected>>
display == <<monitor, status, previous, qps, sampled, since>>
vars == <<tool, mode, server, streams, benchmark, answered, terminal, display>>

-----------------------------------------------------------------------------
(***************************************************************************)
(* What the benchmark sends.                                               *)
(***************************************************************************)

\* requests_for_client
Share(w) ==
  Requests \div ClientCount + (IF w < Requests % ClientCount THEN 1 ELSE 0)

Set(w, sequence) == [op |-> "set", key |-> <<w, sequence>>]
Get(w, sequence) == [op |-> "get", key |-> <<w, sequence>>]

\* Mutant: a mixed GET asks for its own sequence.
CommandArgsOwnKey(w, sequence) ==
  IF mode = "set" \/ (mode = "mixed" /\ sequence % 2 = 0)
    THEN Set(w, sequence) ELSE Get(w, sequence)

\* command_args: a mixed GET asks for the key of the SET before it.
CommandArgs(w, sequence) ==
  CASE mode = "set" -> Set(w, sequence)
    [] mode = "get" -> Get(w, sequence)
    [] mode = "mixed" -> IF sequence % 2 = 0 THEN Set(w, sequence) ELSE Get(w, sequence - 1)

\* prepare_get_keys: every sequence of a client, then the next client.
NextPosition(p) ==
  IF p[2] + 1 < Share(p[1]) THEN <<p[1], p[2] + 1>> ELSE <<p[1] + 1, 0>>

Keys == UNION {{<<w, s>> : s \in 0 .. Share(w) - 1} : w \in Worker}

NoRequest == [op |-> "none"]
Line(n, op) == [op |-> op, line |-> n]
Info == [op |-> "info"]

Request ==
  {NoRequest, Info} \cup [op : {"set", "get"}, key : Keys]
    \cup [op : {"read", "write"}, line : 1 .. MaxTyped]

NoSample == [total |-> 0, executed |-> 0, life |-> 0]

\* An answer: of which request, whether it is an error line, how many lines
\* print_resp makes of it, and for INFO the statistics in it (executed and life
\* are ghosts).  On the stream it may be split anywhere: it has a first piece and
\* a last one.
Answer(r, error, lines) ==
  [to |-> r, error |-> error, lines |-> lines,
   sample |-> IF r = Info THEN [total |-> total', executed |-> executed', life |-> life]
              ELSE NoSample]
Rest == [to |-> NoRequest]

Init ==
  /\ tool \in {"bench", "cli", "shell", "monitor"}
  /\ mode \in IF tool = "bench" THEN {"set", "get", "mixed"} ELSE {"set"}
  /\ up = TRUE
  /\ life = 0
  /\ store = {}
  /\ total = 0
  /\ executed = 0
  /\ undisturbed = TRUE
  /\ link = [l \in Link |-> IF tool = "shell" /\ l = Shell THEN "open" ELSE "none"]
  /\ request = [l \in Link |-> NoRequest]
  /\ arriving = [l \in Link |-> << >>]
  /\ buffer = [l \in Link |-> << >>]
  /\ bench = IF tool # "bench" THEN "off" ELSE IF mode = "get" THEN "prepare" ELSE "run"
  /\ position = <<0, 0>>
  /\ worker = [w \in Worker |-> "connect"]
  /\ completed = [w \in Worker |-> 0]
  /\ answered = [w \in Worker |-> 0]
  /\ joined = {}
  /\ aggregate = 0
  /\ cli = IF tool = "cli" THEN "connect" ELSE "off"
  /\ shell = IF tool = "shell" THEN "prompt" ELSE "off"
  /\ typed = 0
  /\ history = << >>
  /\ connected = TRUE
  /\ monitor = IF tool = "monitor" THEN "tick" ELSE "off"
  /\ status = "Connecting"
  /\ previous = -1
  /\ qps = 0
  /\ sampled = NoSample
  /\ since = [commands |-> 0, restarted |-> TRUE]

-----------------------------------------------------------------------------
(***************************************************************************)
(* The streams.                                                            *)
(***************************************************************************)

\* TcpStream::connect has succeeded; both buffers are new.
Opens(l) ==
  /\ up
  /\ link' = [link EXCEPT ![l] = "open"]
  /\ request' = [request EXCEPT ![l] = NoRequest]
  /\ arriving' = [arriving EXCEPT ![l] = << >>]
  /\ buffer' = [buffer EXCEPT ![l] = << >>]

\* The client drops its stream; what it has sent may still be executed.
Drops(links) ==
  /\ link' = [l \in Link |-> IF l \in links THEN "none" ELSE link[l]]
  /\ arriving' = [l \in Link |-> IF l \in links THEN << >> ELSE arriving[l]]
  /\ buffer' = [l \in Link |-> IF l \in links THEN << >> ELSE buffer[l]]
  /\ UNCHANGED request

\* write_all and flush: on a broken stream they may still succeed.
Sends(l, r) ==
  /\ request' = [request EXCEPT ![l] = IF link[l] = "open" THEN r ELSE NoRequest]
  /\ UNCHANGED <<link, arriving, buffer>>

\* parse_resp finds a whole answer at the front of the buffer, which is drained.
HasAnswer(l) == Len(buffer[l]) >= 2
Parsed(l) == buffer[l][1]

\* Mutant: the answer stays in the buffer.
TakesCopy(l) == HasAnswer(l) /\ UNCHANGED streams

Takes(l) ==
  /\ HasAnswer(l)
  /\ buffer' = [buffer EXCEPT ![l] = SubSeq(@, 3, Len(@))]
  /\ UNCHANGED <<link, request, arriving>>

\* read: some of what has arrived.
ReadSome(l) ==
  /\ ~HasAnswer(l)
  /\ \E n \in 1 .. Len(arriving[l]) :
       /\ buffer' = [buffer EXCEPT ![l] = @ \o SubSeq(arriving[l], 1, n)]
       /\ arriving' = [arriving EXCEPT ![l] = SubSeq(@, n + 1, Len(@))]
  /\ UNCHANGED <<tool, mode, server, link, request, benchmark, answered, terminal, display>>

\* read returns 0, or read or write_all an error.
Lost(l) == ~HasAnswer(l) /\ arriving[l] = << >> /\ link[l] = "broken"

-----------------------------------------------------------------------------
(***************************************************************************)
(* The server.                                                             *)
(***************************************************************************)
Replies(l, answer) ==
  arriving' = [arriving EXCEPT ![l] = IF link[l] = "open" THEN @ \o <<answer, Rest>> ELSE @]

\* One request of a stream is executed, counted and answered.
Execute(l) ==
  LET r == request[l] IN
  /\ up
  /\ r # NoRequest
  /\ r = Info => executed < MaxExecuted
  /\ total' = total + 1
  /\ executed' = executed + 1
  /\ store' = IF r.op = "set" THEN store \cup {r.key} ELSE store
  /\ request' = [request EXCEPT ![l] = NoRequest]
  /\ \E lines \in IF l = Shell THEN 0 .. 2 ELSE {1} : Replies(l, Answer(r, FALSE, lines))
  /\ answered' = IF l \in Worker THEN [answered EXCEPT ![l] = @ + 1] ELSE answered
  /\ UNCHANGED <<tool, mode, up, life, undisturbed, link, buffer, benchmark, terminal, display>>

\* So is one of another client; it may remove what the benchmark stored.
OthersExecute ==
  /\ up
  /\ executed < MaxExecuted
  /\ total' = total + 1
  /\ executed' = executed + 1
  /\ \E kept \in {store, {}} : store' = kept /\ undisturbed' = (undisturbed /\ kept = store)
  /\ UNCHANGED <<tool, mode, up, life, streams, benchmark, answered, terminal, display>>

\* The log refuses a write: an error line, and nothing is executed or counted.
RefuseWrite(l) ==
  /\ up
  /\ request[l].op \in {"set", "write"}
  /\ request' = [request EXCEPT ![l] = NoRequest]
  /\ UNCHANGED <<total, executed>>
  /\ Replies(l, Answer(request[l], TRUE, 1))
  /\ UNCHANGED <<tool, mode, up, life, store, undisturbed, link, buffer, benchmark, answered, terminal, display>>

\* The process ends: requests are gone, answers may be cut short, and the
\* store goes with it unless there is a log.
Stop ==
  /\ up
  /\ life < MaxRestarts
  /\ up' = FALSE
  /\ life' = life + 1
  /\ total' = 0
  /\ \E kept \in {store, {}} : store' = kept /\ undisturbed' = (undisturbed /\ kept = store)
  /\ link' = [l \in Link |-> IF link[l] = "open" THEN "broken" ELSE link[l]]
  /\ request' = [l \in Link |-> NoRequest]
  /\ \E n \in 0 .. 2 :
       arriving' = [l \in Link |-> IF Len(arriving[l]) <= n THEN arriving[l]
                                   ELSE SubSeq(arriving[l], 1, n)]
  /\ UNCHANGED <<tool, mode, executed, buffer, benchmark, answered, terminal, display>>

Restart ==
  /\ ~up
  /\ up' = TRUE
  /\ UNCHANGED <<tool, mode, life, store, total, executed, undisturbed, streams, benchmark, answered,
                 terminal, display>>

-----------------------------------------------------------------------------
(***************************************************************************)
(* rustkv-bench.                                                           *)
(***************************************************************************)
BenchOnly == UNCHANGED <<tool, mode, server, answered, terminal, display>>

PrepConnect ==
  /\ bench = "prepare" /\ link[Prep] = "none"
  /\ Opens(Prep)
  /\ UNCHANGED benchmark /\ BenchOnly

PrepSend ==
  /\ bench = "prepare" /\ link[Prep] # "none"
  /\ Sends(Prep, Set(position[1], position[2]))
  /\ bench' = "preparing"
  /\ UNCHANGED <<position, worker, completed, joined, aggregate>> /\ BenchOnly

PrepAnswered ==
  /\ bench = "preparing"
  /\ Takes(Prep)
  /\ position' = NextPosition(position)
  /\ bench' = IF Parsed(Prep).error THEN "failed"
              ELSE IF position'[1] = ClientCount THEN "run" ELSE "prepare"
  /\ UNCHANGED <<worker, completed, joined, aggregate>> /\ BenchOnly

PrepFails ==
  /\ \/ bench = "prepare" /\ link[Prep] = "none" /\ ~up
     \/ bench = "preparing" /\ Lost(Prep)
  /\ bench' = "failed"
  /\ UNCHANGED <<streams, position, worker, completed, joined, aggregate>> /\ BenchOnly

At(w, stage) == bench = "run" /\ worker[w] = stage

WorkerConnect(w) ==
  /\ At(w, "connect")
  /\ Opens(w)
  /\ worker' = [worker EXCEPT ![w] = "ready"]
  /\ UNCHANGED <<bench, position, completed, joined, aggregate>> /\ BenchOnly

WorkerSend(w) ==
  /\ At(w, "ready")
  /\ Sends(w, CommandArgs(w, completed[w]))
  /\ worker' = [worker EXCEPT ![w] = "wait"]
  /\ UNCHANGED <<bench, position, completed, joined, aggregate>> /\ BenchOnly

\* A GET that finds nothing counts as well: only an error line fails.
WorkerAnswered(w) ==
  /\ At(w, "wait")
  /\ Takes(w)
  /\ IF Parsed(w).error
       THEN worker' = [worker EXCEPT ![w] = "failed"] /\ UNCHANGED completed
       ELSE /\ completed' = [completed EXCEPT ![w] = @ + 1]
            /\ worker' = [worker EXCEPT ![w] = IF completed'[w] = Share(w) THEN "done" ELSE "ready"]
  /\ UNCHANGED <<bench, position, joined, aggregate>> /\ BenchOnly

WorkerFails(w) ==
  /\ \/ At(w, "connect") /\ ~up
     \/ At(w, "wait") /\ Lost(w)
  /\ worker' = [worker EXCEPT ![w] = "failed"]
  /\ UNCHANGED <<streams, bench, position, completed, joined, aggregate>> /\ BenchOnly

\* Mutant: a worker that failed is passed over.
JoinAny(w) ==
  /\ bench = "run" /\ w \notin joined
  /\ worker[w] \in {"done", "failed"}
  /\ joined' = joined \cup {w}
  /\ aggregate' = aggregate + completed[w]
  /\ bench' = IF joined' = Worker THEN "reported" ELSE "run"
  /\ Drops({w})
  /\ UNCHANGED <<position, worker, completed>> /\ BenchOnly

\* join_next: the first failed worker ends the process, and its JoinSet with it.
Join(w) ==
  /\ bench = "run" /\ w \notin joined
  /\ \/ /\ worker[w] = "done"
        /\ joined' = joined \cup {w}
        /\ aggregate' = aggregate + completed[w]
        /\ bench' = IF joined' = Worker THEN "reported" ELSE "run"
        /\ Drops({w})
     \/ /\ worker[w] = "failed"
        /\ bench' = "failed"
        /\ Drops(Worker)
        /\ UNCHANGED <<joined, aggregate>>
  /\ UNCHANGED <<position, worker, completed>> /\ BenchOnly

-----------------------------------------------------------------------------
(***************************************************************************)
(* rustkv-cli for one command.                                             *)
(***************************************************************************)
CliOnly == UNCHANGED <<tool, mode, server, benchmark, answered, shell, typed, history, connected, display>>

\* run_one_shot connects and writes the request.
CliSend ==
  /\ cli = "connect"
  /\ up
  /\ link' = [link EXCEPT ![Cli] = "open"]
  /\ \E op \in {"read", "write"} : request' = [request EXCEPT ![Cli] = Line(1, op)]
  /\ cli' = "wait"
  /\ UNCHANGED <<arriving, buffer>> /\ CliOnly

\* read_response has a whole answer, which is printed.
CliAnswered ==
  /\ cli = "wait"
  /\ HasAnswer(Cli)
  /\ Drops({Cli})
  /\ cli' = "printed"
  /\ CliOnly

CliFails ==
  /\ \/ cli = "connect" /\ ~up
     \/ cli = "wait" /\ Lost(Cli)
  /\ cli' = "failed"
  /\ UNCHANGED streams /\ CliOnly

-----------------------------------------------------------------------------
(***************************************************************************)
(* The shell of rustkv-cli: one stream, opened once.                       *)
(***************************************************************************)
ShellOnly == UNCHANGED <<tool, mode, server, benchmark, answered, cli, display>>

\* Mutant: the history is drained before the line is added.
PushDrainsFirst(lines) ==
  LET overflow == IF Len(history) > MaxHistory THEN Len(history) - MaxHistory ELSE 0
  IN  history' = SubSeq(history, overflow + 1, Len(history)) \o lines

\* push_history, line by line: the oldest ones go.
Push(lines) ==
  LET all == history \o lines
      overflow == IF Len(all) > MaxHistory THEN Len(all) - MaxHistory ELSE 0
  IN  history' = SubSeq(all, overflow + 1, Len(all))

User(n) == <<"user", n>>
Response(n) == <<"response", n>>
Error(n) == <<"error", n>>
System == <<"system", 0>>

Types == shell = "prompt" /\ typed < MaxTyped /\ typed' = typed + 1

\* submit_input: a line for the server.
ShellSend ==
  /\ Types
  /\ Push(<<User(typed')>>)
  /\ connected' = TRUE
  /\ \E op \in {"read", "write"} : Sends(Shell, Line(typed', op))
  /\ shell' = "wait"
  /\ ShellOnly

\* help, clear, or a line without its closing quote.
ShellLocal ==
  /\ Types
  /\ \/ Push(<<User(typed'), System, System>>)
     \/ history' = <<System>>
     \/ Push(<<User(typed'), Error(typed')>>)
  /\ UNCHANGED <<streams, shell, connected>>
  /\ ShellOnly

ShellAnswered ==
  /\ shell = "wait"
  /\ Takes(Shell)
  /\ Push([i \in 1 .. Parsed(Shell).lines |-> Response(Parsed(Shell).to.line)])
  /\ shell' = "prompt"
  /\ UNCHANGED <<typed, connected>>
  /\ ShellOnly

\* What was read of an answer stays in the buffer.
ShellFails ==
  /\ shell = "wait"
  /\ Lost(Shell)
  /\ Push(<<Error(typed)>>)
  /\ connected' = FALSE
  /\ shell' = "prompt"
  /\ UNCHANGED <<streams, typed>>
  /\ ShellOnly

ShellQuit ==
  /\ shell = "prompt"
  /\ shell' = "closed"
  /\ Drops({Shell})
  /\ UNCHANGED <<typed, history, connected>>
  /\ ShellOnly

-----------------------------------------------------------------------------
(***************************************************************************)
(* rustkv-monitor: a new stream for every refresh.                         *)
(***************************************************************************)
MonitorOnly == UNCHANGED <<tool, mode, server, benchmark, answered, terminal>>

MonitorTick ==
  /\ monitor = "tick"
  /\ monitor' = "connect"
  /\ UNCHANGED <<streams, status, previous, qps, sampled, since>>
  /\ MonitorOnly

MonitorAsk ==
  /\ monitor = "connect"
  /\ up
  /\ link' = [link EXCEPT ![Monitor] = "open"]
  /\ request' = [request EXCEPT ![Monitor] = Info]
  /\ monitor' = "wait"
  /\ UNCHANGED <<arriving, buffer, status, previous, qps, sampled, since>>
  /\ MonitorOnly

\* Mutant: the difference of the totals, whichever is larger.
CalculateQpsAbsolute(count) ==
  IF previous = -1 THEN 0 ELSE IF count > previous THEN count - previous ELSE previous - count

\* calculate_qps, but for the division by the time since the last sample.
CalculateQps(count) ==
  IF previous = -1 \/ count < previous THEN 0 ELSE count - previous

MonitorAnswered ==
  LET sample == Parsed(Monitor).sample IN
  /\ monitor = "wait"
  /\ HasAnswer(Monitor)
  /\ Drops({Monitor})
  /\ qps' = CalculateQps(sample.total)
  /\ previous' = sample.total
  /\ status' = "Online"
  /\ monitor' = "tick"
  /\ sampled' = sample
  /\ since' = [commands |-> sample.executed - sampled.executed,
               restarted |-> previous = -1 \/ sample.life # sampled.life]
  /\ MonitorOnly

\* Mutant: read waits for as long as it takes.
MonitorFailsUntimed ==
  /\ \/ monitor = "connect"
     \/ monitor = "wait" /\ Lost(Monitor)
  /\ Drops({Monitor})
  /\ status' = "Offline"
  /\ monitor' = "tick"
  /\ UNCHANGED <<previous, qps, sampled, since>>
  /\ MonitorOnly

\* connect or read fails or takes two seconds.
MonitorFails ==
  /\ \/ monitor = "connect"
     \/ monitor = "wait" /\ ~HasAnswer(Monitor)
  /\ Drops({Monitor})
  /\ status' = "Offline"
  /\ monitor' = "tick"
  /\ UNCHANGED <<previous, qps, sampled, since>>
  /\ MonitorOnly

\* The key q: the refresh loop is aborted wherever it waits.
MonitorQuit ==
  /\ monitor \in {"tick", "connect", "wait"}
  /\ monitor' = "quit"
  /\ Drops({Monitor})
  /\ UNCHANGED <<status, previous, qps, sampled, since>>
  /\ MonitorOnly

-----------------------------------------------------------------------------
WorkerStep(w) ==
  WorkerConnect(w) \/ WorkerSend(w) \/ WorkerAnswered(w) \/ WorkerFails(w) \/ Join(w)

BenchStep ==
  PrepConnect \/ PrepSend \/ PrepAnswered \/ PrepFails \/ \E w \in Worker : WorkerStep(w)

CliStep == CliSend \/ CliAnswered \/ CliFails

ShellStep == ShellSend \/ ShellLocal \/ ShellAnswered \/ ShellFails \/ ShellQuit

MonitorStep == MonitorTick \/ MonitorAsk \/ MonitorAnswered \/ MonitorFails \/ ReadSome(Monitor)

Next ==
  \/ \E l \in Link : Execute(l) \/ RefuseWrite(l)
  \/ \E l \in Link \ {Monitor} : ReadSome(l)
  \/ OthersExecute \/ Stop \/ Restart
  \/ BenchStep \/ CliStep \/ ShellStep \/ MonitorStep \/ MonitorQuit

SafeSpec == Init /\ [][Next]_vars

\* Every tool goes on as long as it can; the server executes what the
\* benchmark and the one-shot client send, and owes the others nothing.
Spec ==
  /\ SafeSpec
  /\ WF_vars(BenchStep) /\ WF_vars(CliStep) /\ WF_vars(MonitorStep)
  /\ \A l \in Worker \cup {Prep, Cli} : WF_vars(Execute(l)) /\ WF_vars(ReadSome(l))

-----------------------------------------------------------------------------
(***************************************************************************)
(* Properties.                                                             *)
(***************************************************************************)
TypeOK ==
  /\ tool \in {"bench", "cli", "shell", "monitor"} /\ mode \in {"set", "get", "mixed"}
  /\ up \in BOOLEAN /\ undisturbed \in BOOLEAN /\ connected \in BOOLEAN
  /\ {life, total, executed, aggregate, typed, qps} \subseteq Nat
  /\ store \subseteq Keys
  /\ link \in [Link -> {"none", "open", "broken"}]
  /\ request \in [Link -> Request]
  /\ \A l \in Link : Len(arriving[l]) + Len(buffer[l]) <= 2
  /\ bench \in {"off", "prepare", "preparing", "run", "reported", "failed"}
  /\ position \in Keys \cup {<<ClientCount, 0>>}
  /\ worker \in [Worker -> {"connect", "ready", "wait", "done", "failed"}]
  /\ \A w \in Worker : completed[w] \in 0 .. Share(w)
  /\ answered \in [Worker -> Nat]
  /\ joined \subseteq Worker
  /\ cli \in {"off", "connect", "wait", "printed", "failed"}
  /\ shell \in {"off", "prompt", "wait", "closed"}
  /\ Len(history) <= MaxHistory
  /\ monitor \in {"off", "tick", "connect", "wait", "quit"}
  /\ status \in {"Connecting", "Online", "Offline"}
  /\ previous \in Nat \cup {-1}

\* What a GET of the benchmark asks for is there, so it measures hits, unless
\* another client removed it or a restart lost it (prepare_get_keys and
\* command_args name the same keys as the workers that read them).
GetsHit ==
  undisturbed => \A w \in Worker : request[w].op = "get" => request[w].key \in store

\* A report stands for --requests commands, each executed once, however they
\* are split and whichever worker ends first; after a failure there is none.
ReportIsComplete ==
  bench = "reported" =>
    /\ aggregate = Requests
    /\ \A w \in Worker : answered[w] = Share(w)

\* The QPS shown stands for commands the server did execute since the last
\* sample, and for all of them unless it was started anew in between
\* (calculate_qps, over failed refreshes and restarts).
QpsIsReal ==
  /\ qps <= since.commands
  /\ ~since.restarted => qps = since.commands

\* What the shell shows below a line is the answer to that line, in whatever
\* pieces answers arrive and wherever one was cut off (ShellClient's buffer).
AnswersBelowTheirLine ==
  \A i, j \in 1 .. Len(history) :
    /\ i < j
    /\ history[i][1] = "user"
    /\ \A k \in i + 1 .. j : history[k][1] # "user"
    /\ history[j] # System
    => history[j][2] = history[i][2]

\* Every tool gets to its end: the benchmark reports or fails, one command is
\* answered or fails, and each refresh of the monitor ends, even if the server
\* stops under them or is there and never answers the monitor.
ToolsEnd ==
  []<>(/\ bench \in {"off", "reported", "failed"}
       /\ cli \in {"off", "printed", "failed"}
       /\ monitor \in {"off", "tick", "quit"})
=============================================================================
