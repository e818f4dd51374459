--------------------------- MODULE ClientsProofs ---------------------------
(***************************************************************************)
(* Proofs about Clients, for every number of requests, workers and lines:  *)
(* what the benchmark reports, what it reads, what the monitor shows and   *)
(* where the shell puts an answer.                                         *)
(***************************************************************************)
EXTENDS Clients, FiniteSetTheorems, TLAPS

-----------------------------------------------------------------------------
(***************************************************************************)
(* The inductive invariant.                                                *)
(***************************************************************************)
Sample == [total : Nat, executed : Nat, life : Nat]
Answers == [to : Request, error : BOOLEAN, lines : Nat, sample : Sample]
Piece == Answers \cup {Rest}

\* How much of an answer is on its way to the client, and its first piece.
Count(l) == Len(buffer[l]) + Len(arriving[l])
FirstPiece(l) == IF buffer[l] # << >> THEN buffer[l][1] ELSE arriving[l][1]

\* One request at a time: while it is not executed no answer is under way, and
\* a broken stream brings no request any more.
StreamOK(l) ==
  /\ Count(l) <= 2
  /\ Count(l) > 0 => FirstPiece(l) \in Answers
  /\ request[l] # NoRequest => Count(l) = 0 /\ link[l] # "broken"
  /\ link[l] = "none" => Count(l) = 0

StreamsOK ==
  /\ link \in [Link -> {"none", "open", "broken"}]
  /\ request \in [Link -> Request]
  /\ arriving \in [Link -> Seq(Piece)]
  /\ buffer \in [Link -> Seq(Piece)]
  /\ \A l \in Link : StreamOK(l)

\* A worker's count of answers keeps up with the server's of executions.
WorkerOK(w) ==
  /\ worker[w] = "connect" =>
       link[w] = "none" /\ request[w] = NoRequest /\ completed[w] = 0 /\ answered[w] = 0
  /\ worker[w] = "ready" => request[w] = NoRequest /\ Count(w) = 0
  /\ worker[w] \in {"connect", "ready", "wait"} => completed[w] < Share(w) /\ w \notin joined
  /\ worker[w] \in {"ready", "wait"} /\ Count(w) = 0 /\ (request[w] # NoRequest \/ worker[w] = "ready") =>
       answered[w] = completed[w]
  /\ worker[w] = "wait" /\ request[w] # NoRequest => request[w] = CommandArgs(w, completed[w])
  /\ worker[w] = "wait" /\ Count(w) > 0 =>
       answered[w] = completed[w] + (IF FirstPiece(w).error THEN 0 ELSE 1)
  /\ worker[w] = "done" =>
       request[w] = NoRequest /\ completed[w] = Share(w) /\ answered[w] = Share(w)
  /\ worker[w] = "failed" => w \notin joined

\* The workers that have one request more than the others.
Longer == {w \in Worker : w < Requests % ClientCount}

\* What is summed up so far is the share of the workers joined.
SumOK ==
  /\ aggregate = (Requests \div ClientCount) * Cardinality(joined) + Cardinality(joined \cap Longer)
  /\ bench = "reported" <=> joined = Worker

BenchOK ==
  bench # "failed" =>
    /\ \A w \in Worker : WorkerOK(w)
    /\ SumOK
    /\ bench # "run" /\ bench # "reported" => \A w \in Worker : worker[w] = "connect"

\* Keys that come before a position of prepare_get_keys.
Before(p) == {k \in Keys : k[1] < p[1] \/ (k[1] = p[1] /\ k[2] < p[2])}

PrepareOK ==
  /\ bench \in {"prepare", "preparing"} => mode = "get" /\ position \in Keys
  /\ bench = "prepare" => request[Prep] = NoRequest /\ Count(Prep) = 0
  /\ bench = "preparing" /\ request[Prep] # NoRequest => request[Prep] = Set(position[1], position[2])

\* The keys the benchmark has set, or need not set, are in the store.
StoreOK ==
  undisturbed =>
    /\ mode = "get" /\ bench \in {"prepare", "preparing"} => Before(position) \subseteq store
    /\ bench = "preparing" /\ Count(Prep) > 0 /\ ~FirstPiece(Prep).error => position \in store
    /\ mode = "get" /\ bench = "run" => Keys \subseteq store
    /\ mode = "mixed" /\ bench = "run" =>
         \A w \in Worker :
           /\ \A s \in 0 .. completed[w] - 1 : s % 2 = 0 => <<w, s>> \in store
           /\ worker[w] = "wait" /\ Count(w) > 0 /\ ~FirstPiece(w).error /\ completed[w] % 2 = 0 =>
                <<w, completed[w]>> \in store

\* Statistics t were taken after statistics s.
Later(s, t) ==
  /\ s.executed <= t.executed
  /\ s.life <= t.life
  /\ s.life = t.life => t.total - s.total = t.executed - s.executed
  /\ s.life < t.life => t.total <= t.executed - s.executed

Current == [total |-> total, executed |-> executed, life |-> life]

MonitorOK ==
  /\ request[Monitor] \in {NoRequest, Info}
  /\ monitor # "wait" => link[Monitor] = "none"
  /\ sampled \in Sample
  /\ previous = -1 => sampled = NoSample
  /\ previous # -1 => previous = sampled.total
  /\ Later(sampled, Current)
  /\ Count(Monitor) > 0 =>
       Later(sampled, FirstPiece(Monitor).sample) /\ Later(FirstPiece(Monitor).sample, Current)
  /\ since.restarted \in BOOLEAN /\ since.commands \in Nat
  /\ QpsIsReal

\* The lines of the shell: below the last line typed there is what belongs to it.
Shown == {"user", "response", "error", "system"} \X Nat

HistoryOK(lines, last) ==
  /\ lines \in Seq(Shown)
  /\ \A i, j \in 1 .. Len(lines) :
       i < j /\ lines[i][1] = "user" /\ (\A k \in i + 1 .. j : lines[k][1] # "user") /\ lines[j] # System
         => lines[j][2] = lines[i][2]
  /\ \A i \in 1 .. Len(lines) :
       lines[i][1] = "user" /\ (\A k \in i + 1 .. Len(lines) : lines[k][1] # "user")
         => lines[i][2] = last

ShellOK ==
  /\ request[Shell] # NoRequest => shell = "wait" /\ request[Shell].line = typed
  /\ shell = "prompt" /\ link[Shell] = "open" => Count(Shell) = 0
  /\ Count(Shell) = 2 => shell = "wait" /\ FirstPiece(Shell).to.line = typed
  /\ HistoryOK(history, typed)

IInv ==
  /\ TypeOK
  /\ typed <= MaxTyped
  /\ completed \in [Worker -> Nat]
  /\ StreamsOK
  /\ cli = "connect" => link[Cli] = "none"
  /\ BenchOK
  /\ PrepareOK
  /\ StoreOK
  /\ GetsHit
  /\ MonitorOK
  /\ ShellOK

-----------------------------------------------------------------------------
(***************************************************************************)
(* Streams, shares and keys.                                               *)
(***************************************************************************)

\* A set written with three elements has at most three.
LEMMA AtMostThree ==
  ASSUME NEW a, NEW b, NEW c
  PROVE  Cardinality({a, b, c}) <= 3
<1>1. IsFiniteSet({a}) /\ Cardinality({a}) = 1
  BY FS_Singleton
<1>2. /\ IsFiniteSet({a} \cup {b}) /\ Cardinality({a} \cup {b}) \in Nat
      /\ Cardinality({a} \cup {b}) <= 2
  <2>1. /\ IsFiniteSet({a} \cup {b})
        /\ Cardinality({a} \cup {b}) = IF b \in {a} THEN Cardinality({a}) ELSE Cardinality({a}) + 1
    BY <1>1, FS_AddElement
  <2> QED BY <1>1, <2>1
<1>3. Cardinality(({a} \cup {b}) \cup {c}) <= 3
  <2> DEFINE S == {a} \cup {b}
  <2>1. Cardinality(S \cup {c}) = IF c \in S THEN Cardinality(S) ELSE Cardinality(S) + 1
    BY <1>2, FS_AddElement
  <2> HIDE DEF S
  <2>2. Cardinality(S) \in Nat /\ Cardinality(S) <= 2
    BY <1>2 DEF S
  <2>3. Cardinality(S \cup {c}) <= 3
    BY <2>1, <2>2
  <2> QED BY <2>3 DEF S
<1>4. ({a} \cup {b}) \cup {c} = {a, b, c}
  OBVIOUS
<1> QED BY <1>3, <1>4

\* The streams of the tools are different ones.
LEMMA Links ==
  /\ Prep \in Link /\ Cli \in Link /\ Shell \in Link /\ Monitor \in Link
  /\ Worker \subseteq Link
  /\ \A w \in Worker : w \in Nat /\ w # Prep /\ w # Cli /\ w # Shell /\ w # Monitor
  /\ Prep # Cli /\ Prep # Shell /\ Prep # Monitor /\ Cli # Shell /\ Cli # Monitor /\ Shell # Monitor
<1>1. Cardinality({Prep, Cli, Shell, Monitor}) = 4 /\ Worker \cap {Prep, Cli, Shell, Monitor} = {}
  BY ClientsAssumption DEF Others
<1>2. ASSUME NEW a, NEW b, NEW c PROVE {Prep, Cli, Shell, Monitor} # {a, b, c}
  <2>1. Cardinality({a, b, c}) <= 3
    BY AtMostThree
  <2>2. {Prep, Cli, Shell, Monitor} = {a, b, c} => Cardinality({a, b, c}) = 4
    BY <1>1
  <2> HIDE <1>1
  <2> QED BY <2>1, <2>2
<1>3. Prep # Cli
  <2>1. Prep = Cli => {Prep, Cli, Shell, Monitor} = {Cli, Shell, Monitor}
    OBVIOUS
  <2> QED BY <2>1, <1>2
<1>4. Prep # Shell
  <2>1. Prep = Shell => {Prep, Cli, Shell, Monitor} = {Cli, Shell, Monitor}
    OBVIOUS
  <2> QED BY <2>1, <1>2
<1>5. Prep # Monitor
  <2>1. Prep = Monitor => {Prep, Cli, Shell, Monitor} = {Cli, Shell, Monitor}
    OBVIOUS
  <2> QED BY <2>1, <1>2
<1>6. Cli # Shell
  <2>1. Cli = Shell => {Prep, Cli, Shell, Monitor} = {Prep, Shell, Monitor}
    OBVIOUS
  <2> QED BY <2>1, <1>2
<1>7. Cli # Monitor
  <2>1. Cli = Monitor => {Prep, Cli, Shell, Monitor} = {Prep, Shell, Monitor}
    OBVIOUS
  <2> QED BY <2>1, <1>2
<1>8. Shell # Monitor
  <2>1. Shell = Monitor => {Prep, Cli, Shell, Monitor} = {Prep, Cli, Monitor}
    OBVIOUS
  <2> QED BY <2>1, <1>2
<1>9. \A w \in Worker : w \in Nat
  BY ClientsAssumption DEF Worker
<1> QED BY <1>1, <1>3, <1>4, <1>5, <1>6, <1>7, <1>8, <1>9 DEF Link, Others

\* A number is made up of its quotient and its rest.
LEMMA Rests ==
  ASSUME NEW a \in Nat, NEW b \in Nat, b > 0,
         NEW q \in Int, NEW r \in Int, q = a \div b, r = a % b
  PROVE  a = q * b + r
OBVIOUS

\* Quotients and rests are natural numbers.
LEMMA RestBounds ==
  ASSUME NEW a \in Nat, NEW b \in Nat, b > 0
  PROVE  a \div b \in Nat /\ a % b \in 0 .. b - 1
OBVIOUS

\* One worker more has one share more.
LEMMA OneMore ==
  ASSUME NEW q \in Nat, NEW n \in Nat
  PROVE  q * n \in Nat /\ q * (n + 1) = q * n + q
OBVIOUS

\* requests_for_client: the requests are split without rest, everybody has one.
LEMMA Division ==
  /\ Requests \div ClientCount \in Nat \ {0}
  /\ Requests % ClientCount \in 0 .. ClientCount - 1
  /\ Requests = (Requests \div ClientCount) * ClientCount + (Requests % ClientCount)
<1>1. Requests \in Nat /\ ClientCount \in Nat /\ ClientCount > 0 /\ ClientCount <= Requests
  BY ClientsAssumption
<1>2. PICK q, r : q = Requests \div ClientCount /\ r = Requests % ClientCount
  OBVIOUS
<1>3. q \in Nat /\ r \in 0 .. ClientCount - 1
  BY <1>1, <1>2, RestBounds
<1>4. Requests = q * ClientCount + r
  BY <1>1, <1>2, <1>3, Rests
<1>5. q # 0
  BY <1>1, <1>3, <1>4
<1>6. q \in Nat \ {0}
  BY <1>3, <1>5
<1> QED BY <1>2, <1>3, <1>4, <1>6

\* A worker's share is the quotient, or one more.
LEMMA Shares ==
  ASSUME NEW w \in Worker
  PROVE  /\ Share(w) \in Nat \ {0}
         /\ Share(w) = Requests \div ClientCount + (IF w \in Longer THEN 1 ELSE 0)
BY Division DEF Share, Longer

\* The keys of the benchmark, and the one after each in the order of the loop.
LEMMA KeyFacts ==
  /\ \A w \in Worker, s \in Nat : s < Share(w) => <<w, s>> \in Keys
  /\ \A k \in Keys : /\ k = <<k[1], k[2]>> /\ k[1] \in Worker
                     /\ k[2] \in Nat /\ k[2] < Share(k[1])
<1>1. \A k : k \in Keys <=> \E w \in Worker : \E s \in 0 .. Share(w) - 1 : k = <<w, s>>
  BY DEF Keys
<1>2. \A w \in Worker : Share(w) \in Nat
  BY Shares
<1> QED BY <1>1, <1>2

\* prepare_get_keys goes on to the next key: what comes before it is what came
\* before the last, and the last; after the last key nothing is left.
LEMMA NextFacts ==
  ASSUME NEW p \in Keys
  PROVE  /\ NextPosition(p) \in Keys \cup {<<ClientCount, 0>>}
         /\ NextPosition(p)[1] # ClientCount => NextPosition(p) \in Keys
         /\ Before(NextPosition(p)) \subseteq Before(p) \cup {p}
         /\ NextPosition(p)[1] = ClientCount => Keys \subseteq Before(p) \cup {p}
<1>1. /\ p = <<p[1], p[2]>> /\ p[1] \in Worker /\ p[2] \in Nat /\ p[2] < Share(p[1])
      /\ p[1] \in Nat /\ p[1] < ClientCount /\ ClientCount \in Nat
  BY KeyFacts, ClientsAssumption DEF Worker
<1>2. Share(p[1]) \in Nat
  BY <1>1, Shares
<1>5. ASSUME NEW k \in Keys
      PROVE  k = <<k[1], k[2]>> /\ k[1] \in Nat /\ k[1] < ClientCount /\ k[2] \in Nat
             /\ k[2] < Share(k[1]) /\ Share(k[1]) \in Nat
  BY KeyFacts, Shares, ClientsAssumption DEF Worker
<1>3. CASE p[2] + 1 < Share(p[1])
  <2>1. NextPosition(p) = <<p[1], p[2] + 1>>
    BY <1>3 DEF NextPosition
  <2>2. NextPosition(p) \in Keys
    BY <1>1, <1>3, <2>1, KeyFacts
  <2>3. ASSUME NEW k \in Keys, k \in Before(NextPosition(p)) PROVE k \in Before(p) \cup {p}
    BY <1>1, <1>5, <2>1, <2>3 DEF Before
  <2> QED BY <1>1, <2>1, <2>2, <2>3 DEF Before
<1>4. CASE ~(p[2] + 1 < Share(p[1]))
  <2>1. NextPosition(p) = <<p[1] + 1, 0>> /\ p[2] + 1 = Share(p[1])
    BY <1>1, <1>2, <1>4 DEF NextPosition
  <2>2. p[1] + 1 \in Worker \/ p[1] + 1 = ClientCount
    BY <1>1 DEF Worker
  <2>3. p[1] + 1 # ClientCount => NextPosition(p) \in Keys
    <3>1. p[1] + 1 # ClientCount => 0 < Share(p[1] + 1)
      BY <2>2, Shares
    <3> QED BY <2>1, <2>2, <3>1, KeyFacts
  <2>4. ASSUME NEW k \in Keys, k[1] < p[1] + 1 PROVE k \in Before(p) \cup {p}
    BY <1>1, <1>5, <2>1, <2>4 DEF Before
  <2>5. ASSUME NEW k \in Keys, k \in Before(NextPosition(p)) PROVE k[1] < p[1] + 1
    BY <1>1, <1>5, <2>1, <2>5 DEF Before
  <2>6. Before(NextPosition(p)) \subseteq Keys
    BY DEF Before
  <2> QED BY <1>5, <2>1, <2>2, <2>3, <2>4, <2>5, <2>6
<1> QED BY <1>3, <1>4

\* What the tools send are requests.
LEMMA RequestFacts ==
  /\ NoRequest \in Request /\ Info \in Request /\ Info # NoRequest
  /\ \A k \in Keys : /\ Set(k[1], k[2]) \in Request /\ Set(k[1], k[2]) # NoRequest
                     /\ Set(k[1], k[2]).op = "set" /\ Set(k[1], k[2]).key = k
  /\ \A n \in 1 .. MaxTyped, op \in {"read", "write"} :
       Line(n, op) \in Request /\ Line(n, op) # NoRequest /\ Line(n, op).line = n
  /\ \A r \in Request : r.op = "set" => r.key \in Keys
  /\ NoRequest.op = "none" /\ Info.op = "info"
<1>1. \A k \in Keys : k = <<k[1], k[2]>>
  BY KeyFacts
<1>2. \A k \in Keys : /\ Set(k[1], k[2]) = [op |-> "set", key |-> k]
                      /\ [op |-> "set", key |-> k] \in [op : {"set", "get"}, key : Keys]
  BY <1>1 DEF Set
<1>3. \A n \in 1 .. MaxTyped, op \in {"read", "write"} :
        Line(n, op) \in [op : {"read", "write"}, line : 1 .. MaxTyped]
  BY DEF Line
<1>4. \A r \in [op : {"read", "write"}, line : 1 .. MaxTyped] : r.op # "set"
  OBVIOUS
<1>5. \A r \in [op : {"set", "get"}, key : Keys] : r.key \in Keys
  OBVIOUS
<1>6. NoRequest.op = "none" /\ Info.op = "info"
  BY DEF NoRequest, Info
<1>7. \A n \in 1 .. MaxTyped, op \in {"read", "write"} : Line(n, op).op = op /\ Line(n, op).line = n
  BY DEF Line
<1>8. Request = {NoRequest, Info} \cup [op : {"set", "get"}, key : Keys]
                    \cup [op : {"read", "write"}, line : 1 .. MaxTyped]
  BY DEF Request
<1>9. \A n \in 1 .. MaxTyped, op \in {"read", "write"} :
        Line(n, op) \in Request /\ Line(n, op) # NoRequest /\ Line(n, op).line = n
  BY <1>3, <1>6, <1>7, <1>8
<1>10. \A k \in Keys : /\ Set(k[1], k[2]) \in Request /\ Set(k[1], k[2]).op = "set"
                       /\ Set(k[1], k[2]).key = k
  <2>1. \A k : [op |-> "set", key |-> k].op = "set" /\ [op |-> "set", key |-> k].key = k
    OBVIOUS
  <2>2. SUFFICES ASSUME NEW k \in Keys
                 PROVE  /\ Set(k[1], k[2]) \in Request /\ Set(k[1], k[2]).op = "set"
                        /\ Set(k[1], k[2]).key = k
    OBVIOUS
  <2>3. /\ Set(k[1], k[2]) = [op |-> "set", key |-> k]
        /\ [op |-> "set", key |-> k] \in [op : {"set", "get"}, key : Keys]
    BY <1>2
  <2>4. [op |-> "set", key |-> k] \in Request
    <3> DEFINE r == [op |-> "set", key |-> k]
    <3>1. r \in [op : {"set", "get"}, key : Keys]
      BY <2>3
    <3> HIDE DEF r
    <3>2. r \in Request
      BY <1>8, <3>1
    <3> QED BY <3>2 DEF r
  <2> QED BY <2>1, <2>3, <2>4
<1>11. \A k \in Keys : Set(k[1], k[2]) # NoRequest
  BY <1>6, <1>10
<1>12. \A r \in Request : r.op = "set" => r.key \in Keys
  BY <1>4, <1>5, <1>6, <1>8
<1> QED BY <1>6, <1>8, <1>9, <1>10, <1>11, <1>12

-----------------------------------------------------------------------------
(***************************************************************************)
(* What the operations on a stream do to it.                               *)
(***************************************************************************)

\* Nothing new comes up on stream l: it may break or be dropped, its request
\* may go, and of an answer under way no piece is added and the first stays.
Fades(l) ==
  /\ link'[l] \in {link[l], "none"} \/ (link[l] = "open" /\ link'[l] = "broken")
  /\ request'[l] \in {request[l], NoRequest}
  /\ Count(l)' <= Count(l)
  /\ Count(l)' > 0 => FirstPiece(l)' = FirstPiece(l)

\* A stream is what it was.
Same(l) ==
  /\ link'[l] = link[l] /\ request'[l] = request[l]
  /\ arriving'[l] = arriving[l] /\ buffer'[l] = buffer[l]

StreamTypes ==
  /\ link \in [Link -> {"none", "open", "broken"}]
  /\ request \in [Link -> Request]
  /\ arriving \in [Link -> Seq(Piece)]
  /\ buffer \in [Link -> Seq(Piece)]

\* What is under way is counted by natural numbers.
LEMMA Counts ==
  ASSUME StreamTypes, NEW l \in Link
  PROVE  /\ Count(l) \in Nat /\ Len(buffer[l]) \in Nat /\ Len(arriving[l]) \in Nat
         /\ buffer[l] \in Seq(Piece) /\ arriving[l] \in Seq(Piece)
         /\ buffer[l] = << >> <=> Len(buffer[l]) = 0
         /\ arriving[l] = << >> <=> Len(arriving[l]) = 0
         /\ Count(l) = 0 => buffer[l] = << >> /\ arriving[l] = << >>
         /\ Count(l) <= 2 /\ Len(buffer[l]) >= 2 =>
              Count(l) = 2 /\ Len(buffer[l]) = 2 /\ arriving[l] = << >>
<1>1. buffer[l] \in Seq(Piece) /\ arriving[l] \in Seq(Piece)
  BY DEF StreamTypes
<1> DEFINE b == Len(buffer[l])
           a == Len(arriving[l])
<1>2. /\ b \in Nat /\ a \in Nat
      /\ buffer[l] = << >> <=> b = 0
      /\ arriving[l] = << >> <=> a = 0
  BY <1>1
<1>3. Count(l) = b + a
  BY DEF Count
<1> HIDE DEF a, b
<1>4. /\ Count(l) \in Nat
      /\ Count(l) = 0 => b = 0 /\ a = 0
      /\ Count(l) <= 2 /\ b >= 2 => Count(l) = 2 /\ b = 2 /\ a = 0
  BY <1>2, <1>3
<1> QED BY <1>1, <1>2, <1>4 DEF a, b

\* A stream that stays as it was fades, and stays in order.
LEMMA SameFades ==
  ASSUME StreamTypes, NEW l \in Link, Same(l)
  PROVE  Fades(l) /\ (StreamOK(l) => StreamOK(l)')
<1>1. Count(l)' = Count(l) /\ Count(l) \in Nat /\ FirstPiece(l)' = FirstPiece(l)
  BY Counts DEF Same, Count, FirstPiece
<1> QED BY <1>1 DEF Same, Fades, StreamOK

\* One stream moves, the others stay.
LEMMA OneMoves ==
  ASSUME StreamsOK, StreamTypes', NEW l \in Link, StreamOK(l)',
         \A m \in Link : m # l => Same(m)
  PROVE  StreamsOK' /\ \A m \in Link : m # l => Fades(m)
<1>1. \A m \in Link : m # l => Fades(m) /\ StreamOK(m)'
  BY SameFades DEF StreamsOK, StreamTypes
<1>2. \A m \in Link : StreamOK(m)'
  BY <1>1
<1> QED BY <1>1, <1>2 DEF StreamsOK, StreamTypes

\* Nothing moves.
LEMMA NoneMoves ==
  ASSUME StreamsOK, UNCHANGED streams
  PROVE  StreamsOK' /\ \A m \in Link : Fades(m)
<1>1. \A m \in Link : Same(m)
  BY DEF streams, Same
<1>2. \A m \in Link : Fades(m) /\ StreamOK(m)'
  BY <1>1, SameFades DEF StreamsOK, StreamTypes
<1> QED BY <1>2 DEF StreamsOK, streams

\* A new connection has an empty buffer and nothing under way; nobody else's moves.
LEMMA OpOpens ==
  ASSUME StreamsOK, NEW l \in Link, Opens(l)
  PROVE  /\ StreamsOK' /\ \A m \in Link : m # l => Fades(m)
         /\ link'[l] = "open" /\ request'[l] = NoRequest /\ Count(l)' = 0
<1>1. StreamTypes' /\ \A m \in Link : m # l => Same(m)
  <2>1. << >> \in Seq(Piece)
    OBVIOUS
  <2> QED BY <2>1, RequestFacts DEF StreamsOK, StreamTypes, Opens, Same
<1>2. /\ link'[l] = "open" /\ request'[l] = NoRequest
      /\ buffer'[l] = << >> /\ arriving'[l] = << >>
  BY DEF StreamsOK, Opens
<1>3. Count(l)' = 0
  BY <1>2 DEF Count
<1>4. StreamOK(l)'
  BY <1>2, <1>3 DEF StreamOK
<1> QED BY <1>1, <1>2, <1>3, <1>4, OneMoves

\* Streams that are dropped take their requests and answers with them.
LEMMA OpDrops ==
  ASSUME StreamsOK, NEW links, links \subseteq Link, Drops(links)
  PROVE  /\ StreamsOK' /\ \A m \in Link : Fades(m)
         /\ request' = request
         /\ \A m \in links : link'[m] = "none" /\ Count(m)' = 0
<1>1. StreamTypes'
  <2>1. << >> \in Seq(Piece)
    OBVIOUS
  <2> QED BY <2>1 DEF StreamsOK, StreamTypes, Drops
<1>2. ASSUME NEW m \in Link, m \notin links PROVE Fades(m) /\ StreamOK(m)'
  <2>1. Same(m)
    BY <1>2 DEF Drops, Same
  <2> QED BY <2>1, SameFades DEF StreamsOK, StreamTypes
<1>3. ASSUME NEW m \in links
      PROVE  link'[m] = "none" /\ Count(m)' = 0 /\ Fades(m) /\ StreamOK(m)'
  <2>1. /\ link'[m] = "none" /\ request'[m] = request[m]
        /\ buffer'[m] = << >> /\ arriving'[m] = << >>
    BY DEF Drops
  <2>2. Count(m)' = 0
    BY <2>1 DEF Count
  <2>3. Count(m) \in Nat
    BY Counts DEF StreamsOK, StreamTypes
  <2> QED BY <2>1, <2>2, <2>3 DEF Fades, StreamOK
<1> QED BY <1>1, <1>2, <1>3 DEF StreamsOK, StreamTypes, Drops

\* A request is sent where no other is under way, or is lost with the stream.
LEMMA OpSends ==
  ASSUME StreamsOK, NEW l \in Link, NEW r \in Request, Sends(l, r),
         link[l] = "open" => Count(l) = 0
  PROVE  /\ StreamsOK' /\ \A m \in Link : m # l => Fades(m)
         /\ link' = link /\ request'[l] = (IF link[l] = "open" THEN r ELSE NoRequest)
         /\ Count(l)' = Count(l) /\ FirstPiece(l)' = FirstPiece(l)
<1>1. StreamTypes' /\ \A m \in Link : m # l => Same(m)
  BY RequestFacts DEF StreamsOK, StreamTypes, Sends, Same
<1>2. /\ link' = link /\ request'[l] = (IF link[l] = "open" THEN r ELSE NoRequest)
      /\ buffer'[l] = buffer[l] /\ arriving'[l] = arriving[l]
  BY DEF StreamsOK, Sends
<1>3. Count(l)' = Count(l) /\ FirstPiece(l)' = FirstPiece(l)
  BY <1>2 DEF Count, FirstPiece
<1>4. StreamOK(l)'
  BY <1>2, <1>3 DEF StreamsOK, StreamOK
<1> QED BY <1>1, <1>2, <1>3, <1>4, OneMoves

\* An answer that is there whole is all there is.
LEMMA WholeAnswer ==
  ASSUME StreamsOK, NEW l \in Link, HasAnswer(l)
  PROVE  /\ Count(l) = 2 /\ Len(buffer[l]) = 2 /\ arriving[l] = << >>
         /\ FirstPiece(l) = Parsed(l) /\ Parsed(l) \in Answers
         /\ request[l] = NoRequest /\ link[l] # "none"
<1>1. StreamTypes /\ StreamOK(l) /\ Count(l) <= 2
  BY DEF StreamsOK, StreamTypes, StreamOK
<1>2. Count(l) = 2 /\ Len(buffer[l]) = 2 /\ arriving[l] = << >> /\ buffer[l] # << >>
  BY <1>1, Counts DEF HasAnswer
<1>3. FirstPiece(l) = Parsed(l)
  BY <1>2 DEF FirstPiece, Parsed
<1> QED BY <1>1, <1>2, <1>3 DEF StreamOK

\* A whole answer that is taken leaves the buffer empty for the next one.
LEMMA OpTakes ==
  ASSUME StreamsOK, NEW l \in Link, Takes(l)
  PROVE  /\ StreamsOK' /\ \A m \in Link : Fades(m)
         /\ link' = link /\ request' = request /\ Count(l)' = 0
         /\ Count(l) = 2 /\ FirstPiece(l) = Parsed(l) /\ Parsed(l) \in Answers
         /\ request[l] = NoRequest /\ link[l] # "none"
<1>1. /\ Count(l) = 2 /\ Len(buffer[l]) = 2 /\ arriving[l] = << >>
      /\ FirstPiece(l) = Parsed(l) /\ Parsed(l) \in Answers
      /\ request[l] = NoRequest /\ link[l] # "none"
  BY WholeAnswer DEF Takes
<1>2. buffer[l] \in Seq(Piece)
  BY DEF StreamsOK
<1>3. SubSeq(buffer[l], 3, Len(buffer[l])) = << >>
  BY <1>1, <1>2
<1>4. buffer' = [buffer EXCEPT ![l] = << >>]
  BY <1>3 DEF Takes
<1>5. StreamTypes' /\ \A m \in Link : m # l => Same(m)
  <2>1. << >> \in Seq(Piece)
    OBVIOUS
  <2> QED BY <1>4, <2>1 DEF StreamsOK, StreamTypes, Takes, Same
<1>6. /\ link' = link /\ request' = request
      /\ buffer'[l] = << >> /\ arriving'[l] = << >>
  BY <1>1, <1>4 DEF Takes, StreamsOK
<1>7. Count(l)' = 0
  BY <1>6 DEF Count
<1>8. StreamOK(l)' /\ Fades(l)
  BY <1>1, <1>6, <1>7 DEF StreamOK, Fades
<1> QED BY <1>1, <1>5, <1>6, <1>7, <1>8, OneMoves

\* read: pieces move from the socket to the buffer, in their order.
LEMMA OpRead ==
  ASSUME StreamsOK, NEW l \in Link, ReadSome(l)
  PROVE  StreamsOK' /\ \A m \in Link : Fades(m)
<1>0. /\ buffer[l] \in Seq(Piece) /\ arriving[l] \in Seq(Piece)
      /\ StreamOK(l) /\ StreamTypes
  BY DEF StreamsOK, StreamTypes
<1>1. PICK n \in 1 .. Len(arriving[l]) :
        /\ buffer' = [buffer EXCEPT ![l] = @ \o SubSeq(arriving[l], 1, n)]
        /\ arriving' = [arriving EXCEPT ![l] = SubSeq(@, n + 1, Len(@))]
  BY DEF ReadSome
<1> DEFINE b == buffer[l]
           a == arriving[l]
           front == SubSeq(a, 1, n)
           rest == SubSeq(a, n + 1, Len(a))
<1>2. /\ front \in Seq(Piece) /\ rest \in Seq(Piece)
      /\ Len(front) = n /\ Len(rest) = Len(a) - n /\ Len(a) \in Nat
      /\ front[1] = a[1]
  BY <1>0
<1>3. /\ b \o front \in Seq(Piece) /\ Len(b \o front) = Len(b) + n /\ Len(b) \in Nat
      /\ (b \o front)[1] = IF b # << >> THEN b[1] ELSE a[1]
  <2>1. b \in Seq(Piece) /\ Len(b) \in Nat /\ (b = << >> <=> Len(b) = 0)
    BY <1>0
  <2> HIDE DEF front, b
  <2>2. b \o front \in Seq(Piece) /\ Len(b \o front) = Len(b) + n
    BY <1>2, <2>1
  <2>3. CASE b = << >>
    BY <1>2, <2>1, <2>2, <2>3
  <2>4. CASE b # << >>
    <3>1. (b \o front)[1] = b[1]
      BY <1>2, <2>1, <2>4
    <3> QED BY <2>1, <2>2, <2>4, <3>1
  <2> QED BY <2>3, <2>4
<1>4. buffer'[l] = b \o front /\ arriving'[l] = rest
  BY <1>1 DEF StreamsOK
<1>5. StreamTypes' /\ \A m \in Link : m # l => Same(m)
  <2> HIDE DEF front, rest, b
  <2>1. buffer' = [buffer EXCEPT ![l] = b \o front] /\ arriving' = [arriving EXCEPT ![l] = rest]
    BY <1>1 DEF front, rest, b
  <2> QED BY <1>2, <1>3, <2>1 DEF StreamsOK, StreamTypes, ReadSome, Same
<1>6. /\ Count(l)' = Count(l) /\ Count(l) \in Nat
      /\ FirstPiece(l)' = FirstPiece(l)
      /\ link'[l] = link[l] /\ request'[l] = request[l]
  <2>1. b \o front # << >>
    BY <1>1, <1>2, <1>3
  <2>2. link'[l] = link[l] /\ request'[l] = request[l]
    BY DEF ReadSome
  <2>3. Count(l)' = Len(b \o front) + Len(rest) /\ Count(l) = Len(b) + Len(a)
    BY <1>4 DEF Count
  <2>4. FirstPiece(l)' = (b \o front)[1]
    BY <1>4, <2>1 DEF FirstPiece
  <2>5. FirstPiece(l) = IF b # << >> THEN b[1] ELSE a[1]
    BY DEF FirstPiece
  <2> HIDE DEF front, rest, a, b
  <2>6. Count(l)' = Count(l) /\ Count(l) \in Nat
    BY <1>1, <1>2, <1>3, <2>3
  <2> QED BY <1>3, <2>2, <2>4, <2>5, <2>6
<1>7. StreamOK(l)' /\ Fades(l)
  BY <1>0, <1>6 DEF StreamOK, Fades
<1> QED BY <1>5, <1>7, OneMoves

\* A request is answered: the answer is all there is of the stream, if the
\* client still holds it.
LEMMA OpReplies ==
  ASSUME StreamsOK, NEW l \in Link, request[l] # NoRequest, NEW answer \in Answers,
         request' = [request EXCEPT ![l] = NoRequest], Replies(l, answer),
         UNCHANGED <<link, buffer>>
  PROVE  /\ StreamsOK' /\ \A m \in Link : m # l => Fades(m)
         /\ request'[l] = NoRequest /\ link' = link /\ Count(l) = 0
         /\ Count(l)' = (IF link[l] = "open" THEN 2 ELSE 0)
         /\ link[l] = "open" => FirstPiece(l)' = answer
<1>1. /\ Count(l) = 0 /\ link[l] \in {"none", "open"} /\ StreamTypes
      /\ buffer[l] = << >> /\ arriving[l] = << >>
  <2>1. StreamOK(l) /\ StreamTypes /\ link[l] \in {"none", "open", "broken"}
    BY DEF StreamsOK, StreamTypes
  <2>2. Count(l) = 0 /\ link[l] # "broken"
    BY <2>1 DEF StreamOK
  <2>3. buffer[l] = << >> /\ arriving[l] = << >>
    BY <2>1, <2>2, Counts DEF Count
  <2> QED BY <2>1, <2>2, <2>3
<1> DEFINE pieces == <<answer, Rest>>
<1>2. pieces \in Seq(Piece) /\ Len(pieces) = 2 /\ pieces[1] = answer /\ << >> \o pieces = pieces
  <2>1. answer \in Piece /\ Rest \in Piece
    BY DEF Piece
  <2> QED BY <2>1
<1>3. arriving'[l] = (IF link[l] = "open" THEN pieces ELSE << >>)
  BY <1>1, <1>2 DEF Replies, StreamTypes
<1>4. StreamTypes' /\ \A m \in Link : m # l => Same(m)
  <2>1. arriving'[l] \in Seq(Piece)
    BY <1>2, <1>3
  <2>2. arriving' = [arriving EXCEPT ![l] = arriving'[l]]
    BY <1>1 DEF Replies, StreamTypes
  <2>3. arriving' \in [Link -> Seq(Piece)]
    BY <1>1, <2>1, <2>2 DEF StreamTypes
  <2> QED BY <1>1, <2>2, <2>3, RequestFacts DEF StreamTypes, Same
<1>5. request'[l] = NoRequest /\ buffer'[l] = << >>
  BY <1>1 DEF StreamTypes
<1>6. Count(l)' = (IF link[l] = "open" THEN 2 ELSE 0)
  BY <1>2, <1>3, <1>5 DEF Count
<1>7. link[l] = "open" => FirstPiece(l)' = answer
  BY <1>2, <1>3, <1>5 DEF FirstPiece
<1>8. StreamOK(l)'
  BY <1>1, <1>5, <1>6, <1>7 DEF StreamOK
<1> QED BY <1>1, <1>4, <1>5, <1>6, <1>7, <1>8, OneMoves

\* The server's end takes the requests, and the tails of some answers.
LEMMA OpStop ==
  ASSUME StreamsOK, Stop
  PROVE  StreamsOK' /\ \A m \in Link : Fades(m)
<1>1. PICK n \in 0 .. 2 :
        arriving' = [l \in Link |-> IF Len(arriving[l]) <= n THEN arriving[l]
                                    ELSE SubSeq(arriving[l], 1, n)]
  BY DEF Stop
<1>2. /\ link' = [l \in Link |-> IF link[l] = "open" THEN "broken" ELSE link[l]]
      /\ request' = [l \in Link |-> NoRequest]
      /\ buffer' = buffer
  BY DEF Stop
<1>3. ASSUME NEW l \in Link
      PROVE  Fades(l) /\ StreamOK(l)' /\ arriving'[l] \in Seq(Piece)
  <2> DEFINE a == arriving[l]
  <2>1. /\ StreamOK(l) /\ a \in Seq(Piece) /\ Len(a) \in Nat /\ Len(buffer[l]) \in Nat
        /\ buffer[l] \in Seq(Piece) /\ link[l] \in {"none", "open", "broken"}
    BY Counts DEF StreamsOK, StreamTypes
  <2>2. arriving'[l] = IF Len(a) <= n THEN a ELSE SubSeq(a, 1, n)
    BY <1>1
  <2>3. /\ arriving'[l] \in Seq(Piece) /\ Len(arriving'[l]) <= Len(a) /\ Len(arriving'[l]) \in Nat
        /\ Len(arriving'[l]) > 0 => arriving'[l][1] = a[1]
    <3>1. CASE Len(a) <= n
      BY <2>1, <2>2, <3>1
    <3>2. CASE ~(Len(a) <= n)
      <4>1. /\ SubSeq(a, 1, n) \in Seq(Piece) /\ Len(SubSeq(a, 1, n)) = n
            /\ n > 0 => SubSeq(a, 1, n)[1] = a[1]
        BY <2>1, <3>2
      <4> QED BY <2>1, <2>2, <3>2, <4>1
    <3> QED BY <3>1, <3>2
  <2>9. Count(l)' = Len(buffer[l]) + Len(arriving'[l]) /\ Count(l) = Len(buffer[l]) + Len(a)
    BY <1>2 DEF Count
  <2>10. buffer[l] = << >> <=> Len(buffer[l]) = 0
    BY <2>1
  <2>11. FirstPiece(l)' = IF buffer[l] # << >> THEN buffer[l][1] ELSE arriving'[l][1]
    BY <1>2 DEF FirstPiece
  <2>12. FirstPiece(l) = IF buffer[l] # << >> THEN buffer[l][1] ELSE a[1]
    BY DEF FirstPiece
  <2>13. PICK b, c, d, m, k : /\ b = Len(buffer[l]) /\ c = Len(arriving'[l]) /\ d = Len(a)
                             /\ m = Count(l)' /\ k = Count(l)
    OBVIOUS
  <2>14. b \in Nat /\ c \in Nat /\ d \in Nat /\ c <= d
    BY <2>1, <2>3, <2>13
  <2>15. m = b + c /\ k = b + d
    BY <2>9, <2>13
  <2>16. m <= k /\ m \in Nat /\ k \in Nat
    BY <2>14, <2>15
  <2>4. Count(l)' <= Count(l) /\ Count(l)' \in Nat /\ Count(l) \in Nat
    BY <2>13, <2>16
  <2>5. Count(l)' > 0 => FirstPiece(l)' = FirstPiece(l)
    <3>1. b = 0 /\ Count(l)' > 0 => arriving'[l][1] = a[1]
      BY <2>3, <2>13, <2>14, <2>15
    <3>2. buffer[l] = << >> <=> b = 0
      BY <2>10, <2>13
    <3> QED BY <2>11, <2>12, <3>1, <3>2
  <2>6. request'[l] = NoRequest /\ link'[l] = IF link[l] = "open" THEN "broken" ELSE link[l]
    BY <1>2
  <2>7. Fades(l)
    BY <2>1, <2>4, <2>5, <2>6 DEF Fades
  <2>8. StreamOK(l)'
    BY <2>1, <2>4, <2>5, <2>6 DEF StreamOK
  <2> QED BY <2>3, <2>7, <2>8
<1>4. StreamTypes'
  <2>1. arriving' \in [Link -> Seq(Piece)]
    BY <1>1, <1>3
  <2> QED BY <1>2, <2>1, RequestFacts DEF StreamsOK, StreamTypes
<1> QED BY <1>3, <1>4 DEF StreamsOK, StreamTypes

-----------------------------------------------------------------------------
(***************************************************************************)
(* What a step leaves alone: each part of the invariant needs of the       *)
(* streams only that nothing new comes up on them.                         *)
(***************************************************************************)

\* Numbers of streams that fade.
LEMMA FadesFacts ==
  ASSUME StreamsOK, StreamsOK', NEW l \in Link, Fades(l)
  PROVE  /\ Count(l) \in Nat /\ Count(l)' \in Nat /\ Count(l)' <= Count(l)
         /\ Count(l) = 0 => Count(l)' = 0
         /\ Count(l)' > 0 => Count(l) > 0 /\ FirstPiece(l)' = FirstPiece(l)
         /\ link[l] = "none" => link'[l] = "none"
         /\ link'[l] = "open" => link[l] = "open"
         /\ request[l] = NoRequest => request'[l] = NoRequest
         /\ request'[l] # NoRequest => request'[l] = request[l] /\ Count(l) = 0
<1>1. Count(l) \in Nat /\ Count(l)' \in Nat
  <2>1. Count(l) \in Nat
    BY Counts DEF StreamsOK, StreamTypes
  <2>2. buffer'[l] \in Seq(Piece) /\ arriving'[l] \in Seq(Piece)
    BY DEF StreamsOK
  <2>3. Len(buffer'[l]) \in Nat /\ Len(arriving'[l]) \in Nat
    BY <2>2
  <2>4. Count(l)' \in Nat
    <3>1. PICK b, a : b = Len(buffer'[l]) /\ a = Len(arriving'[l])
      OBVIOUS
    <3>2. b \in Nat /\ a \in Nat
      BY <2>3, <3>1
    <3>3. Count(l)' = b + a
      BY <3>1 DEF Count
    <3> QED BY <3>2, <3>3
  <2> QED BY <2>1, <2>4
<1>2. StreamOK(l)
  BY DEF StreamsOK
<1> QED BY <1>1, <1>2 DEF Fades, StreamOK

\* A worker of which nothing changes but what it has lost with its stream.
LEMMA WorkerKept ==
  ASSUME StreamsOK, StreamsOK', NEW w \in Worker, Fades(w), WorkerOK(w),
         worker'[w] = worker[w], completed'[w] = completed[w], answered'[w] = answered[w],
         (w \in joined') = (w \in joined), UNCHANGED mode
  PROVE  WorkerOK(w)'
<1>1. /\ Count(w) \in Nat /\ Count(w)' \in Nat /\ Count(w)' <= Count(w)
      /\ Count(w) = 0 => Count(w)' = 0
      /\ Count(w)' > 0 => Count(w) > 0 /\ FirstPiece(w)' = FirstPiece(w)
      /\ link[w] = "none" => link'[w] = "none"
      /\ request[w] = NoRequest => request'[w] = NoRequest
      /\ request'[w] # NoRequest => request'[w] = request[w] /\ Count(w) = 0
  BY Links, FadesFacts
<1>2. CommandArgs(w, completed[w])' = CommandArgs(w, completed[w])
  BY DEF CommandArgs, Set, Get
<1> QED BY <1>1, <1>2 DEF WorkerOK

\* The benchmark's workers and sum.
LEMMA BenchKept ==
  ASSUME StreamsOK, StreamsOK', \A w \in Worker : Fades(w), BenchOK,
         UNCHANGED <<mode, bench, worker, completed, answered, joined, aggregate>>
  PROVE  BenchOK'
<1>1. ASSUME NEW w \in Worker, WorkerOK(w) PROVE WorkerOK(w)'
  BY <1>1, WorkerKept
<1>2. SumOK => SumOK'
  BY DEF SumOK
<1> QED BY <1>1, <1>2 DEF BenchOK

\* prepare_get_keys.
LEMMA PrepareKept ==
  ASSUME StreamsOK, StreamsOK', Fades(Prep), PrepareOK,
         UNCHANGED <<mode, bench, position>>
  PROVE  PrepareOK'
<1>1. /\ Count(Prep) = 0 => Count(Prep)' = 0
      /\ request[Prep] = NoRequest => request'[Prep] = NoRequest
      /\ request'[Prep] # NoRequest => request'[Prep] = request[Prep]
  BY Links, FadesFacts
<1>2. Set(position[1], position[2])' = Set(position[1], position[2])
  BY DEF Set
<1> QED BY <1>1, <1>2 DEF PrepareOK

\* No key of the benchmark is lost, or somebody else was there.
Grows == undisturbed' => undisturbed /\ store \subseteq store'

\* The keys that were set.
LEMMA StoreKept ==
  ASSUME StreamsOK, StreamsOK', Fades(Prep), \A w \in Worker : Fades(w), StoreOK, Grows,
         UNCHANGED <<mode, bench, position, worker, completed>>
  PROVE  StoreOK'
<1>1. ASSUME undisturbed' PROVE undisturbed /\ store \subseteq store'
  BY <1>1 DEF Grows
<1>2. Before(position)' = Before(position)
  BY DEF Before, Keys, Share, Worker
<1>3. Count(Prep)' > 0 => Count(Prep) > 0 /\ FirstPiece(Prep)' = FirstPiece(Prep)
  BY Links, FadesFacts
<1>4. \A w \in Worker : Count(w)' > 0 => Count(w) > 0 /\ FirstPiece(w)' = FirstPiece(w)
  BY Links, FadesFacts
<1>5. Keys' = Keys
  OBVIOUS
<1> QED BY <1>1, <1>2, <1>3, <1>4, <1>5 DEF StoreOK

\* What a GET asks for.
LEMMA HitsKept ==
  ASSUME GetsHit, Grows,
         \A w \in Worker : request'[w] \in {request[w], NoRequest}
  PROVE  GetsHit'
BY RequestFacts DEF GetsHit, Grows

\* All of the benchmark.
LEMMA BenchmarkKept ==
  ASSUME IInv, StreamsOK', Fades(Prep), \A w \in Worker : Fades(w), Grows,
         UNCHANGED <<mode, benchmark, answered>>
  PROVE  BenchOK' /\ PrepareOK' /\ StoreOK' /\ GetsHit'
<1>1. StreamsOK /\ BenchOK /\ PrepareOK /\ StoreOK /\ GetsHit
  BY DEF IInv
<1>2. UNCHANGED <<mode, bench, position, worker, completed, answered, joined, aggregate>>
  BY DEF benchmark
<1>3. \A w \in Worker : request'[w] \in {request[w], NoRequest}
  BY DEF Fades
<1>4. BenchOK'
  BY <1>1, <1>2, BenchKept
<1>5. PrepareOK'
  BY <1>1, <1>2, PrepareKept
<1>6. StoreOK'
  BY <1>1, <1>2, StoreKept
<1> QED BY <1>1, <1>3, <1>4, <1>5, <1>6, HitsKept

\* Later is an order of samples.
LEMMA LaterThan ==
  ASSUME NEW s \in Sample, NEW t \in Sample, NEW u \in Sample, Later(s, t), Later(t, u)
  PROVE  Later(s, u)
<1>1. /\ s.total \in Nat /\ t.total \in Nat /\ u.total \in Nat
      /\ s.executed \in Nat /\ t.executed \in Nat /\ u.executed \in Nat
      /\ s.life \in Nat /\ t.life \in Nat /\ u.life \in Nat
  BY DEF Sample
<1> QED BY <1>1 DEF Later

\* What the monitor shows.
LEMMA MonitorKept ==
  ASSUME StreamsOK, StreamsOK', Fades(Monitor), MonitorOK, UNCHANGED display,
         Current \in Sample, Current' \in Sample, Later(Current, Current')
  PROVE  MonitorOK'
<1>1. /\ Count(Monitor)' > 0 => Count(Monitor) > 0 /\ FirstPiece(Monitor)' = FirstPiece(Monitor)
      /\ link[Monitor] = "none" => link'[Monitor] = "none"
      /\ request'[Monitor] \in {request[Monitor], NoRequest}
  BY Links, FadesFacts DEF Fades
<1>2. Later(sampled, Current')
  BY LaterThan DEF MonitorOK
<1>3. ASSUME Count(Monitor)' > 0
      PROVE  /\ Later(sampled, FirstPiece(Monitor).sample)
             /\ Later(FirstPiece(Monitor).sample, Current')
  <2>1. FirstPiece(Monitor) \in Answers
    BY <1>1, <1>3, Links DEF StreamsOK, StreamOK
  <2>2. FirstPiece(Monitor).sample \in Sample
    BY <2>1 DEF Answers
  <2> QED BY <1>1, <1>3, <2>2, LaterThan DEF MonitorOK
<1>4. UNCHANGED <<monitor, previous, qps, sampled, since>>
  BY DEF display
<1>5. Later(sampled, Current)'
  BY <1>2, <1>4 DEF Later
<1>6. Count(Monitor)' > 0 =>
        Later(sampled, FirstPiece(Monitor).sample)' /\ Later(FirstPiece(Monitor).sample, Current)'
  BY <1>1, <1>3, <1>4 DEF Later
<1>7. QpsIsReal'
  BY <1>4 DEF MonitorOK, QpsIsReal
<1> QED BY <1>1, <1>4, <1>5, <1>6, <1>7 DEF MonitorOK

\* What the shell shows.
LEMMA ShellKept ==
  ASSUME StreamsOK, StreamsOK', Fades(Shell), ShellOK, UNCHANGED <<shell, typed, history>>
  PROVE  ShellOK'
<1>1. /\ Count(Shell) \in Nat /\ Count(Shell)' \in Nat /\ Count(Shell)' <= Count(Shell)
      /\ Count(Shell) = 0 => Count(Shell)' = 0
      /\ Count(Shell)' > 0 => FirstPiece(Shell)' = FirstPiece(Shell)
      /\ link'[Shell] = "open" => link[Shell] = "open"
      /\ request'[Shell] # NoRequest => request'[Shell] = request[Shell]
  BY Links, FadesFacts
<1>2. Count(Shell) <= 2
  BY Links DEF StreamsOK, StreamOK
<1>3. Count(Shell)' = 2 => Count(Shell) = 2 /\ FirstPiece(Shell)' = FirstPiece(Shell)
  BY <1>1, <1>2
<1>4. HistoryOK(history, typed)'
  BY DEF ShellOK, HistoryOK
<1> QED BY <1>1, <1>3, <1>4 DEF ShellOK

\* The streams of the next state have their types.
LEMMA StreamsTyped ==
  ASSUME StreamsOK'
  PROVE  /\ link' \in [Link -> {"none", "open", "broken"}]
         /\ request' \in [Link -> Request]
         /\ \A l \in Link : Len(arriving'[l]) + Len(buffer'[l]) <= 2
<1>1. ASSUME NEW l \in Link PROVE Len(arriving'[l]) + Len(buffer'[l]) <= 2
  <2>1. buffer'[l] \in Seq(Piece) /\ arriving'[l] \in Seq(Piece)
    BY DEF StreamsOK
  <2>2. Count(l)' <= 2
    BY DEF StreamsOK, StreamOK
  <2>3. PICK b, a : b = Len(buffer'[l]) /\ a = Len(arriving'[l])
    OBVIOUS
  <2>4. b \in Nat /\ a \in Nat
    BY <2>1, <2>3
  <2>5. b + a <= 2
    BY <2>2, <2>3 DEF Count
  <2>6. a + b <= 2
    BY <2>4, <2>5
  <2> QED BY <2>3, <2>6
<1> QED BY <1>1 DEF StreamsOK

\* The parts of TypeOK.
ToolTypes == tool \in {"bench", "cli", "shell", "monitor"} /\ mode \in {"set", "get", "mixed"}

ServerTypes ==
  /\ up \in BOOLEAN /\ undisturbed \in BOOLEAN
  /\ life \in Nat /\ total \in Nat /\ executed \in Nat
  /\ store \subseteq Keys

BenchTypes ==
  /\ bench \in {"off", "prepare", "preparing", "run", "reported", "failed"}
  /\ position \in Keys \cup {<<ClientCount, 0>>}
  /\ worker \in [Worker -> {"connect", "ready", "wait", "done", "failed"}]
  /\ \A w \in Worker : completed[w] \in 0 .. Share(w)
  /\ joined \subseteq Worker
  /\ aggregate \in Nat

TerminalTypes ==
  /\ cli \in {"off", "connect", "wait", "printed", "failed"}
  /\ shell \in {"off", "prompt", "wait", "closed"}
  /\ connected \in BOOLEAN
  /\ typed \in Nat
  /\ Len(history) <= MaxHistory

DisplayTypes ==
  /\ monitor \in {"off", "tick", "connect", "wait", "quit"}
  /\ status \in {"Connecting", "Online", "Offline"}
  /\ previous \in Nat \cup {-1}
  /\ qps \in Nat

\* TypeOK is made of them, and each outlives a step that leaves its variables.
LEMMA TypeParts ==
  /\ TypeOK => /\ ToolTypes /\ ServerTypes /\ BenchTypes /\ TerminalTypes /\ DisplayTypes
               /\ answered \in [Worker -> Nat]
  /\ /\ ToolTypes' /\ ServerTypes' /\ BenchTypes' /\ TerminalTypes' /\ DisplayTypes'
     /\ answered' \in [Worker -> Nat] /\ StreamsOK'
     => TypeOK'
<1>1. ASSUME TypeOK
      PROVE  /\ ToolTypes /\ ServerTypes /\ BenchTypes /\ TerminalTypes /\ DisplayTypes
             /\ answered \in [Worker -> Nat]
  BY <1>1 DEF TypeOK, ToolTypes, ServerTypes, BenchTypes, TerminalTypes, DisplayTypes
<1>2. ASSUME ToolTypes', ServerTypes', BenchTypes', TerminalTypes', DisplayTypes',
             answered' \in [Worker -> Nat], StreamsOK'
      PROVE  TypeOK'
  <2>1. /\ link' \in [Link -> {"none", "open", "broken"}]
        /\ request' \in [Link -> Request]
        /\ \A l \in Link : Len(arriving'[l]) + Len(buffer'[l]) <= 2
    BY <1>2, StreamsTyped
  <2>2. {life', total', executed', aggregate', typed', qps'} \subseteq Nat
    BY <1>2 DEF ServerTypes, BenchTypes, TerminalTypes, DisplayTypes
  <2>3. up' \in BOOLEAN /\ undisturbed' \in BOOLEAN /\ connected' \in BOOLEAN /\ store' \subseteq Keys
    BY <1>2 DEF ServerTypes, TerminalTypes
  <2>4. /\ bench' \in {"off", "prepare", "preparing", "run", "reported", "failed"}
        /\ position' \in Keys \cup {<<ClientCount, 0>>}
        /\ worker' \in [Worker -> {"connect", "ready", "wait", "done", "failed"}]
        /\ \A w \in Worker : completed'[w] \in 0 .. Share(w)
        /\ joined' \subseteq Worker
    BY <1>2 DEF BenchTypes
  <2>5. /\ cli' \in {"off", "connect", "wait", "printed", "failed"}
        /\ shell' \in {"off", "prompt", "wait", "closed"}
        /\ Len(history') <= MaxHistory
    BY <1>2 DEF TerminalTypes
  <2>6. /\ monitor' \in {"off", "tick", "connect", "wait", "quit"}
        /\ status' \in {"Connecting", "Online", "Offline"}
        /\ previous' \in Nat \cup {-1}
    BY <1>2 DEF DisplayTypes
  <2>7. tool' \in {"bench", "cli", "shell", "monitor"} /\ mode' \in {"set", "get", "mixed"}
    BY <1>2 DEF ToolTypes
  <2> QED BY <1>2, <2>1, <2>2, <2>3, <2>4, <2>5, <2>6, <2>7 DEF TypeOK
<1> QED BY <1>1, <1>2

\* The types of what a step leaves alone.
LEMMA TypesKept ==
  /\ ServerTypes /\ UNCHANGED server => ServerTypes'
  /\ BenchTypes /\ UNCHANGED benchmark => BenchTypes'
  /\ TerminalTypes /\ UNCHANGED terminal => TerminalTypes'
  /\ DisplayTypes /\ UNCHANGED display => DisplayTypes'
  /\ ToolTypes /\ UNCHANGED <<tool, mode>> => ToolTypes'
<1>1. BenchTypes /\ UNCHANGED benchmark => BenchTypes'
  BY DEF BenchTypes, benchmark
<1>2. ServerTypes /\ UNCHANGED server => ServerTypes'
  BY DEF ServerTypes, server
<1>3. TerminalTypes /\ UNCHANGED terminal => TerminalTypes'
  BY DEF TerminalTypes, terminal
<1>4. DisplayTypes /\ UNCHANGED display => DisplayTypes'
  BY DEF DisplayTypes, display
<1>5. ToolTypes /\ UNCHANGED <<tool, mode>> => ToolTypes'
  BY DEF ToolTypes
<1> QED BY <1>1, <1>2, <1>3, <1>4, <1>5

\* The statistics of now.
LEMMA Now ==
  ASSUME TypeOK
  PROVE  Current \in Sample /\ Later(Current, Current)
BY DEF TypeOK, Current, Sample, Later

\* A step of one tool leaves the server's numbers alone.
LEMMA ServerKept ==
  ASSUME TypeOK, UNCHANGED server
  PROVE  Grows /\ Current \in Sample /\ Current' \in Sample /\ Later(Current, Current')
<1>1. Current' = Current /\ Grows
  BY DEF server, Current, Grows
<1> QED BY <1>1, Now

\* A step of the one-shot client.
LEMMA CliFrame ==
  ASSUME IInv, StreamsOK', \A m \in Link : m # Cli => Fades(m), CliOnly,
         cli' \in {"wait", "printed", "failed"}
  PROVE  IInv'
<1> USE DEF CliOnly
<1>1. TypeOK /\ StreamsOK /\ MonitorOK /\ ShellOK
  BY DEF IInv
<1>2. Fades(Prep) /\ Fades(Shell) /\ Fades(Monitor) /\ \A w \in Worker : Fades(w)
  BY Links
<1>3. BenchOK' /\ PrepareOK' /\ StoreOK' /\ GetsHit'
  BY <1>1, <1>2, ServerKept, BenchmarkKept
<1>4. MonitorOK'
  BY <1>1, <1>2, ServerKept, MonitorKept
<1>5. ShellOK'
  BY <1>1, <1>2, ShellKept
<1>6. TypeOK'
  <2>1. TerminalTypes'
    BY <1>1, TypeParts DEF TerminalTypes
  <2> QED BY <1>1, <2>1, TypeParts, TypesKept
<1>7. typed' <= MaxTyped /\ completed' \in [Worker -> Nat]
  BY DEF IInv, benchmark
<1> QED BY <1>3, <1>4, <1>5, <1>6, <1>7 DEF IInv

\* A step of the shell.
LEMMA ShellFrame ==
  ASSUME IInv, StreamsOK', \A m \in Link : m # Shell => Fades(m), ShellOnly, ShellOK',
         shell' \in {"prompt", "wait", "closed"}, connected' \in BOOLEAN,
         typed' \in Nat, typed' <= MaxTyped, Len(history') <= MaxHistory
  PROVE  IInv'
<1> USE DEF ShellOnly
<1>1. TypeOK /\ StreamsOK /\ MonitorOK
  BY DEF IInv
<1>2. Fades(Prep) /\ Fades(Cli) /\ Fades(Monitor) /\ \A w \in Worker : Fades(w)
  BY Links
<1>3. BenchOK' /\ PrepareOK' /\ StoreOK' /\ GetsHit'
  BY <1>1, <1>2, ServerKept, BenchmarkKept
<1>4. MonitorOK'
  BY <1>1, <1>2, ServerKept, MonitorKept
<1>5. cli' = "connect" => link'[Cli] = "none"
  BY <1>1, <1>2, Links, FadesFacts DEF IInv
<1>6. TypeOK'
  <2>1. TerminalTypes'
    BY <1>1, TypeParts DEF TerminalTypes
  <2> QED BY <1>1, <2>1, TypeParts, TypesKept
<1>7. completed' \in [Worker -> Nat]
  BY DEF IInv, benchmark
<1> QED BY <1>3, <1>4, <1>5, <1>6, <1>7 DEF IInv

\* A step of the monitor.
LEMMA MonitorFrame ==
  ASSUME IInv, StreamsOK', \A m \in Link : m # Monitor => Fades(m), MonitorOnly, MonitorOK',
         monitor' \in {"tick", "connect", "wait", "quit"},
         status' \in {"Connecting", "Online", "Offline"},
         previous' \in Nat \cup {-1}, qps' \in Nat
  PROVE  IInv'
<1> USE DEF MonitorOnly
<1>1. TypeOK /\ StreamsOK /\ ShellOK
  BY DEF IInv
<1>2. Fades(Prep) /\ Fades(Cli) /\ Fades(Shell) /\ \A w \in Worker : Fades(w)
  BY Links
<1>3. BenchOK' /\ PrepareOK' /\ StoreOK' /\ GetsHit'
  BY <1>1, <1>2, ServerKept, BenchmarkKept
<1>4. ShellOK'
  BY <1>1, <1>2, ShellKept DEF terminal
<1>5. cli' = "connect" => link'[Cli] = "none"
  BY <1>1, <1>2, Links, FadesFacts DEF IInv, terminal
<1>6. TypeOK'
  <2>1. DisplayTypes'
    BY DEF DisplayTypes
  <2> QED BY <1>1, <2>1, TypeParts, TypesKept
<1>7. typed' <= MaxTyped /\ completed' \in [Worker -> Nat]
  BY DEF IInv, benchmark, terminal
<1> QED BY <1>3, <1>4, <1>5, <1>6, <1>7 DEF IInv

\* A step of the benchmark.
LEMMA BenchFrame ==
  ASSUME IInv, StreamsOK', Fades(Cli), Fades(Shell), Fades(Monitor), BenchOnly,
         BenchOK', PrepareOK', StoreOK', GetsHit',
         bench' \in {"prepare", "preparing", "run", "reported", "failed"},
         position' \in Keys \cup {<<ClientCount, 0>>},
         worker' \in [Worker -> {"connect", "ready", "wait", "done", "failed"}],
         completed' \in [Worker -> Nat], \A w \in Worker : completed'[w] \in 0 .. Share(w),
         joined' \subseteq Worker, aggregate' \in Nat
  PROVE  IInv'
<1> USE DEF BenchOnly
<1>1. TypeOK /\ StreamsOK /\ ShellOK /\ MonitorOK
  BY DEF IInv
<1>2. MonitorOK'
  BY <1>1, ServerKept, MonitorKept
<1>3. ShellOK'
  BY <1>1, ShellKept DEF terminal
<1>4. cli' = "connect" => link'[Cli] = "none"
  BY <1>1, Links, FadesFacts DEF IInv, terminal
<1>5. TypeOK'
  <2>1. BenchTypes'
    BY DEF BenchTypes
  <2> QED BY <1>1, <2>1, TypeParts, TypesKept
<1>6. typed' <= MaxTyped
  BY DEF IInv, terminal
<1> QED BY <1>2, <1>3, <1>4, <1>5, <1>6 DEF IInv

-----------------------------------------------------------------------------
(***************************************************************************)
(* rustkv-cli for one command.                                             *)
(***************************************************************************)

\* run_one_shot connects and writes: its stream is new.
LEMMA CliSendOK ==
  ASSUME IInv, CliSend
  PROVE  IInv'
<1> USE DEF CliSend
<1>1. StreamsOK /\ Cli \in Link /\ link[Cli] = "none" /\ StreamOK(Cli)
  BY Links DEF IInv, StreamsOK
<1>2. PICK op \in {"read", "write"} : request' = [request EXCEPT ![Cli] = Line(1, op)]
  OBVIOUS
<1>3. Line(1, op) \in Request
  <2>1. 1 \in 1 .. MaxTyped
    BY ClientsAssumption
  <2> QED BY <2>1, RequestFacts
<1>4. StreamTypes' /\ \A m \in Link : m # Cli => Same(m)
  BY <1>1, <1>2, <1>3 DEF StreamsOK, StreamTypes, Same
<1>5. StreamOK(Cli)'
  BY <1>1 DEF StreamOK, Count, FirstPiece, StreamsOK
<1>6. StreamsOK' /\ \A m \in Link : m # Cli => Fades(m)
  BY <1>1, <1>4, <1>5, OneMoves
<1> QED BY <1>6, CliFrame

\* The answer is printed and the stream dropped.
LEMMA CliAnsweredOK ==
  ASSUME IInv, CliAnswered
  PROVE  IInv'
<1>1. StreamsOK' /\ \A m \in Link : Fades(m)
  BY Links, OpDrops DEF IInv, CliAnswered
<1> QED BY <1>1, CliFrame DEF CliAnswered

\* No connection, or it ended.
LEMMA CliFailsOK ==
  ASSUME IInv, CliFails
  PROVE  IInv'
<1>1. StreamsOK' /\ \A m \in Link : Fades(m)
  BY NoneMoves DEF IInv, CliFails
<1> QED BY <1>1, CliFrame DEF CliFails

-----------------------------------------------------------------------------
(***************************************************************************)
(* The shell.                                                              *)
(***************************************************************************)

\* What is left of a history when its oldest lines go.
LEMMA HistorySuffix ==
  ASSUME NEW h, NEW last, HistoryOK(h, last), NEW k \in Nat, k <= Len(h)
  PROVE  /\ HistoryOK(SubSeq(h, k + 1, Len(h)), last)
         /\ Len(SubSeq(h, k + 1, Len(h))) = Len(h) - k
<1> DEFINE t == SubSeq(h, k + 1, Len(h))
<1>1. h \in Seq(Shown) /\ Len(h) \in Nat
  BY DEF HistoryOK
<1>2. /\ t \in Seq(Shown) /\ Len(t) = Len(h) - k /\ Len(t) \in Nat
      /\ \A i \in 1 .. Len(t) : t[i] = h[i + k]
  BY <1>1
<1> HIDE DEF t
<1>3. ASSUME NEW i \in 1 .. Len(t), NEW j \in 1 .. Len(t),
             i < j, t[i][1] = "user", \A m \in i + 1 .. j : t[m][1] # "user", t[j] # System
      PROVE  t[j][2] = t[i][2]
  <2>1. /\ i + k \in 1 .. Len(h) /\ j + k \in 1 .. Len(h) /\ i + k < j + k
        /\ t[i] = h[i + k] /\ t[j] = h[j + k]
    BY <1>1, <1>2, <1>3
  <2>2. ASSUME NEW m \in (i + k) + 1 .. j + k PROVE h[m][1] # "user"
    <3>1. m - k \in i + 1 .. j /\ m - k \in 1 .. Len(t) /\ (m - k) + k = m
      BY <1>2
    <3> QED BY <1>2, <1>3, <3>1
  <2> QED BY <1>3, <2>1, <2>2 DEF HistoryOK
<1>4. ASSUME NEW i \in 1 .. Len(t), t[i][1] = "user", \A m \in i + 1 .. Len(t) : t[m][1] # "user"
      PROVE  t[i][2] = last
  <2>1. i + k \in 1 .. Len(h) /\ t[i] = h[i + k]
    BY <1>1, <1>2
  <2>2. ASSUME NEW m \in (i + k) + 1 .. Len(h) PROVE h[m][1] # "user"
    <3>1. m - k \in i + 1 .. Len(t) /\ m - k \in 1 .. Len(t) /\ (m - k) + k = m
      BY <1>1, <1>2
    <3> QED BY <1>2, <1>4, <3>1
  <2> QED BY <1>4, <2>1, <2>2 DEF HistoryOK
<1>5. HistoryOK(t, last)
  BY <1>2, <1>3, <1>4 DEF HistoryOK
<1> QED BY <1>2, <1>5 DEF t

\* Lines that belong to the last line typed may follow it.
LEMMA HistoryExtend ==
  ASSUME NEW h, NEW last, HistoryOK(h, last), NEW more \in Seq(Shown),
         \A i \in 1 .. Len(more) : more[i][1] # "user" /\ (more[i] # System => more[i][2] = last)
  PROVE  HistoryOK(h \o more, last)
<1> DEFINE t == h \o more
<1>1. h \in Seq(Shown) /\ Len(h) \in Nat /\ Len(more) \in Nat
  BY DEF HistoryOK
<1>2. /\ t \in Seq(Shown) /\ Len(t) = Len(h) + Len(more) /\ Len(t) \in Nat
      /\ \A i \in 1 .. Len(h) : t[i] = h[i]
      /\ \A i \in Len(h) + 1 .. Len(t) : i - Len(h) \in 1 .. Len(more) /\ t[i] = more[i - Len(h)]
  BY <1>1
<1> HIDE DEF t
<1>3. ASSUME NEW i \in 1 .. Len(t), t[i][1] = "user"
      PROVE  i \in 1 .. Len(h) /\ t[i] = h[i]
  <2>1. ~(i \in Len(h) + 1 .. Len(t))
    BY <1>2, <1>3
  <2>2. i \in 1 .. Len(h)
    BY <1>1, <1>2, <2>1
  <2> QED BY <1>2, <2>2
<1>4. ASSUME NEW i \in 1 .. Len(t), t[i][1] = "user", \A m \in i + 1 .. Len(h) : t[m][1] # "user"
      PROVE  t[i][2] = last
  <2>1. i \in 1 .. Len(h) /\ t[i] = h[i]
    BY <1>3, <1>4
  <2>2. \A m \in i + 1 .. Len(h) : h[m][1] # "user"
    BY <1>1, <1>2, <1>4, <2>1
  <2> QED BY <1>4, <2>1, <2>2 DEF HistoryOK
<1>5. ASSUME NEW i \in 1 .. Len(t), NEW j \in 1 .. Len(t),
             i < j, t[i][1] = "user", \A m \in i + 1 .. j : t[m][1] # "user", t[j] # System
      PROVE  t[j][2] = t[i][2]
  <2>1. i \in 1 .. Len(h) /\ t[i] = h[i]
    BY <1>3, <1>5
  <2>2. CASE j \in 1 .. Len(h)
    <3>1. t[j] = h[j] /\ \A m \in i + 1 .. j : h[m][1] # "user"
      BY <1>1, <1>2, <1>5, <2>1, <2>2
    <3> QED BY <1>5, <2>1, <2>2, <3>1 DEF HistoryOK
  <2>3. CASE j \notin 1 .. Len(h)
    <3>1. j \in Len(h) + 1 .. Len(t)
      BY <1>1, <1>2, <2>3
    <3>2. t[j][2] = last
      BY <1>2, <1>5, <3>1
    <3>3. \A m \in i + 1 .. Len(h) : m \in i + 1 .. j
      BY <1>1, <1>2, <3>1
    <3>4. t[i][2] = last
      BY <1>4, <1>5, <3>3
    <3> QED BY <3>2, <3>4
  <2> QED BY <2>2, <2>3
<1>6. ASSUME NEW i \in 1 .. Len(t), t[i][1] = "user", \A m \in i + 1 .. Len(t) : t[m][1] # "user"
      PROVE  t[i][2] = last
  <2>1. \A m \in i + 1 .. Len(h) : m \in i + 1 .. Len(t)
    BY <1>1, <1>2
  <2> QED BY <1>4, <1>6, <2>1
<1>7. HistoryOK(t, last)
  BY <1>2, <1>5, <1>6 DEF HistoryOK
<1> QED BY <1>7 DEF t

\* A line typed begins anew.
LEMMA HistoryUser ==
  ASSUME NEW h, NEW old, HistoryOK(h, old), NEW n \in Nat
  PROVE  HistoryOK(h \o <<User(n)>>, n)
<1> DEFINE t == h \o <<User(n)>>
<1>1. h \in Seq(Shown) /\ Len(h) \in Nat /\ User(n) \in Shown /\ User(n)[1] = "user" /\ User(n)[2] = n
  BY DEF HistoryOK, User, Shown
<1>2. /\ t \in Seq(Shown) /\ Len(t) = Len(h) + 1 /\ Len(t) \in Nat
      /\ \A i \in 1 .. Len(h) : t[i] = h[i]
      /\ t[Len(h) + 1] = User(n)
  BY <1>1
<1> HIDE DEF t
<1>3. ASSUME NEW i \in 1 .. Len(t), NEW j \in 1 .. Len(t),
             i < j, t[i][1] = "user", \A m \in i + 1 .. j : t[m][1] # "user", t[j] # System
      PROVE  t[j][2] = t[i][2]
  <2>1. j \in i + 1 .. j /\ t[j][1] # "user"
    BY <1>2, <1>3
  <2>2. j # Len(h) + 1
    BY <1>1, <1>2, <2>1
  <2>3. j \in 1 .. Len(h) /\ i \in 1 .. Len(h)
    BY <1>1, <1>2, <1>3, <2>2
  <2>4. t[i] = h[i] /\ t[j] = h[j] /\ \A m \in i + 1 .. j : h[m][1] # "user"
    BY <1>1, <1>2, <1>3, <2>3
  <2> QED BY <1>3, <2>3, <2>4 DEF HistoryOK
<1>4. ASSUME NEW i \in 1 .. Len(t), t[i][1] = "user", \A m \in i + 1 .. Len(t) : t[m][1] # "user"
      PROVE  t[i][2] = n
  <2>1. ~(Len(h) + 1 \in i + 1 .. Len(t))
    BY <1>1, <1>2, <1>4
  <2>2. i = Len(h) + 1
    BY <1>1, <1>2, <2>1
  <2> QED BY <1>1, <1>2, <2>2
<1>5. HistoryOK(t, n)
  BY <1>2, <1>3, <1>4 DEF HistoryOK
<1> QED BY <1>5 DEF t

\* push_history keeps the order, and its limit.
LEMMA Pushed ==
  ASSUME NEW lines, NEW last, HistoryOK(history \o lines, last), Push(lines)
  PROVE  HistoryOK(history', last) /\ Len(history') <= MaxHistory
<1> DEFINE all == history \o lines
           overflow == IF Len(all) > MaxHistory THEN Len(all) - MaxHistory ELSE 0
<1>1. history' = SubSeq(all, overflow + 1, Len(all))
  BY DEF Push
<1>2. Len(all) \in Nat /\ MaxHistory \in Nat
  BY ClientsAssumption DEF HistoryOK
<1>3. HistoryOK(all, last)
  OBVIOUS
<1>4. overflow \in Nat /\ overflow <= Len(all) /\ Len(all) - overflow <= MaxHistory
  <2> HIDE DEF all
  <2> QED BY <1>2
<1> HIDE DEF all, overflow
<1> QED BY <1>1, <1>3, <1>4, HistorySuffix

\* The line typed, and the numbers of lines.
LEMMA Typing ==
  ASSUME IInv, Types
  PROVE  /\ typed' \in 1 .. MaxTyped /\ typed' \in Nat /\ typed' <= MaxTyped
         /\ request[Shell] = NoRequest
         /\ Count(Shell) # 2
         /\ link[Shell] = "open" => Count(Shell) = 0
BY ClientsAssumption DEF Types, IInv, TypeOK, ShellOK

\* submit_input: the line goes out on a stream that has no answer left, or on
\* one that is broken.
LEMMA ShellSendOK ==
  ASSUME IInv, ShellSend
  PROVE  IInv'
<1> USE DEF ShellSend
<1>1. /\ typed' \in 1 .. MaxTyped /\ typed' \in Nat /\ typed' <= MaxTyped
      /\ Count(Shell) # 2 /\ link[Shell] = "open" => Count(Shell) = 0
      /\ StreamsOK /\ Shell \in Link /\ ShellOK
  BY Typing, Links DEF IInv
<1>2. PICK op \in {"read", "write"} : Sends(Shell, Line(typed', op))
  OBVIOUS
<1>3. Line(typed', op) \in Request /\ Line(typed', op).line = typed'
  BY <1>1, RequestFacts
<1>4. link[Shell] = "open" => Count(Shell) = 0
  BY Typing
<1>5. /\ StreamsOK' /\ \A m \in Link : m # Shell => Fades(m)
      /\ link' = link /\ request'[Shell] = (IF link[Shell] = "open" THEN Line(typed', op) ELSE NoRequest)
      /\ Count(Shell)' = Count(Shell)
  BY <1>1, <1>2, <1>3, <1>4, OpSends
<1>6. HistoryOK(history \o <<User(typed')>>, typed')
  BY <1>1, HistoryUser DEF ShellOK
<1>7. HistoryOK(history', typed') /\ Len(history') <= MaxHistory
  BY <1>6, Pushed
<1>8. Count(Shell) # 2
  BY Typing
<1>9. ShellOK'
  BY <1>3, <1>5, <1>7, <1>8 DEF ShellOK, HistoryOK
<1> QED BY <1>1, <1>5, <1>7, <1>9, ShellFrame

\* What the shell answers by itself.
LEMMA ShellLocalOK ==
  ASSUME IInv, ShellLocal
  PROVE  IInv'
<1> USE DEF ShellLocal
<1>1. /\ typed' \in Nat /\ typed' <= MaxTyped /\ request[Shell] = NoRequest /\ Count(Shell) # 2
      /\ link[Shell] = "open" => Count(Shell) = 0
  BY Typing
<1>2. StreamsOK /\ ShellOK /\ shell = "prompt" /\ HistoryOK(history, typed) /\ Shell \in Link /\ TypeOK
  BY Links DEF IInv, ShellOK, Types
<1>3. StreamsOK' /\ \A m \in Link : Fades(m)
  BY <1>2, NoneMoves
<1>4. System \in Shown /\ System[1] = "system" /\ Error(typed') \in Shown /\ Error(typed')[1] = "error"
      /\ Error(typed')[2] = typed'
  BY <1>1 DEF System, Error, Shown
<1>5. HistoryOK(history \o <<User(typed')>>, typed')
  BY <1>1, <1>2, HistoryUser
<1>6. history \in Seq(Shown) /\ User(typed') \in Shown
  BY <1>1, <1>2 DEF HistoryOK, User, Shown
<1>7. HistoryOK(history', typed') /\ Len(history') <= MaxHistory
  <2>1. CASE Push(<<User(typed'), System, System>>)
    <3>1. /\ <<System, System>> \in Seq(Shown) /\ Len(<<System, System>>) = 2
          /\ \A i \in 1 .. 2 : <<System, System>>[i] = System
      BY <1>4
    <3>2. HistoryOK((history \o <<User(typed')>>) \o <<System, System>>, typed')
      BY <1>4, <1>5, <3>1, HistoryExtend
    <3>3. (history \o <<User(typed')>>) \o <<System, System>> = history \o <<User(typed'), System, System>>
      BY <1>4, <1>6
    <3> QED BY <2>1, <3>2, <3>3, Pushed
  <2>2. CASE history' = <<System>>
    <3>1. <<System>> \in Seq(Shown) /\ Len(<<System>>) = 1 /\ <<System>>[1] = System
      BY <1>4
    <3>2. HistoryOK(<<System>>, typed')
      <4>1. \A i \in 1 .. Len(<<System>>) : <<System>>[i][1] # "user"
        BY <1>4, <3>1
      <4> QED BY <3>1, <4>1 DEF HistoryOK
    <3> QED BY <2>2, <3>1, <3>2, ClientsAssumption
  <2>3. CASE Push(<<User(typed'), Error(typed')>>)
    <3>1. /\ <<Error(typed')>> \in Seq(Shown) /\ Len(<<Error(typed')>>) = 1
          /\ \A i \in 1 .. 1 : <<Error(typed')>>[i] = Error(typed')
      BY <1>4
    <3>2. HistoryOK((history \o <<User(typed')>>) \o <<Error(typed')>>, typed')
      BY <1>4, <1>5, <3>1, HistoryExtend
    <3>3. (history \o <<User(typed')>>) \o <<Error(typed')>> = history \o <<User(typed'), Error(typed')>>
      BY <1>4, <1>6
    <3> QED BY <2>3, <3>2, <3>3, Pushed
  <2> QED BY <2>1, <2>2, <2>3
<1>8. UNCHANGED <<link, request, arriving, buffer>>
  BY DEF streams
<1>9. ShellOK'
  BY <1>1, <1>2, <1>7, <1>8 DEF ShellOK, HistoryOK, Count
<1> QED BY <1>1, <1>2, <1>3, <1>7, <1>9, ShellFrame DEF TypeOK

\* The answer to the line typed last is shown below it.
LEMMA ShellAnsweredOK ==
  ASSUME IInv, ShellAnswered
  PROVE  IInv'
<1> USE DEF ShellAnswered
<1>1. StreamsOK /\ ShellOK /\ Shell \in Link /\ TypeOK /\ typed <= MaxTyped
  BY Links DEF IInv
<1>2. /\ StreamsOK' /\ \A m \in Link : Fades(m)
      /\ request' = request /\ Count(Shell)' = 0
      /\ Count(Shell) = 2 /\ FirstPiece(Shell) = Parsed(Shell) /\ Parsed(Shell) \in Answers
      /\ request[Shell] = NoRequest
  BY <1>1, OpTakes
<1>3. Parsed(Shell).to.line = typed /\ Parsed(Shell).lines \in Nat /\ typed \in Nat
  BY <1>1, <1>2 DEF ShellOK, Answers, TypeOK
<1> DEFINE more == [i \in 1 .. Parsed(Shell).lines |-> Response(Parsed(Shell).to.line)]
<1>4. Response(typed) \in Shown /\ Response(typed)[1] = "response" /\ Response(typed)[2] = typed
  BY <1>3 DEF Response, Shown
<1>5. more \in Seq(Shown) /\ \A i \in 1 .. Len(more) : more[i] = Response(typed)
  BY <1>3, <1>4
<1>6. HistoryOK(history', typed) /\ Len(history') <= MaxHistory
  <2> HIDE DEF more
  <2>1. HistoryOK(history \o more, typed)
    BY <1>1, <1>4, <1>5, HistoryExtend DEF ShellOK
  <2> QED BY <2>1, Pushed DEF more
<1>7. ShellOK'
  BY <1>2, <1>6 DEF ShellOK, HistoryOK
<1> QED BY <1>1, <1>2, <1>3, <1>6, <1>7, ShellFrame DEF TypeOK

\* So is the error, if the connection is lost.
LEMMA ShellFailsOK ==
  ASSUME IInv, ShellFails
  PROVE  IInv'
<1> USE DEF ShellFails
<1>1. StreamsOK /\ ShellOK /\ Shell \in Link /\ TypeOK /\ typed <= MaxTyped /\ typed \in Nat
  BY Links DEF IInv, TypeOK
<1>2. StreamsOK' /\ \A m \in Link : Fades(m)
  BY <1>1, NoneMoves
<1>3. /\ <<Error(typed)>> \in Seq(Shown) /\ Len(<<Error(typed)>>) = 1
      /\ \A i \in 1 .. 1 : <<Error(typed)>>[i][1] # "user" /\ <<Error(typed)>>[i][2] = typed
  BY <1>1 DEF Error, Shown
<1>4. HistoryOK(history \o <<Error(typed)>>, typed)
  BY <1>1, <1>3, HistoryExtend DEF ShellOK
<1>5. HistoryOK(history', typed) /\ Len(history') <= MaxHistory
  BY <1>4, Pushed
<1>6. link[Shell] = "broken" /\ request[Shell] = NoRequest /\ Count(Shell) # 2
  <2>1. link[Shell] = "broken" /\ StreamOK(Shell)
    BY <1>1 DEF Lost, StreamsOK
  <2>2. request[Shell] = NoRequest
    BY <2>1 DEF StreamOK
  <2>3. arriving[Shell] = << >> /\ ~(Len(buffer[Shell]) >= 2) /\ Len(buffer[Shell]) \in Nat
    BY <1>1, Counts DEF Lost, HasAnswer, StreamsOK, StreamTypes
  <2>4. Len(arriving[Shell]) = 0
    BY <2>3
  <2>5. PICK b, a : b = Len(buffer[Shell]) /\ a = Len(arriving[Shell])
    OBVIOUS
  <2>6. a = 0 /\ b \in Nat /\ ~(b >= 2)
    BY <2>3, <2>4, <2>5
  <2>7. Count(Shell) = b + a
    BY <2>5 DEF Count
  <2> QED BY <2>1, <2>2, <2>6, <2>7
<1>7. UNCHANGED <<link, request, arriving, buffer>>
  BY DEF streams
<1>8. ShellOK'
  BY <1>5, <1>6, <1>7 DEF ShellOK, HistoryOK, Count
<1> QED BY <1>1, <1>2, <1>5, <1>8, ShellFrame DEF TypeOK

\* The shell is left.
LEMMA ShellQuitOK ==
  ASSUME IInv, ShellQuit
  PROVE  IInv'
<1> USE DEF ShellQuit
<1>1. /\ StreamsOK /\ ShellOK /\ Shell \in Link /\ TypeOK /\ typed <= MaxTyped /\ typed \in Nat
      /\ {Shell} \subseteq Link
  BY Links DEF IInv, TypeOK
<1>2. /\ StreamsOK' /\ \A m \in Link : Fades(m)
      /\ request' = request
      /\ link'[Shell] = "none" /\ Count(Shell)' = 0
  BY <1>1, OpDrops
<1>3. ShellOK'
  BY <1>1, <1>2 DEF ShellOK, HistoryOK
<1> QED BY <1>1, <1>2, <1>3, ShellFrame DEF TypeOK

-----------------------------------------------------------------------------
(***************************************************************************)
(* The monitor.                                                            *)
(***************************************************************************)

\* The types of the display.
LEMMA Displayed ==
  ASSUME IInv
  PROVE  /\ StreamsOK /\ MonitorOK /\ TypeOK
         /\ monitor \in {"off", "tick", "connect", "wait", "quit"}
         /\ status \in {"Connecting", "Online", "Offline"}
         /\ previous \in Nat \cup {-1} /\ qps \in Nat
         /\ Monitor \in Link /\ {Monitor} \subseteq Link
BY Links DEF IInv, TypeOK

\* The statistics are what they were.
LEMMA SampleKept ==
  ASSUME IInv, MonitorOnly, UNCHANGED <<previous, qps, sampled, since>>
  PROVE  /\ Later(sampled, Current)' /\ QpsIsReal'
         /\ previous' = -1 => sampled' = NoSample
         /\ previous' # -1 => previous' = sampled'.total
         /\ since'.restarted \in BOOLEAN /\ since'.commands \in Nat
<1>1. UNCHANGED <<total, executed, life>> /\ MonitorOK
  BY DEF MonitorOnly, server, IInv
<1> QED BY <1>1 DEF MonitorOK, Later, Current, QpsIsReal

\* The interval has passed.
LEMMA MonitorTickOK ==
  ASSUME IInv, MonitorTick
  PROVE  IInv'
<1> USE DEF MonitorTick
<1>1. StreamsOK' /\ \A m \in Link : Fades(m)
  BY Displayed, NoneMoves
<1>2. UNCHANGED <<link, request, arriving, buffer>> /\ Count(Monitor)' = Count(Monitor)
      /\ FirstPiece(Monitor)' = FirstPiece(Monitor)
  BY DEF streams, Count, FirstPiece
<1>3. UNCHANGED <<total, executed, life>>
  BY DEF MonitorOnly, server
<1>4. MonitorOK'
  BY <1>2, <1>3, SampleKept, Displayed DEF MonitorOK, Later, Current
<1> QED BY <1>1, <1>4, Displayed, MonitorFrame

\* A new stream, and INFO on it.
LEMMA MonitorAskOK ==
  ASSUME IInv, MonitorAsk
  PROVE  IInv'
<1> USE DEF MonitorAsk
<1>1. StreamsOK /\ link[Monitor] = "none" /\ StreamOK(Monitor) /\ Monitor \in Link /\ Count(Monitor) = 0
  BY Displayed DEF MonitorOK, StreamsOK, StreamOK
<1>2. StreamTypes' /\ \A m \in Link : m # Monitor => Same(m)
  BY <1>1, RequestFacts DEF StreamsOK, StreamTypes, Same
<1>3. Count(Monitor)' = 0 /\ link'[Monitor] = "open" /\ request'[Monitor] = Info
  BY <1>1 DEF Count, StreamsOK
<1>4. StreamOK(Monitor)'
  BY <1>3 DEF StreamOK
<1>5. StreamsOK' /\ \A m \in Link : m # Monitor => Fades(m)
  BY <1>1, <1>2, <1>4, OneMoves
<1>6. MonitorOK'
  BY <1>3, SampleKept, Displayed DEF MonitorOK
<1> QED BY <1>5, <1>6, Displayed, MonitorFrame

\* The stream is dropped without an answer.
LEMMA MonitorDrops ==
  ASSUME IInv, Drops({Monitor}), MonitorOnly, UNCHANGED <<previous, qps, sampled, since>>
  PROVE  StreamsOK' /\ (\A m \in Link : Fades(m)) /\ MonitorOK'
<1>1. /\ StreamsOK' /\ \A m \in Link : Fades(m)
      /\ request' = request /\ link'[Monitor] = "none" /\ Count(Monitor)' = 0
  BY Displayed, OpDrops
<1>2. MonitorOK'
  BY <1>1, SampleKept, Displayed DEF MonitorOK
<1> QED BY <1>1, <1>2

\* MonitorApp::refresh ends with an error: the last sample is kept.
LEMMA MonitorFailsOK ==
  ASSUME IInv, MonitorFails
  PROVE  IInv'
BY Displayed, MonitorDrops, MonitorFrame DEF MonitorFails

\* The monitor is left: its socket goes with it.
LEMMA MonitorQuitOK ==
  ASSUME IInv, MonitorQuit
  PROVE  IInv'
BY Displayed, MonitorDrops, MonitorFrame DEF MonitorQuit

\* calculate_qps: of two samples in order, the difference of the totals is no
\* more than what was executed in between, and all of it without a restart.
LEMMA MonitorAnsweredOK ==
  ASSUME IInv, MonitorAnswered
  PROVE  IInv'
<1> DEFINE sample == Parsed(Monitor).sample
<1>1. /\ HasAnswer(Monitor) /\ Drops({Monitor}) /\ MonitorOnly
      /\ qps' = CalculateQps(sample.total) /\ previous' = sample.total
      /\ status' = "Online" /\ monitor' = "tick" /\ sampled' = sample
      /\ since' = [commands |-> sample.executed - sampled.executed,
                   restarted |-> previous = -1 \/ sample.life # sampled.life]
  BY DEF MonitorAnswered
<1>2. /\ StreamsOK' /\ \A m \in Link : Fades(m)
      /\ request' = request /\ link'[Monitor] = "none" /\ Count(Monitor)' = 0
  BY <1>1, Displayed, OpDrops
<1>3. Count(Monitor) = 2 /\ FirstPiece(Monitor) = Parsed(Monitor) /\ Parsed(Monitor) \in Answers
  BY <1>1, Displayed, WholeAnswer
<1>4. /\ sample \in Sample /\ sampled \in Sample
      /\ Later(sampled, sample) /\ Later(sample, Current)
      /\ previous = -1 => sampled = NoSample
      /\ previous # -1 => previous = sampled.total
      /\ request[Monitor] \in {NoRequest, Info}
  BY <1>3, Displayed DEF Answers, MonitorOK
<1> HIDE DEF sample
<1>5. /\ sample.total \in Nat /\ sample.executed \in Nat /\ sample.life \in Nat
      /\ sampled.total \in Nat /\ sampled.executed \in Nat /\ sampled.life \in Nat
  BY <1>4 DEF Sample
<1>6. /\ since'.commands = sample.executed - sampled.executed
      /\ since'.restarted = (previous = -1 \/ sample.life # sampled.life)
  BY <1>1
<1>7. since'.restarted \in BOOLEAN /\ since'.commands \in Nat
  BY <1>4, <1>5, <1>6 DEF Later
<1>8. QpsIsReal' /\ qps' \in Nat
  <2>1. qps' = IF previous = -1 \/ sample.total < previous THEN 0 ELSE sample.total - previous
    BY <1>1 DEF CalculateQps
  <2>2. previous \in Nat \cup {-1}
    BY Displayed
  <2>3. /\ sampled.executed <= sample.executed /\ sampled.life <= sample.life
        /\ sampled.life = sample.life =>
             sample.total - sampled.total = sample.executed - sampled.executed
        /\ sampled.life < sample.life => sample.total <= sample.executed - sampled.executed
    BY <1>4 DEF Later
  <2>4. CASE previous = -1
    <3>1. since'.restarted /\ qps' = 0
      BY <1>6, <2>1, <2>4
    <3> QED BY <1>7, <3>1 DEF QpsIsReal
  <2>5. CASE previous # -1
    <3>1. previous = sampled.total /\ (since'.restarted <=> sample.life # sampled.life)
      BY <1>4, <1>6, <2>5
    <3>2. CASE sample.life = sampled.life
      BY <1>5, <1>6, <2>1, <2>3, <2>5, <3>1, <3>2 DEF QpsIsReal
    <3>3. CASE sample.life # sampled.life
      <4>1. sample.total <= sample.executed - sampled.executed
        BY <1>5, <2>3, <3>3
      <4> QED BY <1>5, <1>6, <2>1, <2>3, <2>5, <3>1, <3>3, <4>1 DEF QpsIsReal
    <3> QED BY <3>2, <3>3
  <2> QED BY <2>4, <2>5
<1>9. Later(sampled, Current)'
  <2>1. UNCHANGED <<total, executed, life>>
    BY <1>1 DEF MonitorOnly, server
  <2>2. Later(sampled', Current')
    BY <1>1, <1>4, <2>1 DEF Later, Current
  <2> QED BY <2>2
<1>10. MonitorOK'
  BY <1>1, <1>2, <1>4, <1>5, <1>7, <1>8, <1>9 DEF MonitorOK
<1> QED BY <1>1, <1>2, <1>5, <1>8, <1>10, MonitorFrame

-----------------------------------------------------------------------------
(***************************************************************************)
(* The benchmark.                                                          *)
(***************************************************************************)

\* What a worker sends for its next command.
LEMMA Commands ==
  ASSUME NEW w \in Worker, NEW s \in Nat, s < Share(w), mode \in {"set", "get", "mixed"}
  PROVE  /\ CommandArgs(w, s) \in Request /\ CommandArgs(w, s) # NoRequest
         /\ mode = "mixed" /\ s % 2 = 0 => CommandArgs(w, s) = Set(w, s)
         /\ CommandArgs(w, s).op = "get" =>
              \/ mode = "get" /\ CommandArgs(w, s).key \in Keys
              \/ /\ mode = "mixed" /\ s >= 1 /\ (s - 1) % 2 = 0
                 /\ CommandArgs(w, s).key = <<w, s - 1>>
<1>1. Share(w) \in Nat
  BY Shares
<1>2. \A n \in Nat : n < Share(w) =>
        /\ <<w, n>> \in Keys
        /\ Set(w, n).op = "set" /\ Get(w, n).op = "get" /\ Get(w, n).key = <<w, n>>
        /\ Set(w, n) \in Request /\ Get(w, n) \in Request
  <2>1. ASSUME NEW n \in Nat, n < Share(w)
        PROVE  /\ <<w, n>> \in Keys
               /\ Set(w, n).op = "set" /\ Get(w, n).op = "get" /\ Get(w, n).key = <<w, n>>
               /\ Set(w, n) \in Request /\ Get(w, n) \in Request
    <3>1. <<w, n>> \in Keys
      BY <2>1, KeyFacts
    <3>2. Set(w, n).op = "set" /\ Get(w, n).op = "get" /\ Get(w, n).key = <<w, n>>
      BY DEF Set, Get
    <3>3. /\ Set(w, n) \in [op : {"set", "get"}, key : Keys]
          /\ Get(w, n) \in [op : {"set", "get"}, key : Keys]
      BY <3>1 DEF Set, Get
    <3>4. Set(w, n) \in Request /\ Get(w, n) \in Request
      BY <3>3 DEF Request
    <3> QED BY <3>1, <3>2, <3>4
  <2> QED BY <2>1
<1>3. s % 2 \in {0, 1} /\ (s % 2 # 0 => s >= 1 /\ (s - 1) % 2 = 0)
  OBVIOUS
<1>4. CASE mode = "set"
  <2>1. CommandArgs(w, s) = Set(w, s)
    BY <1>4 DEF CommandArgs
  <2> QED BY <1>2, <1>4, <2>1, RequestFacts
<1>5. CASE mode = "get"
  <2>1. CommandArgs(w, s) = Get(w, s)
    BY <1>5 DEF CommandArgs
  <2>2. /\ Get(w, s) \in Request /\ Get(w, s).op = "get"
        /\ Get(w, s).key \in Keys
    BY <1>2
  <2> QED BY <1>5, <2>1, <2>2, RequestFacts
<1>6. CASE mode = "mixed" /\ s % 2 = 0
  <2>1. CommandArgs(w, s) = Set(w, s)
    BY <1>6 DEF CommandArgs
  <2> QED BY <1>2, <1>6, <2>1, RequestFacts
<1>7. CASE mode = "mixed" /\ s % 2 # 0
  <2>1. CommandArgs(w, s) = Get(w, s - 1)
    BY <1>7 DEF CommandArgs
  <2>2. s - 1 \in Nat /\ s - 1 < Share(w)
    BY <1>1, <1>3, <1>7
  <2>3. /\ Get(w, s - 1) \in Request /\ Get(w, s - 1).op = "get"
        /\ Get(w, s - 1).key = <<w, s - 1>>
    BY <1>2, <2>2
  <2> QED BY <1>3, <1>7, <2>1, <2>3, RequestFacts
<1> QED BY <1>4, <1>5, <1>6, <1>7

\* What every step of the benchmark starts from.
LEMMA Bench ==
  ASSUME IInv
  PROVE  /\ StreamsOK /\ BenchOK /\ PrepareOK /\ StoreOK /\ GetsHit /\ TypeOK
         /\ bench \in {"off", "prepare", "preparing", "run", "reported", "failed"}
         /\ position \in Keys \cup {<<ClientCount, 0>>}
         /\ worker \in [Worker -> {"connect", "ready", "wait", "done", "failed"}]
         /\ completed \in [Worker -> Nat] /\ answered \in [Worker -> Nat]
         /\ \A w \in Worker : completed[w] \in 0 .. Share(w)
         /\ joined \subseteq Worker /\ aggregate \in Nat
         /\ mode \in {"set", "get", "mixed"}
BY DEF IInv, TypeOK

\* A step of one worker, or of the preparation, that changes neither the store
\* nor, on the streams of the tools, anything of the others.
LEMMA Aside ==
  ASSUME BenchOnly
  PROVE  Grows /\ store' = store /\ undisturbed' = undisturbed /\ mode' = mode
         /\ answered' = answered
BY DEF BenchOnly, server, Grows

\* A step of the preparation: the workers wait for it.
LEMMA PrepareFrame ==
  ASSUME IInv, StreamsOK', \A m \in Link : m # Prep => Fades(m), BenchOnly,
         UNCHANGED <<worker, completed, joined, aggregate>>,
         bench \in {"prepare", "preparing"}, bench' \in {"prepare", "preparing", "run", "failed"},
         position' \in Keys \cup {<<ClientCount, 0>>},
         PrepareOK', StoreOK'
  PROVE  IInv'
<1>1. Fades(Cli) /\ Fades(Shell) /\ Fades(Monitor) /\ \A w \in Worker : Fades(w)
  BY Links
<1>2. UNCHANGED <<mode, answered>> /\ Grows
  BY Aside
<1>3. BenchOK'
  <2>1. \A w \in Worker : WorkerOK(w)'
    BY <1>1, <1>2, Bench, WorkerKept DEF BenchOK
  <2>2. SumOK'
    BY Bench DEF BenchOK, SumOK
  <2> QED BY <2>1, <2>2, Bench DEF BenchOK
<1>4. GetsHit'
  BY <1>1, <1>2, Bench, HitsKept DEF Fades
<1> QED BY <1>1, <1>3, <1>4, Bench, BenchFrame

\* prepare_get_keys connects.
LEMMA PrepConnectOK ==
  ASSUME IInv, PrepConnect
  PROVE  IInv'
<1> USE DEF PrepConnect
<1>1. /\ StreamsOK' /\ \A m \in Link : m # Prep => Fades(m)
      /\ request'[Prep] = NoRequest /\ Count(Prep)' = 0
  BY Bench, Links, OpOpens
<1>2. UNCHANGED <<bench, position, worker, completed, joined, aggregate>>
  BY DEF benchmark
<1>3. PrepareOK'
  BY <1>1, <1>2, Bench, Aside DEF PrepareOK
<1>4. StoreOK'
  BY <1>2, Bench, Aside DEF StoreOK, Before
<1> QED BY <1>1, <1>2, <1>3, <1>4, Bench, PrepareFrame

\* It sets the key at its position.
LEMMA PrepSendOK ==
  ASSUME IInv, PrepSend
  PROVE  IInv'
<1> USE DEF PrepSend
<1>1. position \in Keys /\ mode = "get" /\ Count(Prep) = 0 /\ request[Prep] = NoRequest
  BY Bench DEF PrepareOK
<1>2. Set(position[1], position[2]) \in Request
  BY <1>1, RequestFacts
<1>3. /\ StreamsOK' /\ \A m \in Link : m # Prep => Fades(m)
      /\ request'[Prep] \in {Set(position[1], position[2]), NoRequest} /\ Count(Prep)' = 0
  BY <1>1, <1>2, Bench, Links, OpSends
<1>4. PrepareOK'
  BY <1>1, <1>3, Aside DEF PrepareOK, Set
<1>5. StoreOK'
  <2>1. Before(position)' = Before(position) /\ store' = store /\ undisturbed' = undisturbed
    BY Aside DEF Before, Keys, Share, Worker
  <2>2. undisturbed => Before(position) \subseteq store
    BY <1>1, Bench DEF StoreOK
  <2> QED BY <1>1, <1>3, <2>1, <2>2, Aside DEF StoreOK
<1> QED BY <1>3, <1>4, <1>5, Bench, PrepareFrame

\* The key is set, unless it was refused: on to the next one, or to the workers.
LEMMA PrepAnsweredOK ==
  ASSUME IInv, PrepAnswered
  PROVE  IInv'
<1> USE DEF PrepAnswered
<1>1. position \in Keys /\ mode = "get"
  BY Bench DEF PrepareOK
<1>2. /\ StreamsOK' /\ \A m \in Link : m # Prep => Fades(m)
      /\ request'[Prep] = NoRequest /\ Count(Prep)' = 0
      /\ Count(Prep) = 2 /\ FirstPiece(Prep) = Parsed(Prep) /\ Parsed(Prep) \in Answers
  BY Bench, Links, OpTakes
<1>3. /\ position' \in Keys \cup {<<ClientCount, 0>>}
      /\ position'[1] # ClientCount => position' \in Keys
      /\ Before(position') \subseteq Before(position) \cup {position}
      /\ position'[1] = ClientCount => Keys \subseteq Before(position) \cup {position}
  BY <1>1, NextFacts
<1>4. /\ Parsed(Prep).error \in BOOLEAN
      /\ Parsed(Prep).error => bench' = "failed"
      /\ ~Parsed(Prep).error /\ position'[1] = ClientCount => bench' = "run"
      /\ ~Parsed(Prep).error /\ position'[1] # ClientCount => bench' = "prepare"
  BY <1>2 DEF Answers
<1>5. PrepareOK'
  BY <1>1, <1>2, <1>3, <1>4, Aside DEF PrepareOK
<1>6. ASSUME undisturbed, ~Parsed(Prep).error
      PROVE  Before(position) \cup {position} \subseteq store
  BY <1>1, <1>2, <1>6, Bench DEF StoreOK
<1>7. StoreOK'
  <2>1. Before(position)' = Before(position')
    BY DEF Before, Keys, Share, Worker
  <2>2. UNCHANGED <<store, undisturbed, mode>> /\ Keys' = Keys
    BY Aside
  <2> QED BY <1>1, <1>3, <1>4, <1>6, <2>1, <2>2 DEF StoreOK
<1> QED BY <1>2, <1>3, <1>4, <1>5, <1>7, Bench, PrepareFrame

\* The preparation fails.
LEMMA PrepFailsOK ==
  ASSUME IInv, PrepFails
  PROVE  IInv'
<1> USE DEF PrepFails
<1>1. StreamsOK' /\ \A m \in Link : Fades(m)
  BY Bench, NoneMoves
<1>2. PrepareOK' /\ StoreOK'
  BY DEF PrepareOK, StoreOK
<1> QED BY <1>1, <1>2, Bench, PrepareFrame

\* A step of worker w: the others and the preparation stay.
LEMMA WorkerFrame ==
  ASSUME IInv, NEW w \in Worker, StreamsOK', \A m \in Link : m # w => Fades(m), BenchOnly,
         UNCHANGED <<bench, position, joined, aggregate>>, bench = "run",
         NEW stage \in {"connect", "ready", "wait", "done", "failed"},
         worker' = [worker EXCEPT ![w] = stage],
         NEW n \in 0 .. Share(w), completed' = [completed EXCEPT ![w] = n],
         WorkerOK(w)', StoreOK',
         request'[w].op = "get" /\ undisturbed => request'[w].key \in store
  PROVE  IInv'
<1>1. Fades(Cli) /\ Fades(Shell) /\ Fades(Monitor) /\ Fades(Prep)
      /\ \A v \in Worker : v # w => Fades(v)
  BY Links
<1>2. UNCHANGED <<mode, answered, store, undisturbed>>
  BY Aside
<1>3. BenchOK'
  <2>1. ASSUME NEW v \in Worker PROVE WorkerOK(v)'
    <3>1. CASE v = w
      BY <3>1
    <3>2. CASE v # w
      <4>1. worker'[v] = worker[v] /\ completed'[v] = completed[v]
        BY <3>2, Bench
      <4> QED BY <1>1, <1>2, <3>2, <4>1, Bench, WorkerKept DEF BenchOK
    <3> QED BY <3>1, <3>2
  <2>2. SumOK'
    BY Bench DEF BenchOK, SumOK
  <2> QED BY <2>1, <2>2 DEF BenchOK
<1>4. PrepareOK'
  BY <1>1, <1>2, Bench, PrepareKept
<1>5. GetsHit'
  <2>1. ASSUME NEW v \in Worker, v # w, request'[v].op = "get", undisturbed
        PROVE  request'[v].key \in store
    <3>1. request'[v] \in {request[v], NoRequest}
      BY <1>1, <2>1 DEF Fades
    <3> QED BY <2>1, <3>1, Bench, RequestFacts DEF GetsHit
  <2> QED BY <1>2, <2>1 DEF GetsHit
<1>6. /\ worker' \in [Worker -> {"connect", "ready", "wait", "done", "failed"}]
      /\ completed' \in [Worker -> Nat]
      /\ \A v \in Worker : completed'[v] \in 0 .. Share(v)
  <2>1. n \in Nat
    BY Shares
  <2> QED BY <2>1, Bench
<1> QED BY <1>1, <1>3, <1>4, <1>5, <1>6, Bench, BenchFrame

\* What is stored for the workers, when one of them moves and has no answer
\* under way then.
LEMMA WorkerStoreKept ==
  ASSUME IInv, NEW w \in Worker, StreamsOK', \A m \in Link : m # w => Fades(m), BenchOnly,
         UNCHANGED <<bench, position>>, bench = "run",
         NEW stage \in {"connect", "ready", "wait", "done", "failed"},
         worker' = [worker EXCEPT ![w] = stage],
         NEW n \in Nat, completed' = [completed EXCEPT ![w] = n],
         stage = "wait" => Count(w)' = 0,
         undisturbed /\ mode = "mixed" =>
           \A s \in 0 .. n - 1 : s % 2 = 0 => <<w, s>> \in store
  PROVE  StoreOK'
<1>1. UNCHANGED <<mode, store, undisturbed>> /\ Keys' = Keys
  BY Aside
<1>2. ASSUME undisturbed, mode = "mixed", NEW v \in Worker
      PROVE  /\ \A s \in 0 .. completed'[v] - 1 : s % 2 = 0 => <<v, s>> \in store
             /\ worker'[v] = "wait" /\ Count(v)' > 0 /\ ~FirstPiece(v)'.error /\ completed'[v] % 2 = 0 =>
                  <<v, completed'[v]>> \in store
  <2>1. CASE v = w
    BY <1>2, <2>1, Bench
  <2>2. CASE v # w
    <3>1. worker'[v] = worker[v] /\ completed'[v] = completed[v]
      BY <2>2, Bench
    <3>2. Count(v)' > 0 => Count(v) > 0 /\ FirstPiece(v)' = FirstPiece(v)
      BY <2>2, Bench, Links, FadesFacts
    <3> QED BY <1>2, <3>1, <3>2, Bench DEF StoreOK
  <2> QED BY <2>1, <2>2
<1>3. undisturbed /\ mode = "get" => Keys \subseteq store
  BY Bench DEF StoreOK
<1> QED BY <1>1, <1>2, <1>3 DEF StoreOK

\* What is known of a worker that is not through.
LEMMA Working ==
  ASSUME IInv, bench = "run", NEW w \in Worker, worker[w] \in {"connect", "ready", "wait"}
  PROVE  /\ WorkerOK(w) /\ w \in Link /\ w \notin joined
         /\ completed[w] \in Nat /\ completed[w] < Share(w) /\ answered[w] \in Nat
         /\ completed[w] \in 0 .. Share(w) /\ Share(w) \in Nat
         /\ completed = [completed EXCEPT ![w] = completed[w]]
         /\ undisturbed /\ mode = "mixed" =>
              \A s \in 0 .. completed[w] - 1 : s % 2 = 0 => <<w, s>> \in store
<1>1. WorkerOK(w) /\ w \in Link /\ Share(w) \in Nat
  BY Bench, Links, Shares DEF BenchOK
<1>2. completed[w] \in Nat /\ answered[w] \in Nat /\ completed = [completed EXCEPT ![w] = completed[w]]
  BY Bench
<1>3. completed[w] < Share(w) /\ w \notin joined
  BY <1>1 DEF WorkerOK
<1>4. completed[w] \in 0 .. Share(w)
  BY <1>1, <1>2, <1>3
<1>5. undisturbed /\ mode = "mixed" =>
        \A s \in 0 .. completed[w] - 1 : s % 2 = 0 => <<w, s>> \in store
  BY Bench DEF StoreOK
<1> QED BY <1>1, <1>2, <1>3, <1>4, <1>5

\* run_worker connects: nothing is sent, nothing counted.
LEMMA WorkerConnectOK ==
  ASSUME IInv, NEW w \in Worker, WorkerConnect(w)
  PROVE  IInv'
<1> USE DEF WorkerConnect, At
<1>1. /\ StreamsOK' /\ \A m \in Link : m # w => Fades(m)
      /\ request'[w] = NoRequest /\ Count(w)' = 0
  BY Bench, Links, OpOpens
<1>2. completed' = [completed EXCEPT ![w] = completed[w]]
  BY Working
<1>3. StoreOK'
  BY <1>1, <1>2, Working, WorkerStoreKept
<1>4. WorkerOK(w)'
  <2>1. /\ completed[w] = 0 /\ answered[w] = 0 /\ completed[w] < Share(w) /\ w \notin joined
    BY Working DEF WorkerOK
  <2>2. worker'[w] = "ready" /\ completed'[w] = 0 /\ answered'[w] = 0
    BY <2>1, Bench, Aside
  <2> QED BY <1>1, <2>1, <2>2 DEF WorkerOK
<1> QED BY <1>1, <1>2, <1>3, <1>4, Working, RequestFacts, WorkerFrame

\* run_worker sends the command of its sequence, with no other under way.
LEMMA WorkerSendOK ==
  ASSUME IInv, NEW w \in Worker, WorkerSend(w)
  PROVE  IInv'
<1> USE DEF WorkerSend, At
<1> DEFINE r == CommandArgs(w, completed[w])
<1>1. /\ request[w] = NoRequest /\ Count(w) = 0 /\ answered[w] = completed[w]
      /\ completed[w] < Share(w) /\ w \notin joined /\ completed[w] \in Nat
  BY Working DEF WorkerOK
<1>2. r \in Request /\ r # NoRequest
  BY <1>1, Bench, Commands
<1>3. /\ StreamsOK' /\ \A m \in Link : m # w => Fades(m)
      /\ request'[w] \in {r, NoRequest} /\ Count(w)' = 0
  <2> HIDE DEF r
  <2>1. Sends(w, r)
    BY DEF r
  <2> QED BY <1>1, <1>2, <2>1, Bench, Links, OpSends
<1>4. completed' = [completed EXCEPT ![w] = completed[w]]
  BY Working
<1>5. StoreOK'
  BY <1>3, <1>4, Working, WorkerStoreKept
<1>6. CommandArgs(w, completed[w])' = r
  BY Aside DEF CommandArgs, Set, Get
<1>7. WorkerOK(w)'
  <2>1. worker'[w] = "wait" /\ completed'[w] = completed[w] /\ answered'[w] = answered[w]
        /\ joined' = joined
    BY Bench, Aside
  <2> HIDE DEF r
  <2> QED BY <1>1, <1>3, <1>6, <2>1 DEF WorkerOK
<1>8. request'[w].op = "get" /\ undisturbed => request'[w].key \in store
  <2>1. SUFFICES ASSUME request'[w].op = "get", undisturbed PROVE request'[w].key \in store
    OBVIOUS
  <2>2. request'[w] = r
    BY <1>3, <2>1, RequestFacts
  <2>3. \/ mode = "get" /\ r.key \in Keys
        \/ /\ mode = "mixed" /\ completed[w] >= 1 /\ (completed[w] - 1) % 2 = 0
           /\ r.key = <<w, completed[w] - 1>>
    BY <1>1, <2>1, <2>2, Bench, Commands
  <2> HIDE DEF r
  <2>4. CASE mode = "get" /\ r.key \in Keys
    BY <2>1, <2>2, <2>4, Bench DEF StoreOK
  <2>5. CASE /\ mode = "mixed" /\ completed[w] >= 1 /\ (completed[w] - 1) % 2 = 0
             /\ r.key = <<w, completed[w] - 1>>
    <3>1. completed[w] - 1 \in 0 .. completed[w] - 1
      BY <1>1, <2>5
    <3> QED BY <2>1, <2>2, <2>5, <3>1, Working
  <2> QED BY <2>3, <2>4, <2>5
<1> QED BY <1>3, <1>4, <1>5, <1>7, <1>8, Working, WorkerFrame

\* An answer counts, a refusal ends the worker.
LEMMA WorkerAnsweredOK ==
  ASSUME IInv, NEW w \in Worker, WorkerAnswered(w)
  PROVE  IInv'
<1> USE DEF At
<1>0. bench = "run" /\ worker[w] = "wait" /\ Takes(w) /\ BenchOnly
      /\ UNCHANGED <<bench, position, joined, aggregate>>
  BY DEF WorkerAnswered
<1>1. /\ StreamsOK' /\ \A m \in Link : m # w => Fades(m)
      /\ request'[w] = NoRequest /\ Count(w)' = 0
      /\ Count(w) = 2 /\ FirstPiece(w) = Parsed(w) /\ Parsed(w) \in Answers
  BY <1>0, Bench, Links, OpTakes
<1>2. /\ answered[w] = completed[w] + (IF Parsed(w).error THEN 0 ELSE 1)
      /\ completed[w] \in Nat /\ completed[w] < Share(w) /\ Share(w) \in Nat
      /\ w \notin joined
  BY <1>0, <1>1, Working DEF WorkerOK
<1>3. joined' = joined /\ answered' = answered
  BY <1>0, Aside
<1>4. request'[w].op = "get" /\ undisturbed => request'[w].key \in store
  BY <1>1, RequestFacts
<1>5. CASE Parsed(w).error
  <2>1. worker' = [worker EXCEPT ![w] = "failed"] /\ completed' = completed
    BY <1>5 DEF WorkerAnswered
  <2>2. completed' = [completed EXCEPT ![w] = completed[w]]
    BY <1>0, <2>1, Working
  <2>3. StoreOK'
    BY <1>0, <1>1, <2>1, <2>2, Working, WorkerStoreKept
  <2>4. worker'[w] = "failed"
    BY <2>1, Bench
  <2>5. WorkerOK(w)'
    BY <1>2, <1>3, <2>4 DEF WorkerOK
  <2> QED BY <1>0, <1>1, <1>4, <2>1, <2>2, <2>3, <2>5, Working, WorkerFrame
<1>6. CASE ~Parsed(w).error
  <2> DEFINE n == completed[w] + 1
             stage == IF n = Share(w) THEN "done" ELSE "ready"
  <2>1. completed' = [completed EXCEPT ![w] = n] /\ completed'[w] = n
    BY <1>6, Bench DEF WorkerAnswered
  <2>2. worker' = [worker EXCEPT ![w] = stage] /\ worker'[w] = stage
    BY <1>6, <2>1, Bench DEF WorkerAnswered
  <2>3. n \in 0 .. Share(w) /\ n \in Nat /\ (stage = "ready" => n < Share(w))
    BY <1>2
  <2>4. undisturbed /\ mode = "mixed" =>
          \A s \in 0 .. n - 1 : s % 2 = 0 => <<w, s>> \in store
    <3>1. SUFFICES ASSUME undisturbed, mode = "mixed", NEW s \in 0 .. n - 1, s % 2 = 0
                   PROVE  <<w, s>> \in store
      OBVIOUS
    <3>2. CASE s \in 0 .. completed[w] - 1
      BY <1>0, <3>1, <3>2, Working
    <3>3. CASE s \notin 0 .. completed[w] - 1
      <4>1. s = completed[w]
        BY <1>2, <3>3
      <4> QED BY <1>0, <1>1, <1>6, <3>1, <4>1, Bench DEF StoreOK
    <3> QED BY <3>2, <3>3
  <2>5. stage \in {"done", "ready"}
    OBVIOUS
  <2>6. WorkerOK(w)'
    <3>1. answered'[w] = n
      BY <1>2, <1>3, <1>6
    <3>2. stage = "done" => n = Share(w)
      OBVIOUS
    <3> HIDE DEF n, stage
    <3> QED BY <1>1, <1>2, <1>3, <2>1, <2>2, <2>3, <2>5, <3>1, <3>2 DEF WorkerOK
  <2> HIDE DEF n, stage
  <2>7. StoreOK'
    BY <1>0, <1>1, <2>1, <2>2, <2>3, <2>4, <2>5, WorkerStoreKept
  <2> QED BY <1>0, <1>1, <1>4, <2>1, <2>2, <2>3, <2>5, <2>6, <2>7, WorkerFrame
<1>7. Parsed(w).error \in BOOLEAN
  BY <1>1 DEF Answers
<1> QED BY <1>5, <1>6, <1>7

\* run_worker returns early: it keeps its count, and is never joined as done.
LEMMA WorkerFailsOK ==
  ASSUME IInv, NEW w \in Worker, WorkerFails(w)
  PROVE  IInv'
<1> USE DEF WorkerFails, At
<1>1. StreamsOK' /\ \A m \in Link : Fades(m)
  BY Bench, NoneMoves
<1>2. /\ bench = "run" /\ worker[w] \in {"connect", "ready", "wait"}
      /\ worker' = [worker EXCEPT ![w] = "failed"] /\ worker'[w] = "failed"
      /\ UNCHANGED <<bench, position, completed, joined, aggregate, request>>
  BY Bench DEF streams
<1>3. completed' = [completed EXCEPT ![w] = completed[w]]
  BY <1>2, Working
<1>4. StoreOK'
  BY <1>1, <1>2, <1>3, Working, WorkerStoreKept
<1>5. WorkerOK(w)'
  BY <1>2, Working DEF WorkerOK
<1>6. request'[w].op = "get" /\ undisturbed => request'[w].key \in store
  BY <1>2, Bench DEF GetsHit
<1> QED BY <1>1, <1>2, <1>3, <1>4, <1>5, <1>6, Working, WorkerFrame

\* Every set of workers is finite, and there is one.
LEMMA Workers ==
  /\ IsFiniteSet(Worker) /\ Cardinality(Worker) = ClientCount /\ ClientCount \in Nat /\ 0 \in Worker
  /\ \A J : J \subseteq Worker => IsFiniteSet(J) /\ Cardinality(J) \in Nat
<1>1. ClientCount \in Nat /\ ClientCount >= 1
  BY ClientsAssumption
<1>2. IsFiniteSet(0 .. ClientCount - 1) /\ Cardinality(0 .. ClientCount - 1) = ClientCount
  <2>1. /\ IsFiniteSet(0 .. ClientCount - 1)
        /\ Cardinality(0 .. ClientCount - 1) =
             IF 0 > ClientCount - 1 THEN 0 ELSE (ClientCount - 1) - 0 + 1
    BY <1>1, FS_Interval
  <2> QED BY <1>1, <2>1
<1>3. ASSUME NEW J, J \subseteq Worker PROVE IsFiniteSet(J) /\ Cardinality(J) \in Nat
  <2>1. IsFiniteSet(J)
    BY <1>2, <1>3, FS_Subset DEF Worker
  <2> QED BY <2>1, FS_CardinalityType
<1> QED BY <1>1, <1>2, <1>3 DEF Worker

\* What one more worker adds to the sum.
LEMMA JoinSum ==
  ASSUME NEW J, J \subseteq Worker, NEW w \in Worker, w \notin J
  PROVE  (Requests \div ClientCount) * Cardinality(J \cup {w}) + Cardinality((J \cup {w}) \cap Longer)
           = (Requests \div ClientCount) * Cardinality(J) + Cardinality(J \cap Longer) + Share(w)
<1>1. PICK q : q = Requests \div ClientCount
  OBVIOUS
<1>2. q \in Nat /\ Share(w) = q + (IF w \in Longer THEN 1 ELSE 0)
  BY <1>1, Division, Shares
<1>3. /\ IsFiniteSet(J) /\ Cardinality(J) \in Nat
      /\ IsFiniteSet(J \cap Longer) /\ Cardinality(J \cap Longer) \in Nat
  BY Workers
<1>4. Cardinality(J \cup {w}) = Cardinality(J) + 1
  BY <1>3, FS_AddElement
<1>5. Cardinality((J \cup {w}) \cap Longer) = Cardinality(J \cap Longer) + (IF w \in Longer THEN 1 ELSE 0)
  <2>1. CASE w \in Longer
    <3>1. (J \cup {w}) \cap Longer = (J \cap Longer) \cup {w} /\ w \notin J \cap Longer
      BY <2>1
    <3>2. Cardinality((J \cap Longer) \cup {w}) = Cardinality(J \cap Longer) + 1
      BY <1>3, <3>1, FS_AddElement
    <3> QED BY <2>1, <3>1, <3>2
  <2>2. CASE w \notin Longer
    <3>1. (J \cup {w}) \cap Longer = J \cap Longer
      BY <2>2
    <3> QED BY <1>3, <2>2, <3>1
  <2> QED BY <2>1, <2>2
<1>6. PICK n, m, k : n = Cardinality(J) /\ m = Cardinality(J \cap Longer)
                     /\ k = IF w \in Longer THEN 1 ELSE 0
  OBVIOUS
<1>7. n \in Nat /\ m \in Nat /\ k \in Nat
  BY <1>3, <1>6
<1>8. q * n \in Nat /\ q * (n + 1) = q * n + q
  BY <1>2, <1>7, OneMore
<1>9. q * (n + 1) + (m + k) = q * n + m + (q + k)
  BY <1>2, <1>7, <1>8
<1> QED BY <1>1, <1>2, <1>4, <1>5, <1>6, <1>9

\* join_next: one share more, or the end.
LEMMA JoinOK ==
  ASSUME IInv, NEW w \in Worker, Join(w)
  PROVE  IInv'
<1>0. /\ bench = "run" /\ w \notin joined /\ BenchOnly
      /\ UNCHANGED <<position, worker, completed>>
  BY DEF Join
<1>7. UNCHANGED <<mode, answered, store, undisturbed>> /\ Grows
  BY <1>0, Aside
<1>1. PICK links : links \subseteq Link /\ Drops(links)
  <2>1. {w} \subseteq Link /\ Worker \subseteq Link
    BY Links
  <2>2. Drops({w}) \/ Drops(Worker)
    BY DEF Join
  <2> QED BY <2>1, <2>2
<1>2. StreamsOK' /\ \A m \in Link : Fades(m)
  BY <1>1, Bench, OpDrops
<1>3. /\ Fades(Cli) /\ Fades(Shell) /\ Fades(Monitor) /\ Fades(Prep)
      /\ \A v \in Worker : Fades(v)
  BY <1>2, Links
<1>4. GetsHit'
  BY <1>7, <1>3, Bench, HitsKept DEF Fades
<1>5. CASE worker[w] = "done"
  <2>1. /\ joined' = joined \cup {w} /\ aggregate' = aggregate + completed[w]
        /\ bench' = IF joined' = Worker THEN "reported" ELSE "run"
    BY <1>5 DEF Join
  <2>2. \A v \in Worker : v # w => WorkerOK(v)'
    BY <1>0, <1>7, <1>2, <1>3, <2>1, Bench, WorkerKept DEF BenchOK
  <2>3. WorkerOK(w)'
    <3>1. request[w] = NoRequest /\ completed[w] = Share(w) /\ answered[w] = Share(w)
      BY <1>0, <1>5, Bench DEF BenchOK, WorkerOK
    <3>2. request'[w] = NoRequest
      BY <1>2, <1>3, <3>1, Bench, Links, FadesFacts
    <3> QED BY <1>0, <1>7, <1>5, <3>1, <3>2 DEF WorkerOK
  <2>4. SumOK'
    <3>1. aggregate = (Requests \div ClientCount) * Cardinality(joined) + Cardinality(joined \cap Longer)
      BY <1>0, Bench DEF BenchOK, SumOK
    <3>2. completed[w] = Share(w)
      BY <1>0, <1>5, Bench DEF BenchOK, WorkerOK
    <3>3. aggregate' = (Requests \div ClientCount) * Cardinality(joined \cup {w})
                         + Cardinality((joined \cup {w}) \cap Longer)
      BY <1>0, <2>1, <3>1, <3>2, Bench, JoinSum
    <3>4. bench' = "reported" <=> joined' = Worker
      BY <2>1
    <3> QED BY <2>1, <3>3, <3>4 DEF SumOK
  <2>5. BenchOK'
    BY <2>1, <2>2, <2>3, <2>4 DEF BenchOK
  <2>6. PrepareOK'
    BY <2>1 DEF PrepareOK
  <2>7. StoreOK'
    <3>1. \A v \in Worker : Count(v)' > 0 => Count(v) > 0 /\ FirstPiece(v)' = FirstPiece(v)
      BY <1>2, <1>3, Bench, Links, FadesFacts
    <3>2. Keys' = Keys
      OBVIOUS
    <3> QED BY <1>0, <1>7, <2>1, <3>1, <3>2, Bench DEF StoreOK
  <2>8. aggregate' \in Nat /\ joined' \subseteq Worker
    BY <2>1, Bench, Shares
  <2> QED BY <1>0, <1>2, <1>3, <1>4, <2>1, <2>5, <2>6, <2>7, <2>8, Bench, BenchFrame
<1>6. CASE worker[w] # "done"
  <2>1. bench' = "failed" /\ UNCHANGED <<joined, aggregate>>
    BY <1>6 DEF Join
  <2>2. BenchOK' /\ PrepareOK' /\ StoreOK'
    BY <2>1 DEF BenchOK, PrepareOK, StoreOK
  <2> QED BY <1>0, <1>2, <1>3, <1>4, <2>1, <2>2, Bench, BenchFrame
<1> QED BY <1>5, <1>6

-----------------------------------------------------------------------------
(***************************************************************************)
(* The server.                                                             *)
(***************************************************************************)

\* A step that brings nothing new on any stream.
LEMMA QuietFrame ==
  ASSUME IInv, StreamsOK', \A m \in Link : Fades(m), Grows, Later(Current, Current'), ServerTypes',
         UNCHANGED <<tool, mode, benchmark, answered, terminal, display>>
  PROVE  IInv'
<1>1. TypeOK /\ StreamsOK /\ MonitorOK /\ ShellOK
  BY DEF IInv
<1>2. Fades(Prep) /\ Fades(Cli) /\ Fades(Shell) /\ Fades(Monitor) /\ \A w \in Worker : Fades(w)
  BY Links
<1>3. BenchOK' /\ PrepareOK' /\ StoreOK' /\ GetsHit'
  BY <1>2, BenchmarkKept
<1>4. Current \in Sample /\ Current' \in Sample
  BY <1>1, Now DEF ServerTypes, Current, Sample
<1>5. MonitorOK'
  BY <1>1, <1>2, <1>4, MonitorKept
<1>6. ShellOK'
  BY <1>1, <1>2, ShellKept DEF terminal
<1>7. cli' = "connect" => link'[Cli] = "none"
  BY <1>1, <1>2, Links, FadesFacts DEF IInv, terminal
<1>8. TypeOK'
  BY <1>1, TypeParts, TypesKept
<1>9. typed' <= MaxTyped /\ completed' \in [Worker -> Nat]
  BY DEF IInv, benchmark, terminal
<1> QED BY <1>3, <1>5, <1>6, <1>7, <1>8, <1>9 DEF IInv

\* A read brings nothing new: what is under way comes closer.
LEMMA ReadSomeOK ==
  ASSUME IInv, NEW l \in Link, ReadSome(l)
  PROVE  IInv'
<1>1. StreamsOK /\ TypeOK
  BY DEF IInv
<1>2. StreamsOK' /\ \A m \in Link : Fades(m)
  BY <1>1, OpRead
<1>3. UNCHANGED <<tool, mode, server, benchmark, answered, terminal, display>>
  BY DEF ReadSome
<1> QED BY <1>1, <1>2, <1>3, ServerKept, TypeParts, TypesKept, QuietFrame

\* Commands of others count, and may take keys away.
LEMMA OthersExecuteOK ==
  ASSUME IInv, OthersExecute
  PROVE  IInv'
<1>1. StreamsOK' /\ \A m \in Link : Fades(m)
  BY NoneMoves DEF IInv, OthersExecute
<1>2. ServerTypes
  BY TypeParts DEF IInv
<1>3. /\ total' = total + 1 /\ executed' = executed + 1 /\ up' = up /\ life' = life
      /\ UNCHANGED <<tool, mode, benchmark, answered, terminal, display>>
  BY DEF OthersExecute
<1>4. PICK kept \in {store, {}} : store' = kept /\ undisturbed' = (undisturbed /\ kept = store)
  BY DEF OthersExecute
<1>5. ServerTypes'
  <2>1. undisturbed' \in BOOLEAN /\ store' \subseteq Keys
    BY <1>2, <1>4 DEF ServerTypes
  <2> QED BY <1>2, <1>3, <2>1 DEF ServerTypes
<1>6. Later(Current, Current')
  BY <1>2, <1>3 DEF ServerTypes, Later, Current
<1>7. Grows
  BY <1>4 DEF Grows
<1> QED BY <1>1, <1>3, <1>5, <1>6, <1>7, QuietFrame

\* The end of a server process: the count starts anew with the next one.
LEMMA StopOK ==
  ASSUME IInv, Stop
  PROVE  IInv'
<1>1. StreamsOK' /\ \A m \in Link : Fades(m)
  BY OpStop DEF IInv
<1>2. ServerTypes
  BY TypeParts DEF IInv
<1>3. /\ up' = FALSE /\ life' = life + 1 /\ total' = 0 /\ executed' = executed
      /\ UNCHANGED <<tool, mode, benchmark, answered, terminal, display>>
  BY DEF Stop
<1>4. PICK kept \in {store, {}} : store' = kept /\ undisturbed' = (undisturbed /\ kept = store)
  BY DEF Stop
<1>5. ServerTypes'
  <2>1. undisturbed' \in BOOLEAN /\ store' \subseteq Keys
    BY <1>2, <1>4 DEF ServerTypes
  <2>2. life' \in Nat /\ total' \in Nat /\ executed' \in Nat
    BY <1>2, <1>3 DEF ServerTypes
  <2>3. up' \in BOOLEAN
    BY <1>3
  <2> QED BY <2>1, <2>2, <2>3 DEF ServerTypes
<1>6. Later(Current, Current')
  BY <1>2, <1>3 DEF ServerTypes, Later, Current
<1>7. Grows
  BY <1>4 DEF Grows
<1> QED BY <1>1, <1>3, <1>5, <1>6, <1>7, QuietFrame

\* The server starts again, with the life that began when it ended.
LEMMA RestartOK ==
  ASSUME IInv, Restart
  PROVE  IInv'
<1> USE DEF Restart
<1>1. StreamsOK' /\ \A m \in Link : Fades(m)
  BY NoneMoves DEF IInv
<1>2. ServerTypes
  BY TypeParts DEF IInv
<1>3. ServerTypes' /\ Later(Current, Current') /\ Grows
  BY <1>2 DEF ServerTypes, Later, Current, Grows
<1> QED BY <1>1, <1>3, QuietFrame

\* A request of one of the tools is answered.
LEMMA Answering ==
  ASSUME IInv, NEW l \in Link, request[l] # NoRequest, NEW answer \in Answers,
         answer.to = request[l], request' = [request EXCEPT ![l] = NoRequest],
         Replies(l, answer), Grows, Later(Current, Current'), ServerTypes',
         UNCHANGED <<tool, mode, link, buffer, benchmark, terminal, display>>,
         answered' \in [Worker -> Nat],
         \A v \in Worker :
           answered'[v] = answered[v] + (IF v = l /\ ~answer.error THEN 1 ELSE 0),
         undisturbed' /\ ~answer.error /\ request[l].op = "set" => request[l].key \in store',
         l = Monitor => answer.sample = Current'
  PROVE  IInv'
<1>1. /\ TypeOK /\ StreamsOK /\ MonitorOK /\ ShellOK /\ BenchOK /\ PrepareOK /\ StoreOK /\ GetsHit
      /\ completed \in [Worker -> Nat] /\ typed <= MaxTyped
  BY DEF IInv
<1>12. /\ StreamsOK' /\ \A m \in Link : m # l => Fades(m)
       /\ request'[l] = NoRequest /\ link' = link /\ Count(l) = 0
       /\ Count(l)' = (IF link[l] = "open" THEN 2 ELSE 0)
       /\ link[l] = "open" => FirstPiece(l)' = answer
  <2>1. UNCHANGED <<link, buffer>> /\ StreamsOK
    BY <1>1
  <2> QED BY <2>1, OpReplies
<1>2. /\ StreamsOK' /\ \A m \in Link : m # l => Fades(m)
      /\ request'[l] = NoRequest /\ link' = link /\ Count(l) = 0
  BY <1>12
<1>11. Count(l)' \in {0, 2} /\ (Count(l)' > 0 => FirstPiece(l)' = answer /\ link[l] = "open")
  BY <1>12
<1>3. UNCHANGED <<bench, position, worker, completed, joined, aggregate, cli, shell, typed, history,
                  monitor, previous, qps, sampled, since>>
  BY DEF benchmark, terminal, display
<1>4. GetsHit'
  <2>1. \A w \in Worker : request'[w] \in {request[w], NoRequest}
    BY <1>1, Links DEF StreamsOK
  <2> QED BY <1>1, <2>1, HitsKept
<1>5. BenchOK'
  <2>1. ASSUME NEW w \in Worker, WorkerOK(w), w # l PROVE WorkerOK(w)'
    <3>1. answered'[w] = answered[w]
      BY <1>1, <2>1 DEF TypeOK
    <3>2. Fades(w)
      BY <1>2, <2>1, Links
    <3> QED BY <1>1, <1>2, <1>3, <2>1, <3>1, <3>2, WorkerKept
  <2>2. ASSUME l \in Worker, WorkerOK(l) PROVE WorkerOK(l)'
    <3>1. worker[l] \in {"wait", "failed"}
      BY <1>1, <2>2 DEF WorkerOK, TypeOK
    <3>2. CASE worker[l] = "failed"
      BY <1>3, <2>2, <3>2 DEF WorkerOK
    <3>3. CASE worker[l] = "wait"
      <4>1. answered[l] = completed[l] /\ completed[l] < Share(l) /\ l \notin joined
        BY <1>2, <2>2, <3>3 DEF WorkerOK
      <4>2. answered'[l] = completed[l] + (IF answer.error THEN 0 ELSE 1)
        BY <1>1, <2>2, <4>1 DEF Answers, TypeOK
      <4> QED BY <1>2, <1>11, <1>3, <3>3, <4>1, <4>2 DEF WorkerOK
    <3> QED BY <3>1, <3>2, <3>3
  <2>3. \A w \in Worker : WorkerOK(w) => WorkerOK(w)'
    BY <2>1, <2>2
  <2>4. SumOK => SumOK'
    BY <1>3 DEF SumOK
  <2> QED BY <1>1, <1>3, <2>3, <2>4 DEF BenchOK
<1>6. PrepareOK'
  <2>1. CASE l = Prep
    <3>1. bench # "prepare"
      BY <1>1, <2>1 DEF PrepareOK
    <3> QED BY <1>1, <1>2, <1>3, <2>1, <3>1 DEF PrepareOK
  <2>2. CASE l # Prep
    BY <1>1, <1>2, <1>3, <2>2, Links, PrepareKept
  <2> QED BY <2>1, <2>2
<1>7. StoreOK'
  <2>1. SUFFICES ASSUME undisturbed'
                 PROVE  (/\ mode = "get" /\ bench \in {"prepare", "preparing"} => Before(position) \subseteq store
                         /\ bench = "preparing" /\ Count(Prep) > 0 /\ ~FirstPiece(Prep).error => position \in store
                         /\ mode = "get" /\ bench = "run" => Keys \subseteq store
                         /\ mode = "mixed" /\ bench = "run" =>
                              \A w \in Worker :
                                /\ \A s \in 0 .. completed[w] - 1 : s % 2 = 0 => <<w, s>> \in store
                                /\ worker[w] = "wait" /\ Count(w) > 0 /\ ~FirstPiece(w).error /\ completed[w] % 2 = 0 =>
                                     <<w, completed[w]>> \in store)'
    BY DEF StoreOK
  <2>2. undisturbed /\ store \subseteq store' /\ Keys' = Keys /\ Before(position)' = Before(position)
    BY <1>3, <2>1 DEF Grows, Before, Keys, Share, Worker
  <2>3. ASSUME bench = "preparing", Count(Prep)' > 0, ~FirstPiece(Prep)'.error
        PROVE  position \in store'
    <3>1. CASE l = Prep
      <4>1. request[Prep] = Set(position[1], position[2]) /\ position \in Keys
        BY <1>1, <2>3, <3>1 DEF PrepareOK
      <4>2. request[l].op = "set" /\ request[l].key = position
        BY <3>1, <4>1, RequestFacts
      <4>3. FirstPiece(l)' = answer
        BY <1>11, <2>3, <3>1
      <4> QED BY <2>1, <2>3, <3>1, <4>2, <4>3
    <3>2. CASE l # Prep
      <4>1. Count(Prep) > 0 /\ FirstPiece(Prep)' = FirstPiece(Prep)
        BY <1>1, <1>2, <2>3, <3>2, Links, FadesFacts
      <4> QED BY <1>1, <2>2, <2>3, <4>1 DEF StoreOK
    <3> QED BY <3>1, <3>2
  <2>4. ASSUME mode = "mixed", bench = "run", NEW w \in Worker, worker[w] = "wait", Count(w)' > 0,
               ~FirstPiece(w)'.error, completed[w] % 2 = 0
        PROVE  <<w, completed[w]>> \in store'
    <3>1. CASE l = w
      <4>1. WorkerOK(w) /\ completed[w] \in Nat /\ completed[w] < Share(w)
        BY <1>1, <2>4 DEF BenchOK, WorkerOK
      <4>2. request[w] = CommandArgs(w, completed[w])
        BY <2>4, <3>1, <4>1 DEF WorkerOK
      <4>3. request[w] = Set(w, completed[w])
        BY <2>4, <4>1, <4>2, Commands
      <4>4. request[l].op = "set" /\ request[l].key = <<w, completed[w]>>
        BY <3>1, <4>3 DEF Set
      <4>5. FirstPiece(l)' = answer
        BY <1>11, <2>4, <3>1
      <4> QED BY <2>1, <2>4, <3>1, <4>4, <4>5
    <3>2. CASE l # w
      <4>1. Count(w) > 0 /\ FirstPiece(w)' = FirstPiece(w)
        BY <1>1, <1>2, <2>4, <3>2, Links, FadesFacts
      <4> QED BY <1>1, <2>2, <2>4, <4>1 DEF StoreOK
    <3> QED BY <3>1, <3>2
  <2>5. mode' = "get" /\ bench' \in {"prepare", "preparing"} => Before(position)' \subseteq store'
    BY <1>1, <1>3, <2>2 DEF StoreOK
  <2>6. mode' = "get" /\ bench' = "run" => Keys \subseteq store'
    BY <1>1, <1>3, <2>2 DEF StoreOK
  <2>7. ASSUME mode = "mixed", bench = "run", NEW w \in Worker
        PROVE  \A s \in 0 .. completed[w] - 1 : s % 2 = 0 => <<w, s>> \in store'
    BY <1>1, <2>2, <2>7 DEF StoreOK
  <2> QED BY <1>3, <2>2, <2>3, <2>4, <2>5, <2>6, <2>7
<1>8. MonitorOK'
  <2>0. Current \in Sample /\ Current' \in Sample /\ Later(Current', Current')
    <3>1. Current \in Sample
      BY <1>1, Now
    <3>2. /\ total' \in Nat /\ executed' \in Nat /\ life' \in Nat
          /\ Current' = [total |-> total', executed |-> executed', life |-> life']
      BY DEF ServerTypes, Current
    <3>3. /\ Current'.total = total' /\ Current'.executed = executed' /\ Current'.life = life'
      BY <3>2
    <3>4. Current' \in Sample
      BY <3>2 DEF Sample
    <3>5. PICK t, e, n : t = total' /\ e = executed' /\ n = life'
      OBVIOUS
    <3>6. t \in Nat /\ e \in Nat /\ t - t = e - e /\ ~(n < n) /\ e <= e /\ n <= n
      BY <3>2, <3>5
    <3>7. Later(Current', Current')
      BY <3>3, <3>5, <3>6 DEF Later
    <3> QED BY <3>1, <3>4, <3>7
  <2>1. CASE l = Monitor
    <3>1. Later(sampled, Current')
      BY <1>1, <2>0, LaterThan DEF MonitorOK
    <3>2. Later(sampled, Current)'
      BY <1>3, <3>1 DEF Later
    <3>3. Count(Monitor)' > 0 => FirstPiece(Monitor)'.sample = Current'
      BY <1>11, <2>1
    <3>4. Count(Monitor)' > 0 =>
            Later(sampled, FirstPiece(Monitor).sample)' /\ Later(FirstPiece(Monitor).sample, Current)'
      BY <1>3, <2>0, <3>1, <3>3 DEF Later
    <3>5. QpsIsReal'
      BY <1>1, <1>3 DEF MonitorOK, QpsIsReal
    <3> QED BY <1>1, <1>2, <1>3, <2>1, <3>2, <3>4, <3>5 DEF MonitorOK
  <2>2. CASE l # Monitor
    BY <1>1, <1>2, <2>0, <2>2, Links, MonitorKept
  <2> QED BY <2>1, <2>2
<1>9. ShellOK'
  <2>1. CASE l = Shell
    <3>1. shell = "wait" /\ answer.to.line = typed
      BY <1>1, <2>1 DEF ShellOK
    <3>2. HistoryOK(history, typed)'
      BY <1>1, <1>3 DEF ShellOK, HistoryOK
    <3> QED BY <1>2, <1>11, <1>3, <2>1, <3>1, <3>2 DEF ShellOK
  <2>2. CASE l # Shell
    BY <1>1, <1>2, <1>3, <2>2, Links, ShellKept
  <2> QED BY <2>1, <2>2
<1>10. TypeOK'
  BY <1>1, <1>2, TypeParts, TypesKept
<1> QED BY <1>1, <1>2, <1>3, <1>4, <1>5, <1>6, <1>7, <1>8, <1>9, <1>10 DEF IInv

\* A request of a tool is executed, counted and answered.
LEMMA ExecuteOK ==
  ASSUME IInv, NEW l \in Link, Execute(l)
  PROVE  IInv'
<1> DEFINE r == request[l]
<1>1. /\ r # NoRequest /\ total' = total + 1 /\ executed' = executed + 1
      /\ store' = (IF r.op = "set" THEN store \cup {r.key} ELSE store)
      /\ request' = [request EXCEPT ![l] = NoRequest]
      /\ answered' = IF l \in Worker THEN [answered EXCEPT ![l] = @ + 1] ELSE answered
      /\ UNCHANGED <<tool, mode, up, life, undisturbed, link, buffer, benchmark, terminal, display>>
  BY DEF Execute
<1>2. PICK lines \in Nat : Replies(l, Answer(r, FALSE, lines))
  <2>1. PICK lines \in IF l = Shell THEN 0 .. 2 ELSE {1} : Replies(l, Answer(r, FALSE, lines))
    BY DEF Execute
  <2>2. lines \in Nat
    BY <2>1
  <2> QED BY <2>1, <2>2
<1>3. ServerTypes /\ MonitorOK /\ r \in Request /\ answered \in [Worker -> Nat]
  BY TypeParts DEF IInv, StreamsOK
<1>4. /\ up \in BOOLEAN /\ undisturbed \in BOOLEAN
      /\ life \in Nat /\ total' \in Nat /\ executed' \in Nat
  BY <1>1, <1>3 DEF ServerTypes
<1>5. ServerTypes'
  <2>1. store' \subseteq Keys
    <3>1. r.op = "set" => r.key \in Keys
      BY <1>3, RequestFacts
    <3> HIDE DEF r
    <3> QED BY <1>1, <1>3, <3>1 DEF ServerTypes
  <2>2. up' = up /\ undisturbed' = undisturbed /\ life' = life
    BY <1>1
  <2> QED BY <1>4, <2>1, <2>2 DEF ServerTypes
<1>6. Later(Current, Current')
  <2>1. UNCHANGED life
    BY <1>1
  <2>2. total \in Nat /\ executed \in Nat
    BY <1>3 DEF ServerTypes
  <2> QED BY <1>1, <1>4, <2>1, <2>2 DEF Later, Current
<1>7. Grows
  BY <1>1 DEF Grows
<1>8. PICK sample : sample = IF r = Info THEN [total |-> total', executed |-> executed', life |-> life]
                             ELSE NoSample
  OBVIOUS
<1>9. sample \in Sample /\ (r = Info => sample = Current')
  <2>1. [total |-> total', executed |-> executed', life |-> life] \in Sample
    BY <1>4 DEF Sample
  <2>2. NoSample \in Sample
    BY DEF NoSample, Sample
  <2>3. Current' = [total |-> total', executed |-> executed', life |-> life]
    BY <1>1 DEF Current
  <2> HIDE DEF r
  <2> QED BY <1>8, <2>1, <2>2, <2>3
<1>10. PICK answer : answer = [to |-> r, error |-> FALSE, lines |-> lines, sample |-> sample]
  OBVIOUS
<1>11. answer \in Answers /\ answer.to = r /\ answer.error = FALSE /\ answer.sample = sample
  BY <1>2, <1>3, <1>9, <1>10 DEF Answers
<1>12. Replies(l, answer)
  BY <1>2, <1>8, <1>10 DEF Answer
<1>13. answered' \in [Worker -> Nat] /\ \A v \in Worker :
         answered'[v] = answered[v] + (IF v = l /\ ~answer.error THEN 1 ELSE 0)
  BY <1>1, <1>3, <1>11
<1>14. l = Monitor => answer.sample = Current'
  BY <1>1, <1>3, <1>9, <1>11 DEF MonitorOK
<1>15. r.op = "set" => r.key \in store'
  BY <1>1
<1> QED BY <1>1, <1>5, <1>6, <1>7, <1>11, <1>12, <1>13, <1>14, <1>15, Answering

\* A write is refused: it is answered, and nothing else.
LEMMA RefuseWriteOK ==
  ASSUME IInv, NEW l \in Link, RefuseWrite(l)
  PROVE  IInv'
<1> DEFINE r == request[l]
<1>1. /\ r.op \in {"set", "write"} /\ Replies(l, Answer(r, TRUE, 1))
      /\ request' = [request EXCEPT ![l] = NoRequest]
      /\ UNCHANGED <<tool, mode, server, link, buffer, benchmark, answered, terminal, display>>
  BY DEF RefuseWrite, server
<1>2. ServerTypes /\ MonitorOK /\ r \in Request /\ answered \in [Worker -> Nat] /\ TypeOK
  BY TypeParts DEF IInv, StreamsOK
<1>3. r # NoRequest /\ r # Info
  BY <1>1, RequestFacts
<1>4. Grows /\ Later(Current, Current') /\ ServerTypes'
  BY <1>1, <1>2, ServerKept, TypesKept
<1>5. PICK answer : answer = [to |-> r, error |-> TRUE, lines |-> 1, sample |-> NoSample]
  OBVIOUS
<1>6. NoSample \in Sample
  BY DEF NoSample, Sample
<1>7. answer \in Answers /\ answer.to = r /\ answer.error = TRUE
  BY <1>2, <1>5, <1>6 DEF Answers
<1>8. Replies(l, answer)
  BY <1>1, <1>3, <1>5 DEF Answer
<1>9. answered' \in [Worker -> Nat] /\ \A v \in Worker :
        answered'[v] = answered[v] + (IF v = l /\ ~answer.error THEN 1 ELSE 0)
  BY <1>1, <1>2, <1>7
<1>10. l # Monitor
  BY <1>2, <1>3 DEF MonitorOK
<1> QED BY <1>1, <1>3, <1>4, <1>7, <1>8, <1>9, <1>10, Answering

-----------------------------------------------------------------------------
(***************************************************************************)
(* The invariant, and what follows from it.                                *)
(***************************************************************************)

\* Nothing is sent or counted at the start.
LEMMA InitOK ==
  ASSUME Init
  PROVE  IInv
<1> USE DEF Init
<1>1. \A l \in Link : Count(l) = 0
  BY DEF Count
<1>2. StreamsOK
  <2>1. << >> \in Seq(Piece)
    OBVIOUS
  <2>2. \A l \in Link : StreamOK(l)
    BY <1>1 DEF StreamOK
  <2> QED BY <2>1, <2>2, RequestFacts DEF StreamsOK
<1>3. \A w \in Worker : w \in Link /\ w # Shell /\ w # Prep
  BY Links
<1>4. \A w \in Worker : Share(w) \in Nat /\ Share(w) > 0
  BY Shares
<1>5. <<0, 0>> \in Keys
  BY <1>4, KeyFacts, Workers
<1>6. TypeOK
  <2>1. \A l \in Link : Len(arriving[l]) + Len(buffer[l]) <= 2
    OBVIOUS
  <2>2. \A w \in Worker : completed[w] \in 0 .. Share(w)
    BY <1>4
  <2>3. {life, total, executed, aggregate, typed, qps} \subseteq Nat
    OBVIOUS
  <2>4. Len(history) <= MaxHistory
    BY ClientsAssumption
  <2>5. answered \in [Worker -> Nat] /\ position \in Keys
    BY <1>5
  <2>6. previous \in Nat \cup {-1} /\ status \in {"Connecting", "Online", "Offline"}
        /\ monitor \in {"off", "tick", "connect", "wait", "quit"}
    OBVIOUS
  <2>7. /\ bench \in {"off", "prepare", "preparing", "run", "reported", "failed"}
        /\ cli \in {"off", "connect", "wait", "printed", "failed"}
        /\ shell \in {"off", "prompt", "wait", "closed"}
        /\ mode \in {"set", "get", "mixed"}
    OBVIOUS
  <2>8. /\ up \in BOOLEAN /\ undisturbed \in BOOLEAN /\ connected \in BOOLEAN
        /\ store \subseteq Keys /\ joined \subseteq Worker
        /\ worker \in [Worker -> {"connect", "ready", "wait", "done", "failed"}]
    OBVIOUS
  <2> QED BY <1>2, <2>1, <2>2, <2>3, <2>4, <2>5, <2>6, <2>7, <2>8 DEF TypeOK, StreamsOK
<1>7. BenchOK
  <2>1. ASSUME NEW w \in Worker PROVE WorkerOK(w)
    <3>1. /\ worker[w] = "connect" /\ link[w] = "none" /\ request[w] = NoRequest
          /\ completed[w] = 0 /\ answered[w] = 0 /\ w \notin joined /\ completed[w] < Share(w)
      BY <1>3, <1>4
    <3> QED BY <3>1 DEF WorkerOK
  <2>2. SumOK
    <3>1. Cardinality(joined) = 0 /\ Cardinality(joined \cap Longer) = 0 /\ joined \cap Longer = {}
      BY FS_EmptySet
    <3>2. PICK q : q = Requests \div ClientCount
      OBVIOUS
    <3>3. q * 0 + 0 = 0
      BY <3>2, Division
    <3>4. joined # Worker /\ bench # "reported"
      BY Workers
    <3> QED BY <3>1, <3>2, <3>3, <3>4 DEF SumOK
  <2> QED BY <2>1, <2>2 DEF BenchOK
<1>8. PrepareOK
  BY <1>1, <1>5, Links DEF PrepareOK
<1>9. StoreOK
  <2>1. Before(<<0, 0>>) = {}
    <3>1. ASSUME NEW k \in Keys PROVE ~(k[1] < 0 \/ (k[1] = 0 /\ k[2] < 0))
      BY KeyFacts, Links
    <3> QED BY <3>1 DEF Before
  <2>2. mode = "get" => bench # "run"
    OBVIOUS
  <2>3. bench # "preparing" /\ \A w \in Worker : worker[w] = "connect" /\ completed[w] = 0
    OBVIOUS
  <2>4. \A w \in Worker : 0 .. completed[w] - 1 = {}
    OBVIOUS
  <2> QED BY <2>1, <2>2, <2>3, <2>4 DEF StoreOK
<1>10. GetsHit
  BY <1>3, RequestFacts DEF GetsHit
<1>11. MonitorOK
  <2>1. Count(Monitor) = 0 /\ link[Monitor] = "none" /\ request[Monitor] = NoRequest
    BY <1>1, Links
  <2>2. NoSample \in Sample /\ Later(sampled, Current)
    BY DEF NoSample, Sample, Later, Current
  <2>3. since.restarted \in BOOLEAN /\ since.commands \in Nat /\ QpsIsReal
    BY DEF QpsIsReal
  <2> QED BY <2>1, <2>2, <2>3 DEF MonitorOK
<1>12. ShellOK
  <2>1. Count(Shell) = 0 /\ request[Shell] = NoRequest
    BY <1>1, Links
  <2>2. HistoryOK(<< >>, 0)
    BY DEF HistoryOK
  <2> QED BY <2>1, <2>2 DEF ShellOK
<1>13. typed <= MaxTyped /\ completed \in [Worker -> Nat]
  BY ClientsAssumption
<1>14. cli = "connect" => link[Cli] = "none"
  BY Links
<1> QED BY <1>2, <1>6, <1>7, <1>8, <1>9, <1>10, <1>11, <1>12, <1>13, <1>14 DEF IInv

\* A step that changes nothing.
LEMMA StutterOK ==
  ASSUME IInv, UNCHANGED vars
  PROVE  IInv'
<1>1. UNCHANGED <<tool, mode, server, streams, benchmark, answered, terminal, display>>
  BY DEF vars
<1>2. StreamsOK' /\ \A m \in Link : Fades(m)
  BY <1>1, NoneMoves DEF IInv
<1>3. TypeOK
  BY DEF IInv
<1> QED BY <1>1, <1>2, <1>3, ServerKept, TypeParts, TypesKept, QuietFrame

\* Every step of a tool, of the server or of others preserves the invariant.
LEMMA NextOK ==
  ASSUME IInv, [Next]_vars
  PROVE  IInv'
<1>1. ASSUME NEW l \in Link, Execute(l) \/ RefuseWrite(l) PROVE IInv'
  BY <1>1, ExecuteOK, RefuseWriteOK
<1>2. ASSUME NEW l \in Link, ReadSome(l) PROVE IInv'
  BY <1>2, ReadSomeOK
<1>3. ASSUME OthersExecute \/ Stop \/ Restart PROVE IInv'
  BY <1>3, OthersExecuteOK, StopOK, RestartOK
<1>4. ASSUME BenchStep PROVE IInv'
  <2>1. ASSUME NEW w \in Worker, WorkerStep(w) PROVE IInv'
    BY <2>1, WorkerConnectOK, WorkerSendOK, WorkerAnsweredOK, WorkerFailsOK, JoinOK DEF WorkerStep
  <2> QED BY <1>4, <2>1, PrepConnectOK, PrepSendOK, PrepAnsweredOK, PrepFailsOK DEF BenchStep
<1>5. ASSUME CliStep PROVE IInv'
  BY <1>5, CliSendOK, CliAnsweredOK, CliFailsOK DEF CliStep
<1>6. ASSUME ShellStep PROVE IInv'
  BY <1>6, ShellSendOK, ShellLocalOK, ShellAnsweredOK, ShellFailsOK, ShellQuitOK DEF ShellStep
<1>7. ASSUME MonitorStep \/ MonitorQuit PROVE IInv'
  BY <1>2, <1>7, Links, MonitorTickOK, MonitorAskOK, MonitorAnsweredOK, MonitorFailsOK, MonitorQuitOK
     DEF MonitorStep
<1> QED BY <1>1, <1>2, <1>3, <1>4, <1>5, <1>6, <1>7, StutterOK DEF Next

\* The streams, what each tool knows of its own, and the server's numbers.
THEOREM Invariance == SafeSpec => []IInv
<1>1. Init => IInv
  BY InitOK
<1>2. IInv /\ [Next]_vars => IInv'
  BY NextOK
<1> QED BY <1>1, <1>2, PTL DEF SafeSpec

\* The variables of the tools, the server and the streams keep their types.
THEOREM TypeCorrect == SafeSpec => []TypeOK
<1>1. IInv => TypeOK
  BY DEF IInv
<1> QED BY <1>1, Invariance, PTL

\* A benchmark that nobody disturbs measures hits.
THEOREM AllGetsHit == SafeSpec => []GetsHit
<1>1. IInv => GetsHit
  BY DEF IInv
<1> QED BY <1>1, Invariance, PTL

\* The numerator of the QPS are commands that were executed.
THEOREM MonitorIsHonest == SafeSpec => []QpsIsReal
<1>1. IInv => QpsIsReal
  BY DEF IInv, MonitorOK
<1> QED BY <1>1, Invariance, PTL

\* The shell shows an answer below the line it belongs to.
THEOREM LinesAnswered == SafeSpec => []AnswersBelowTheirLine
<1>1. IInv => AnswersBelowTheirLine
  BY DEF IInv, ShellOK, HistoryOK, AnswersBelowTheirLine
<1> QED BY <1>1, Invariance, PTL

\* The workers with one request more: as many as the division leaves.
LEMMA LongerOnes == Cardinality(Worker \cap Longer) = Requests % ClientCount
<1>1. PICK r : r = Requests % ClientCount
  OBVIOUS
<1>2. r \in 0 .. ClientCount - 1 /\ ClientCount \in Nat
  BY <1>1, Division, Workers
<1>3. Worker \cap Longer = 0 .. r - 1
  BY <1>1, <1>2 DEF Worker, Longer
<1>4. Cardinality(0 .. r - 1) = r
  <2>1. Cardinality(0 .. r - 1) = IF 0 > r - 1 THEN 0 ELSE (r - 1) - 0 + 1
    BY <1>2, FS_Interval
  <2> QED BY <1>2, <2>1
<1> QED BY <1>1, <1>3, <1>4

\* A benchmark that reports has had every request executed and answered once.
THEOREM ReportsAreComplete == SafeSpec => []ReportIsComplete
<1>1. IInv => ReportIsComplete
  <2>1. SUFFICES ASSUME IInv, bench = "reported"
                 PROVE  aggregate = Requests /\ \A w \in Worker : answered[w] = Share(w)
    BY DEF ReportIsComplete
  <2>2. joined = Worker
    BY <2>1, Bench DEF BenchOK, SumOK
  <2>3. ASSUME NEW w \in Worker PROVE answered[w] = Share(w)
    <3>1. WorkerOK(w) /\ w \in joined /\ worker[w] \in {"connect", "ready", "wait", "done", "failed"}
      BY <2>1, <2>2, Bench DEF BenchOK
    <3> QED BY <3>1 DEF WorkerOK
  <2>4. aggregate = Requests
    <3>1. PICK q, r : q = Requests \div ClientCount /\ r = Requests % ClientCount
      OBVIOUS
    <3>2. aggregate = q * Cardinality(Worker) + Cardinality(Worker \cap Longer)
      BY <2>1, <2>2, <3>1, Bench DEF BenchOK, SumOK
    <3>3. aggregate = q * ClientCount + r
      BY <3>1, <3>2, Workers, LongerOnes
    <3> QED BY <3>1, <3>3, Division
  <2> QED BY <2>3, <2>4
<1> QED BY <1>1, Invariance, PTL
=============================================================================
