----------------------------- MODULE Connection -----------------------------
(***************************************************************************)
(* One client connection: connection.rs cuts the stream of bytes into      *)
(* requests; handle_client (server.rs) turns each into a command, takes a  *)
(* write through the log, executes it and writes the answer, until the     *)
(* stream ends, fails, breaks the protocol or the server shuts down.       *)
(***************************************************************************)
EXTENDS CommandParse

CONSTANTS
  Requests,        \* what the client may send: sequences of bytes, one frame each
  Malformed,       \* and sequences that begin no frame
  StoredBytes,     \* what a GET may find, or KEYS list
  MaxFrameSize,    \* --max-frame-size
  ReadSize,        \* bound: bytes one read can return
  MaxRequests      \* bound: requests sent, the one cut short included

ASSUME ConnectionAssumption ==
  /\ MaxFrameSize \in Nat \ {0}
  /\ ReadSize \in Nat \ {0}
  /\ Requests \cup Malformed \cup StoredBytes \subseteq Seq(Byte)
  /\ {"E", "O", "P"} \subseteq Byte
  /\ \A request \in Requests :
       LET result == ParseResp(request) IN result.status = "ok" /\ result.next = Len(request) + 1
  /\ \A bytes \in Malformed : ParseResp(bytes) = Invalid

VARIABLES
  peer,        \* the client's side of the stream: "open", "closed" or "reset"
  wire,        \* bytes sent and not yet read
  buffer,      \* Connection.buffer
  pc,          \* "parse", "read", "log", "execute", "write" or "closed"
  frame,       \* the frame handle_client works on
  outcome,     \* why the connection was closed
  shutdown,    \* the value of the shutdown watch
  responses,   \* bytes written to the client
  sent,        \* ghost: the whole requests sent
  part,        \* ghost: the beginning of one more
  handled,     \* ghost: the frames cut off the stream
  replies      \* ghost: the values written

client == <<peer, sent, part>>
ghosts == <<handled, replies>>
vars == <<client, wire, buffer, pc, frame, outcome, shutdown, responses, ghosts>>

Init ==
  /\ peer = "open" /\ wire = << >> /\ buffer = << >>
  /\ pc = "parse" /\ frame = << >> /\ outcome = "none" /\ shutdown = FALSE
  /\ responses = << >>
  /\ sent = << >> /\ part = << >> /\ handled = << >> /\ replies = << >>

-----------------------------------------------------------------------------
(* Answers.                                                                *)

\* Error texts begin with "E"; only an unknown command's name makes one differ.
Failure == ErrorText(<<"E">>)

\* What the client may be answered: the error of Command::from_resp or of the log,
\* or what execute_command makes of the command.
Answers(value) ==
  LET cmd == FromResp(value)
  IN  CASE cmd.op = "error" -> {Failure}
        [] cmd.op = "PING" -> {SimpleString(<<"P">>)}
        [] cmd.op \in {"SET", "SETPXAT", "FLUSHDB"} -> {Failure, SimpleString(<<"O">>)}
        [] cmd.op \in {"DEL", "EXPIRE", "EXPIREAT"} -> {Failure, Integer(0), Integer(1)}
        [] cmd.op = "EXISTS" -> {Integer(0), Integer(1)}
        [] cmd.op = "TTL" -> {Integer(-2), Integer(10)}
        [] cmd.op = "GET" -> {Null} \cup {BulkString(v) : v \in StoredBytes}
        [] cmd.op = "INFO" -> {BulkString(v) : v \in StoredBytes}
        [] cmd.op = "KEYS" -> {Array(<< >>)} \cup {Array(<<BulkString(k)>>) : k \in StoredBytes}
        [] cmd.op = "UNKNOWN" -> {ErrorText(<<"E">> \o Head(Args(value)))}

-----------------------------------------------------------------------------
(* The client.                                                             *)

Send ==
  /\ peer = "open" /\ pc # "closed" /\ Len(sent) < MaxRequests
  /\ \E request \in Requests \cup Malformed : sent' = Append(sent, request) /\ wire' = wire \o request
  /\ UNCHANGED <<peer, part, buffer, pc, frame, outcome, shutdown, responses, ghosts>>

CloseStream ==
  /\ peer = "open" /\ peer' = "closed"
  /\ UNCHANGED <<sent, part, wire, buffer, pc, frame, outcome, shutdown, responses, ghosts>>

\* The client goes away in the middle of a request.
CutShort ==
  /\ peer = "open" /\ pc # "closed" /\ Len(sent) < MaxRequests /\ peer' = "closed"
  /\ \E request \in Requests : \E n \in 1 .. Len(request) - 1 :
       part' = SubSeq(request, 1, n) /\ wire' = wire \o part'
  /\ UNCHANGED <<sent, buffer, pc, frame, outcome, shutdown, responses, ghosts>>

\* The stream breaks; what was not read is gone.
Reset ==
  /\ peer # "reset" /\ pc # "closed" /\ peer' = "reset" /\ wire' = << >>
  /\ UNCHANGED <<sent, part, buffer, pc, frame, outcome, shutdown, responses, ghosts>>

\* shutdown_tx.send(true).
Shutdown ==
  /\ ~shutdown /\ shutdown' = TRUE
  /\ UNCHANGED <<client, wire, buffer, pc, frame, outcome, responses, ghosts>>

-----------------------------------------------------------------------------
(* The connection's task.                                                  *)

Close(why) == pc' = "closed" /\ outcome' = why

\* Mutant: one byte more.
TooLargeLate(size) == size > MaxFrameSize + 1

\* Mutant: one byte less.
TooLargeEarly(size) == size >= MaxFrameSize

TooLarge(size) == size > MaxFrameSize

\* Mutant: the buffer is emptied with the frame.
NothingAfter(consumed) == << >>

\* split_to: what it leaves in the buffer.
After(consumed) == SubSeq(buffer, consumed + 1, Len(buffer))

\* read_value returns the first frame of the buffer; a write goes through the log.
TakeFrame ==
  LET result == ParseResp(buffer)
      consumed == result.next - 1
  IN  /\ pc = "parse" /\ result.status = "ok" /\ ~TooLarge(consumed)
      /\ pc' = IF IsWrite(FromResp(result.value)) THEN "log" ELSE "execute"
      /\ frame' = SubSeq(buffer, 1, consumed)
      /\ buffer' = After(consumed)
      /\ handled' = Append(handled, frame')
      /\ UNCHANGED <<client, wire, outcome, shutdown, responses, replies>>

\* Mutant: every error counts as an incomplete frame.
AwaitAfterError ==
  /\ pc = "parse" /\ ParseResp(buffer).status # "ok" /\ ~TooLarge(Len(buffer))
  /\ pc' = "read"
  /\ UNCHANGED <<client, wire, buffer, frame, outcome, shutdown, responses, ghosts>>

\* The frame is not whole yet.
AwaitMore ==
  /\ pc = "parse" /\ ParseResp(buffer) = Incomplete /\ ~TooLarge(Len(buffer))
  /\ pc' = "read"
  /\ UNCHANGED <<client, wire, buffer, frame, outcome, shutdown, responses, ghosts>>

\* The buffer holds no frame, or one that is too large.
Refuse ==
  LET result == ParseResp(buffer)
      size == IF result.status = "ok" THEN result.next - 1 ELSE Len(buffer)
  IN  /\ pc = "parse" /\ (result = Invalid \/ TooLarge(size))
      /\ Close(IF result = Invalid THEN "invalid" ELSE "tooLarge")
      /\ UNCHANGED <<client, wire, buffer, frame, shutdown, responses, ghosts>>

\* read_buf returns what has arrived, any part of it.
ReadSome ==
  /\ pc = "read" /\ peer # "reset"
  /\ \E n \in 1 .. Len(wire) :
       /\ n <= ReadSize
       /\ buffer' = buffer \o SubSeq(wire, 1, n)
       /\ wire' = SubSeq(wire, n + 1, Len(wire))
       /\ IF TooLarge(Len(buffer')) THEN Close("tooLarge")
          ELSE pc' = "parse" /\ UNCHANGED outcome
  /\ UNCHANGED <<client, frame, shutdown, responses, ghosts>>

\* Mutant: every end of the stream is a clean one.
AlwaysClean == "eof"

\* Whether the end of the stream is a clean one.
EndOfStream == IF buffer = << >> THEN "eof" ELSE "unexpectedEof"

\* read_buf returns 0.
ReadEof ==
  /\ pc = "read" /\ peer = "closed" /\ wire = << >>
  /\ Close(EndOfStream)
  /\ UNCHANGED <<client, wire, buffer, frame, shutdown, responses, ghosts>>

\* read_buf or write_all fails.
IoError ==
  /\ pc \in {"read", "write"} /\ peer = "reset"
  /\ Close("io")
  /\ UNCHANGED <<client, wire, buffer, frame, shutdown, responses, ghosts>>

\* Mutant: the watch is looked at between requests only.
BetweenRequests == pc = "parse"

\* select! polls the watch, wherever read_value stands.
InSelect == pc \in {"parse", "read"}

\* select! sees the watch, and drops read_value where it waits.
Stop ==
  /\ InSelect /\ shutdown
  /\ Close("shutdown")
  /\ UNCHANGED <<client, wire, buffer, frame, shutdown, responses, ghosts>>

\* The barrier and the engine are granted, and append returns: the task of a write
\* has waited for other writers, whose clients need not read, and for a rewrite.
PassLog ==
  /\ pc = "log" /\ pc' = "execute"
  /\ UNCHANGED <<client, wire, buffer, frame, outcome, shutdown, responses, ghosts>>

\* execute_command returns (EveryCallCompletes), or there was nothing to execute.
Execute ==
  /\ pc = "execute" /\ pc' = "write"
  /\ UNCHANGED <<client, wire, buffer, frame, outcome, shutdown, responses, ghosts>>

\* write_value returns: the client, or the buffers on the way to it, took the answer.
Respond ==
  /\ pc = "write" /\ peer # "reset"
  /\ \E reply \in Answers(ParseResp(frame).value) :
       replies' = Append(replies, reply) /\ responses' = responses \o Encode(reply)
  /\ pc' = "parse" /\ frame' = << >>
  /\ UNCHANGED <<client, wire, buffer, outcome, shutdown, handled>>

-----------------------------------------------------------------------------
ClientStep == Send \/ CloseStream \/ CutShort \/ Reset
StreamStep == ReadSome \/ ReadEof \/ IoError \/ Stop
TaskStep == TakeFrame \/ AwaitMore \/ Refuse \/ PassLog \/ Execute \/ Respond \/ StreamStep
Next == ClientStep \/ Shutdown \/ TaskStep

\* The task leaves a stage.
Leaves(stage) == pc = stage /\ pc' \in {"parse", "read", "log", "execute", "write", "closed"} \ {stage}

\* The runtime polls a task that can go on.  Parsing never waits and executing ends:
\* their fairness says so without evaluating the parser.  Nothing is fair about the
\* log (PassLog) and the client that is to take its answer (Respond).
Spec ==
  /\ Init /\ [][Next]_vars
  /\ WF_pc(Leaves("parse")) /\ WF_pc(Leaves("execute"))
  /\ WF_vars(StreamStep)

-----------------------------------------------------------------------------
\* Every variable has its type, and a connection that goes on never holds
\* more than max_frame_size bytes (connection.rs, the checks of read_value).
TypeOK ==
  /\ peer \in {"open", "closed", "reset"}
  /\ pc \in {"parse", "read", "log", "execute", "write", "closed"}
  /\ outcome \in {"none", "eof", "unexpectedEof", "tooLarge", "invalid", "io", "shutdown"}
  /\ pc = "closed" <=> outcome # "none"
  /\ pc \in {"log", "execute", "write"} => frame = Last(handled)
  /\ shutdown \in BOOLEAN
  /\ pc # "closed" => Len(buffer) <= MaxFrameSize

\* However the stream was cut into reads, the frames taken off it are the
\* requests, in order, and no byte is lost or taken twice (split_to).
FramesInOrder ==
  /\ IsPrefix(handled, sent)
  /\ peer # "reset" => FlattenSeq(handled) \o buffer \o wire = FlattenSeq(sent) \o part

\* What comes next on the stream: a whole request or part of one.
Upcoming == IF Len(handled) < Len(sent) THEN sent[Len(handled) + 1] ELSE part

\* The task waits for bytes only while its next request has not arrived in
\* full: a request is never left in the buffer until the client sends another
\* (parse_resp returns Incomplete for proper prefixes only).
WaitsOnlyForMore ==
  pc = "read" => /\ IsPrefix(buffer, Upcoming)
                 /\ Len(handled) < Len(sent) => buffer # Upcoming

\* How many bytes were sent that are not in the frames taken so far.
Outstanding == Len(FlattenSeq(sent) \o part) - Len(FlattenSeq(handled))

\* A connection ends for the reason it reports: a clean end leaves no request
\* behind, an unclean one only part of a request, a protocol error is the next
\* request's own, and a client that never has more than max_frame_size bytes
\* unanswered is never told that its frame is too large (the errors of read_value).
EndsForCause ==
  CASE outcome = "eof"           -> handled = sent /\ part = << >>
    [] outcome = "unexpectedEof" -> handled = sent /\ part # << >>
    [] outcome = "invalid"       -> Len(handled) < Len(sent) /\ Upcoming \in Malformed
    [] outcome = "tooLarge"      -> Outstanding > MaxFrameSize
    [] OTHER                     -> TRUE

\* What README.md:141 says of --max-frame-size, that it bounds a single frame: when
\* "frame too large" ends a connection, one of the frames that were not taken is.
OnlyLargeFramesRefused ==
  outcome = "tooLarge" =>
    part # << >> \/ \E i \in Len(handled) + 1 .. Len(sent) : Len(sent[i]) > MaxFrameSize

\* The values a client reads from the bytes it got; decoded[n] are those in the
\* last n bytes.
Decoded(bytes) ==
  LET decoded[n \in 0 .. Len(bytes)] ==
        LET first == ParseResp(SubSeq(bytes, Len(bytes) - n + 1, Len(bytes)))
        IN  IF n = 0 THEN << >>
            ELSE IF first.status # "ok" THEN <<first>>
            ELSE <<first.value>> \o decoded[n - (first.next - 1)]
  IN  decoded[Len(bytes)]

\* The reply is one line, or announces its length.
Framed(reply) ==
  reply.type \in {"+", "-"} =>
    \A i \in 1 .. Len(reply.text) - 1 : SubSeq(reply.text, i, i + 1) # CRLF

\* The client reads exactly the replies, one per request taken, while none echoes
\* a command name with a line end in it (encode_resp, handle_client).
OneReplyPerRequest ==
  /\ Len(replies) = Len(handled) - (IF frame = << >> THEN 0 ELSE 1)
  /\ (\A i \in 1 .. Len(replies) : Framed(replies[i])) => Decoded(responses) = replies

\* The connection waits for others: a write for the log, an answer for the client.
HeldUp == pc = "log" \/ (pc = "write" /\ peer # "reset")

\* While the log lets it in and the client reads or goes away, every request is
\* answered in the end, or the connection is closed: nothing that has arrived is
\* forgotten in the buffer (the loops of handle_client and read_value).
EveryRequestAnswered == []<>~HeldUp => <>[](pc = "closed" \/ Len(replies) = Len(sent))

\* A shutdown ends the connection, though its client sends nothing more, or half a
\* request, and stays; but not in the middle of a write, which no select! covers:
\* on the same condition (select! in handle_client).
StopsOnShutdown == []<>~HeldUp => (shutdown ~> pc = "closed")
=============================================================================
