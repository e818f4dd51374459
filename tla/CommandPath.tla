----------------------------- MODULE CommandPath -----------------------------
(***************************************************************************)
(* The way of one command: typed into the shell of rustkv-cli, given to it *)
(* on its own command line, or sent by another client; understood by the   *)
(* server; written to the log before it is executed; and replayed from the *)
(* log by a later process.  Every step converts it, and the lists of       *)
(* commands the steps go by are kept in four files.                        *)
(***************************************************************************)
EXTENDS CommandParse

CONSTANTS
  Chars,        \* what can be typed
  MaxLine,      \* bound: characters of a line
  Subcommands,  \* what rustkv-cli may be asked for (ClientCommand)
  Requests,     \* what other clients may send: sequences of arguments
  Times         \* bound: when the log is written, in ms

\* The types of ClientCommand's fields: strings, u64, and one key at least for DEL.
Text == {text \in Seq(Byte) : IsUtf8(text)}

ClientCommand ==
  [op : {"PING", "KEYS", "FLUSHDB", "INFO"}]
    \cup [op : {"GET", "EXISTS", "TTL"}, key : Text]
    \cup [op : {"SET"}, key : Text, value : Text, unit : {"none", "ex", "px"}, amount : 0 .. MaxU64]
    \cup [op : {"DEL"}, keys : Seq(Text) \ {<< >>}]
    \cup [op : {"EXPIRE"}, key : Text, seconds : 0 .. MaxU64]

ASSUME CommandPathAssumption ==
  /\ Times \subseteq 0 .. MaxU64
  /\ {"\\", "\"", "'", " "} \subseteq Chars /\ Chars \subseteq Byte
  /\ Subcommands \subseteq ClientCommand
  /\ Requests \subseteq Seq(Seq(Byte))

VARIABLES
  input,      \* app.input
  stage,      \* how far the command has come
  asked,      \* the subcommand, if it came from rustkv-cli's command line
  request,    \* the bytes sent to the server
  cmd,        \* the Command they are parsed to
  written,    \* when it was written to the log
  log,        \* the bytes of its frame there
  replayed    \* what replay_command makes of them

vars == <<input, stage, asked, request, cmd, written, log, replayed>>

Nothing == [op |-> "none"]

Init ==
  /\ input = << >>
  /\ stage = "prompt"
  /\ asked = Nothing
  /\ request = << >>
  /\ cmd = Nothing
  /\ written = 0
  /\ log = << >>
  /\ replayed = Nothing

-----------------------------------------------------------------------------
(***************************************************************************)
(* The shell's line.                                                       *)
(***************************************************************************)
IsQuote(ch) == ch \in {"\"", "'"}

\* Mutant: nothing is escaped inside quotes.
RoleInQuotes(scan, ch) ==
  CASE scan.escaped                          -> "text"
    [] ~scan.escaped /\ scan.quote # "none" -> IF ch = scan.quote THEN "close" ELSE "text"
    [] ~scan.escaped /\ scan.quote = "none" ->
         CASE ch = "\\" -> "escape" [] IsQuote(ch) -> "open" [] ch = " " -> "blank" [] OTHER -> "text"

\* What a character is to split_command_line, by its flags so far.
Role(scan, ch) ==
  CASE scan.escaped                                        -> "text"
    [] ~scan.escaped /\ ch = "\\"                          -> "escape"
    [] ~scan.escaped /\ ch # "\\" /\ scan.quote # "none"   -> IF ch = scan.quote THEN "close" ELSE "text"
    [] ~scan.escaped /\ ch # "\\" /\ scan.quote = "none"   ->
         CASE IsQuote(ch) -> "open" [] ch = " " -> "blank" [] OTHER -> "text"

Emit(scan) == [scan EXCEPT !.tokens = Append(@, scan.current), !.current = << >>, !.active = FALSE]

\* The body of its loop.
ScanChar(scan, ch) ==
  LET role == Role(scan, ch)
      marked == [scan EXCEPT !.active = TRUE, !.escaped = role = "escape"]
  IN  CASE role = "text"   -> [marked EXCEPT !.current = Append(@, ch)]
        [] role = "escape" -> marked
        [] role = "open"   -> [marked EXCEPT !.quote = ch]
        [] role = "close"  -> [marked EXCEPT !.quote = "none"]
        [] role = "blank"  -> IF scan.active THEN Emit(scan) ELSE scan

Unread == [tokens |-> << >>, current |-> << >>, quote |-> "none", escaped |-> FALSE, active |-> FALSE]

\* The loop, gone on with from any of its states; scan[n] is after n characters.
ScanFrom(start, line) ==
  LET scan[n \in 0 .. Len(line)] == IF n = 0 THEN start ELSE ScanChar(scan[n - 1], line[n])
  IN  scan[Len(line)]

Scan(line) == ScanFrom(Unread, line)

OpenQuote == [error |-> "missing closing quote"]
Tokens(tokens) == [tokens |-> tokens]

\* split_command_line: a lone \ at the end stands for itself.
Split(line) ==
  LET end == Scan(line)
      last == IF end.escaped THEN [end EXCEPT !.current = Append(@, "\\")] ELSE end
  IN  IF end.quote # "none" THEN OpenQuote
      ELSE Tokens(IF last.active THEN Emit(last).tokens ELSE last.tokens)

\* Mutant: quotes at the ends go with the blanks.
TrimQuotes(line) ==
  LET text == {i \in 1 .. Len(line) : line[i] # " " /\ ~IsQuote(line[i])}
  IN  IF text = {} THEN << >>
      ELSE SubSeq(line, CHOOSE i \in text : \A j \in text : i <= j,
                        CHOOSE i \in text : \A j \in text : i >= j)

\* str::trim.
Trim(line) ==
  LET text == {i \in 1 .. Len(line) : line[i] # " "}
  IN  IF text = {} THEN << >>
      ELSE SubSeq(line, CHOOSE i \in text : \A j \in text : i <= j,
                        CHOOSE i \in text : \A j \in text : i >= j)

\* The letters that stand for the shell's own commands.
Quit == <<"Q">>
Local == {<<"H">>, <<"C">>}

Lower(token) == [i \in 1 .. Len(token) |->
                  CASE token[i] = "q" -> "Q" [] token[i] = "h" -> "H" [] token[i] = "c" -> "C"
                    [] OTHER -> token[i]]

Edits(line) ==
  /\ stage = "prompt"
  /\ input' = line
  /\ UNCHANGED <<stage, asked, request, cmd, written, log, replayed>>

TypeChar == Len(input) < MaxLine /\ \E ch \in Chars : Edits(Append(input, ch))
Backspace == input # << >> /\ Edits(Front(input))
ClearLine == input # << >> /\ Edits(<< >>)

Sends(args) ==
  /\ stage' = "sent"
  /\ request' = Request(args)

\* parse_shell_input, and the lines that submit_input does not give it.
ShellAction(line) ==
  LET split == Split(line)
      word == Lower(Head(split.tokens))
  IN  IF line = << >> \/ split = OpenQuote THEN "local"
      ELSE IF split.tokens = << >> \/ word \in Local THEN "local"
      ELSE IF word = Quit THEN "quit" ELSE "send"

\* submit_input.
Enter ==
  LET line == Trim(input)
      action == ShellAction(line)
  IN  /\ stage = "prompt"
      /\ input' = << >>
      /\ \/ action = "local" /\ UNCHANGED <<stage, request>>
         \/ action = "quit" /\ stage' = "closed" /\ UNCHANGED request
         \/ action = "send" /\ Sends(Split(line).tokens)
      /\ UNCHANGED <<asked, cmd, written, log, replayed>>

-----------------------------------------------------------------------------
(***************************************************************************)
(* The other ways to the server.                                           *)
(***************************************************************************)

\* Mutant: --ex goes out as PX.
IntoArgsPx(sub) ==
  <<Name[sub.op]>> \o
  CASE sub.op = "SET" ->
         <<sub.key, sub.value>>
           \o (IF sub.unit = "none" THEN << >> ELSE <<PX, Decimal[sub.amount]>>)
    [] sub.op \in {"GET", "EXISTS", "TTL"} -> <<sub.key>>
    [] sub.op = "DEL" -> sub.keys
    [] sub.op = "EXPIRE" -> <<sub.key, Decimal[sub.seconds]>>
    [] sub.op \in {"PING", "KEYS", "FLUSHDB", "INFO"} -> << >>

\* ClientCommand::into_args.
IntoArgs(sub) ==
  <<Name[sub.op]>> \o
  CASE sub.op = "SET" ->
         <<sub.key, sub.value>>
           \o (IF sub.unit = "none" THEN << >>
               ELSE <<IF sub.unit = "ex" THEN EX ELSE PX, Decimal[sub.amount]>>)
    [] sub.op \in {"GET", "EXISTS", "TTL"} -> <<sub.key>>
    [] sub.op = "DEL" -> sub.keys
    [] sub.op = "EXPIRE" -> <<sub.key, Decimal[sub.seconds]>>
    [] sub.op \in {"PING", "KEYS", "FLUSHDB", "INFO"} -> << >>

\* run_one_shot.
OneShot ==
  /\ stage = "prompt" /\ input = << >>
  /\ \E sub \in Subcommands : asked' = sub /\ Sends(IntoArgs(sub))
  /\ UNCHANGED <<input, cmd, written, log, replayed>>

OtherClient ==
  /\ stage = "prompt" /\ input = << >>
  /\ \E args \in Requests : Sends(args)
  /\ UNCHANGED <<input, asked, cmd, written, log, replayed>>

-----------------------------------------------------------------------------
(***************************************************************************)
(* The server.                                                             *)
(***************************************************************************)

\* parse_command; a write goes to the log first.
Receive ==
  /\ stage = "sent"
  /\ cmd' = FromResp(ParseResp(request).value)
  /\ stage' = CASE cmd' = Failed  -> "refused"
                [] IsWrite(cmd')  -> "append"
                [] OTHER          -> "execute"
  /\ UNCHANGED <<input, asked, request, written, log, replayed>>

\* AofEngine::append: a command that has no frame is not written, and no error.
AppendCommand ==
  /\ stage = "append"
  /\ \E now \in Times :
       LET args == LogArgs(cmd, now)
       IN  written' = now /\ log' = IF args = << >> THEN << >> ELSE Request(args)
  /\ stage' = "execute"
  /\ UNCHANGED <<input, asked, request, cmd, replayed>>

\* Of the commands execute_command knows, these change the store.
ChangesStore(command) == command.op \in {"SET", "SETPXAT", "DEL", "EXPIRE", "EXPIREAT", "FLUSHDB"}

Execute ==
  /\ stage = "execute"
  /\ stage' = "executed"
  /\ UNCHANGED <<input, asked, request, cmd, written, log, replayed>>

\* A new process loads the log: load_and_replay, replay_command.
Replay ==
  LET command == FromResp(ParseResp(log).value)
  IN  /\ stage = "executed" /\ log # << >>
      /\ replayed' = IF Replays(command) THEN command ELSE Nothing
      /\ stage' = "replayed"
      /\ UNCHANGED <<input, asked, request, cmd, written, log>>

-----------------------------------------------------------------------------
Next ==
  \/ TypeChar \/ Backspace \/ ClearLine \/ Enter
  \/ OneShot \/ OtherClient
  \/ Receive \/ AppendCommand \/ Execute \/ Replay

Spec == Init /\ [][Next]_vars

-----------------------------------------------------------------------------
(***************************************************************************)
(* Properties.                                                             *)
(***************************************************************************)
\* trim takes blanks off the line that are no part of an argument, or the blank
\* an escape at its end stands for: the escape is left alone then.
TrimIsHarmless == Scan(Trim(input)).escaped \/ Split(Trim(input)) = Split(input)

\* An argument, spelled out for the shell in quotes of one kind.
Quoted(arg, quote) ==
  <<quote>>
    \o FlattenSeq([i \in 1 .. Len(arg) |-> IF arg[i] \in {"\\", quote} THEN <<"\\", arg[i]>> ELSE <<arg[i]>>])
    \o <<quote>>

\* Whatever arguments can be sent, quoting sends them as well, whichever quotes
\* are used: empty ones, blanks, quotes and backslashes (split_command_line).
QuotingSendsTheSame ==
  Split(Trim(input)) = OpenQuote \/
  LET tokens == Split(Trim(input)).tokens
  IN  \A quote \in {"\"", "'"} :
        LET line == FlattenSeq([i \in 1 .. Len(tokens) |-> <<" ">> \o Quoted(tokens[i], quote) \o <<" ">>])
        IN  Split(Trim(line)) = Tokens(tokens)

\* What a subcommand of rustkv-cli means.
Meaning(sub) ==
  IF sub.op # "SET" THEN sub
  ELSE [op |-> "SET", key |-> sub.key, value |-> sub.value,
        expire |-> CASE sub.unit = "none" -> NoDuration
                     [] sub.unit = "ex"   -> 1000 * sub.amount
                     [] sub.unit = "px"   -> sub.amount]

\* The server understands rustkv-cli: it executes the subcommand that was
\* given, with its key, value and time (into_args against from_resp).
OneShotUnderstood ==
  asked # Nothing /\ stage \notin {"prompt", "sent"} => cmd = Meaning(asked)

\* What a command does, with its deadline instead of its duration.
Absolute(command, now) ==
  CASE command.op = "SET" /\ command.expire # NoDuration ->
         [op |-> "SETPXAT", key |-> command.key, value |-> command.value,
          timestamp |-> DeadlineMs(command.expire, now)]
    [] command.op = "EXPIRE" ->
         [op |-> "EXPIREAT", key |-> command.key, timestamp |-> DeadlineMs(1000 * command.seconds, now)]
    [] OTHER -> command

\* No command changes the store that is not in the log (is_write_command and
\* command_to_resp_bytes agree with execute_command).
ChangesAreLogged == stage = "executed" /\ ChangesStore(cmd) => log # << >>

\* A replay does what was executed, with the deadline counted from the time it
\* was logged, whatever bytes its key and value hold (command_to_resp_bytes,
\* parse_command and replay_command agree).
ReplayedAsExecuted == stage = "replayed" => replayed = Absolute(cmd, written)
=============================================================================
