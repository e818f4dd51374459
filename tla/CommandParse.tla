---------------------------- MODULE CommandParse ----------------------------
(***************************************************************************)
(* From a frame to a command and back: Command::from_resp (command.rs),    *)
(* is_write_command (server.rs) and what the log writes for a command and  *)
(* replays (aof.rs), as operators on sequences of bytes.  One letter       *)
(* stands for the name of a command or of an option.                       *)
(***************************************************************************)
EXTENDS Resp

CONSTANT MaxU64    \* u64::MAX

Name == [PING |-> <<"P">>, SET |-> <<"S">>, GET |-> <<"G">>, DEL |-> <<"D">>,
         EXISTS |-> <<"X">>, KEYS |-> <<"K">>, EXPIRE |-> <<"R">>, EXPIREAT |-> <<"A">>,
         TTL |-> <<"T">>, FLUSHDB |-> <<"F">>, INFO |-> <<"I">>]
EX == <<"E">>
PX == <<"M">>
PXAT == <<"U">>

ASSUME CommandParseAssumption ==
  /\ MaxU64 \in Nat
  /\ {Name[op] : op \in DOMAIN Name} \cup {EX, PX, PXAT} \subseteq Seq(Byte)

\* to_ascii_uppercase, for these letters.
Uppercase(name) ==
  LET capital == [p |-> "P", s |-> "S", g |-> "G", d |-> "D", x |-> "X", k |-> "K", r |-> "R",
                  a |-> "A", t |-> "T", f |-> "F", i |-> "I", e |-> "E", m |-> "M", u |-> "U"]
  IN  [i \in 1 .. Len(name) |-> IF name[i] \in DOMAIN capital THEN capital[name[i]] ELSE name[i]]

\* The words so far, with the one that was begun.
Ended(split) == IF split.word = << >> THEN split.words ELSE Append(split.words, split.word)

\* One byte more of the line.
SplitAt(split, byte) ==
  IF byte \in {" ", "CR", "LF"} THEN [words |-> Ended(split), word |-> << >>]
  ELSE [words |-> split.words, word |-> Append(split.word, byte)]

\* split_ascii_whitespace; split[n] is what the first n bytes give.
Words(line) ==
  LET split[n \in 0 .. Len(line)] ==
        IF n = 0 THEN [words |-> << >>, word |-> << >>] ELSE SplitAt(split[n - 1], line[n])
  IN  Ended(split[Len(line)])

\* resp_to_args: the arguments, none if the frame is no command.
Args(value) ==
  CASE value.type = "*" ->
         IF \A i \in 1 .. Len(value.items) : value.items[i].type \in {"+", "$"}
         THEN [i \in 1 .. Len(value.items) |->
                IF value.items[i].type = "+" THEN value.items[i].text ELSE value.items[i].bytes]
         ELSE << >>
    [] value.type = "+" -> Words(value.text)
    [] value.type = "$" -> IF IsUtf8(value.bytes) THEN Words(value.bytes) ELSE << >>
    [] OTHER -> << >>

\* parse_u64_arg: digits, a plus sign before them or not.
IsU64(text) == IsInteger(text) /\ Head(text) # "-" /\ ToInteger(text) <= MaxU64

Failed == [op |-> "error"]
NoDuration == -1

\* parse_set, for the arguments after the name; durations in milliseconds.
ParseSet(args) ==
  LET key == args[1]
      value == args[2]
      option == Uppercase(args[3])
      amount == ToInteger(args[4])
      set(duration) == [op |-> "SET", key |-> key, value |-> value, expire |-> duration]
      timed == Len(args) = 4 /\ IsUtf8(key) /\ IsUtf8(args[3]) /\ IsU64(args[4])
  IN  CASE Len(args) = 2 /\ IsUtf8(key) -> set(NoDuration)
        [] timed /\ option = EX   -> set(1000 * amount)
        [] timed /\ option = PX   -> set(amount)
        [] timed /\ option = PXAT -> [op |-> "SETPXAT", key |-> key, value |-> value, timestamp |-> amount]
        [] OTHER -> Failed

\* parse_ping ... parse_info: the command a name and the arguments after it make.
Parse(name, args) ==
  LET one == Len(args) = 1 /\ IsUtf8(args[1])
      amount == Len(args) = 2 /\ IsUtf8(args[1]) /\ IsU64(args[2])
      plain == {op \in {"PING", "FLUSHDB", "INFO"} : Name[op] = name}
      keyed == {op \in {"GET", "EXISTS", "TTL"} : Name[op] = name}
  IN  CASE plain # {} -> IF args = << >> THEN [op |-> CHOOSE op \in plain : TRUE] ELSE Failed
        [] keyed # {} -> IF one THEN [op |-> CHOOSE op \in keyed : TRUE, key |-> args[1]] ELSE Failed
        [] name = Name.SET -> ParseSet(args)
        [] name = Name.DEL ->
             IF args # << >> /\ \A i \in 1 .. Len(args) : IsUtf8(args[i])
               THEN [op |-> "DEL", keys |-> args] ELSE Failed
        [] name = Name.KEYS -> IF args \in {<< >>, << <<"*">> >>} THEN [op |-> "KEYS"] ELSE Failed
        [] name = Name.EXPIRE ->
             IF amount THEN [op |-> "EXPIRE", key |-> args[1], seconds |-> ToInteger(args[2])] ELSE Failed
        [] name = Name.EXPIREAT ->
             IF amount THEN [op |-> "EXPIREAT", key |-> args[1], timestamp |-> ToInteger(args[2])] ELSE Failed
        [] OTHER -> [op |-> "UNKNOWN"]

\* Command::from_resp.
FromResp(value) ==
  LET args == Args(value)
  IN  IF args = << >> \/ ~IsUtf8(Head(args)) THEN Failed
      ELSE Parse(Uppercase(Head(args)), Tail(args))

\* encode_command, encode_args.
Request(args) == Encode(Array([i \in 1 .. Len(args) |-> BulkString(args[i])]))

-----------------------------------------------------------------------------
\* Mutant: written before EXPIREAT existed.
IsWriteButExpireAt(cmd) == cmd.op \in {"SET", "SETPXAT", "DEL", "EXPIRE", "FLUSHDB"}

\* is_write_command.
IsWrite(cmd) == cmd.op \in {"SET", "SETPXAT", "DEL", "EXPIRE", "EXPIREAT", "FLUSHDB"}

\* expire_at_ms_from_now, which stops at u64::MAX.
DeadlineMs(duration, now) == IF now + duration <= MaxU64 THEN now + duration ELSE MaxU64

\* Mutant: the duration of EX and PX is logged as it came.
LogArgsRelative(cmd, now) ==
  CASE cmd.op = "SET" ->
         <<Name.SET, cmd.key, cmd.value>>
           \o (IF cmd.expire = NoDuration THEN << >> ELSE <<PX, Decimal[cmd.expire]>>)
    [] cmd.op = "SETPXAT"  -> <<Name.SET, cmd.key, cmd.value, PXAT, Decimal[cmd.timestamp]>>
    [] cmd.op = "DEL"      -> <<Name.DEL>> \o cmd.keys
    [] cmd.op = "EXPIRE"   -> <<Name.EXPIREAT, cmd.key, Decimal[DeadlineMs(1000 * cmd.seconds, now)]>>
    [] cmd.op = "EXPIREAT" -> <<Name.EXPIREAT, cmd.key, Decimal[cmd.timestamp]>>
    [] cmd.op = "FLUSHDB"  -> <<Name.FLUSHDB>>
    [] OTHER               -> << >>

\* command_to_resp_bytes, but for the encoding: durations become deadlines.
LogArgs(cmd, now) ==
  CASE cmd.op = "SET" ->
         <<Name.SET, cmd.key, cmd.value>>
           \o (IF cmd.expire = NoDuration THEN << >> ELSE <<PXAT, Decimal[DeadlineMs(cmd.expire, now)]>>)
    [] cmd.op = "SETPXAT"  -> <<Name.SET, cmd.key, cmd.value, PXAT, Decimal[cmd.timestamp]>>
    [] cmd.op = "DEL"      -> <<Name.DEL>> \o cmd.keys
    [] cmd.op = "EXPIRE"   -> <<Name.EXPIREAT, cmd.key, Decimal[DeadlineMs(1000 * cmd.seconds, now)]>>
    [] cmd.op = "EXPIREAT" -> <<Name.EXPIREAT, cmd.key, Decimal[cmd.timestamp]>>
    [] cmd.op = "FLUSHDB"  -> <<Name.FLUSHDB>>
    [] OTHER               -> << >>

\* replay_command has an arm for these.
Replays(cmd) == cmd.op \in {"SET", "SETPXAT", "DEL", "EXPIRE", "EXPIREAT", "FLUSHDB"}
=============================================================================
