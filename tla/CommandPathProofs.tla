--------------------------- MODULE CommandPathProofs ---------------------------
(***************************************************************************)
(* A command is understood as it was meant on each of its ways: from the   *)
(* shell's line, from rustkv-cli's own command line, through the log and   *)
(* back: for every key, value, number and time, every line that can be     *)
(* typed and every request a client can send.                              *)
(***************************************************************************)
EXTENDS CommandPath, RespProofs

-----------------------------------------------------------------------------
(***************************************************************************)
(* What arguments are understood as.                                       *)
(***************************************************************************)

\* Command::from_resp, once the arguments are out of the frame.
FromArgs(args) ==
  IF args = << >> \/ ~IsUtf8(Head(args)) THEN Failed
  ELSE Parse(Uppercase(Head(args)), Tail(args))

\* What a request is understood as depends on its arguments.
LEMMA RequestUnderstood ==
  ASSUME NEW args \in Seq(Bytes)
  PROVE  FromResp(ParseResp(Request(args)).value) = FromArgs(args) /\ Request(args) # << >>
<1>1. /\ ParseResp(Request(args)).status = "ok"
      /\ Args(ParseResp(Request(args)).value) = args
  BY ArgsSent
<1>2. Request(args) # << >>
  BY <1>1, NothingYet, Results
<1> QED BY <1>1, <1>2 DEF FromResp, FromArgs

\* A text in bytes.
LEMMA TextIs == Text = {b \in Bytes : IsUtf8(b)}
BY DEF Text, Bytes

\* What parse_command returns.
Commands ==
  [op : {"error", "UNKNOWN", "PING", "KEYS", "FLUSHDB", "INFO"}]
    \cup [op : {"GET", "EXISTS", "TTL"}, key : Text]
    \cup [op : {"SET"}, key : Text, value : Bytes, expire : Nat \cup {NoDuration}]
    \cup [op : {"SETPXAT"}, key : Text, value : Bytes, timestamp : 0 .. MaxU64]
    \cup [op : {"DEL"}, keys : Seq(Text) \ {<< >>}]
    \cup [op : {"EXPIRE"}, key : Text, seconds : 0 .. MaxU64]
    \cup [op : {"EXPIREAT"}, key : Text, timestamp : 0 .. MaxU64]

\* A number that was read is one.
LEMMA AmountRead ==
  ASSUME NEW t \in Bytes, IsU64(t)
  PROVE  ToInteger(t) \in 0 .. MaxU64
<1>1. IsInteger(t) /\ Head(t) # "-" /\ ToInteger(t) <= MaxU64
  BY DEF IsU64
<1>2. PICK u : u = Unsigned(t)
  OBVIOUS
<1>3. u \in Bytes
  <2>1. CASE t = << >>
    BY <1>2, <2>1 DEF Unsigned
  <2>2. CASE t # << >>
    <3>1. Tail(t) \in Bytes
      BY <2>2 DEF Bytes
    <3> QED BY <1>2, <3>1 DEF Unsigned
  <2> QED BY <2>1, <2>2
<1>4. DigitText(u)
  BY <1>1, <1>2, <1>3 DEF IsInteger, DigitText
<1>5. PICK size : IsSize(size, u)
  <2>1. Len(u) \in Nat /\ \A i \in 1 .. Len(u) : Digit(u[i]) \in Nat
    BY <1>4, DigitFacts DEF DigitText, Bytes
  <2> QED BY <2>1, SizeExists
<1>6. Amount(u) \in Nat
  BY <1>4, <1>5, AmountIs
<1>7. ToInteger(t) = Amount(u)
  BY <1>1, <1>2, ToIntegerIs
<1> QED BY <1>1, <1>6, <1>7, CommandParseAssumption

LEMMA SetTyped ==
  ASSUME NEW args \in Seq(Bytes)
  PROVE  ParseSet(args) \in Commands
<1>1. Failed \in Commands
  BY DEF Failed, Commands
<1>2. ASSUME Len(args) = 2, IsUtf8(args[1])
      PROVE  [op |-> "SET", key |-> args[1], value |-> args[2], expire |-> NoDuration] \in Commands
  <2>1. args[1] \in Bytes /\ args[2] \in Bytes
    BY <1>2, ElementOfSeq
  <2> QED BY <1>2, <2>1, TextIs DEF Commands
<1>3. ASSUME Len(args) = 4, IsUtf8(args[1]), IsU64(args[4])
      PROVE  /\ \A d \in Nat : [op |-> "SET", key |-> args[1], value |-> args[2], expire |-> d] \in Commands
             /\ [op |-> "SETPXAT", key |-> args[1], value |-> args[2], timestamp |-> ToInteger(args[4])] \in Commands
             /\ ToInteger(args[4]) \in Nat /\ 1000 * ToInteger(args[4]) \in Nat
  <2>0. 1 \in 1 .. Len(args) /\ 2 \in 1 .. Len(args) /\ 4 \in 1 .. Len(args)
    BY <1>3
  <2>1. args[1] \in Bytes /\ args[2] \in Bytes /\ args[4] \in Bytes
    BY <2>0, ElementOfSeq
  <2>2. ToInteger(args[4]) \in 0 .. MaxU64
    BY <1>3, <2>1, AmountRead
  <2> QED BY <1>3, <2>1, <2>2, TextIs DEF Commands
<1>4. CASE Len(args) = 2 /\ IsUtf8(args[1])
  BY <1>2, <1>4 DEF ParseSet
<1>5. CASE Len(args) = 4 /\ IsUtf8(args[1]) /\ IsUtf8(args[3]) /\ IsU64(args[4])
  BY <1>1, <1>3, <1>5 DEF ParseSet
<1>6. CASE ~(Len(args) = 2 /\ IsUtf8(args[1])) /\ ~(Len(args) = 4 /\ IsUtf8(args[1]) /\ IsUtf8(args[3]) /\ IsU64(args[4]))
  BY <1>1, <1>6 DEF ParseSet
<1> QED BY <1>4, <1>5, <1>6

\* The commands a name may mean, and what is asked of the arguments.
PlainNames(name) == {op \in {"PING", "FLUSHDB", "INFO"} : Name[op] = name}
KeyedNames(name) == {op \in {"GET", "EXISTS", "TTL"} : Name[op] = name}
PlainOp(name) == CHOOSE op \in PlainNames(name) : TRUE
KeyedOp(name) == CHOOSE op \in KeyedNames(name) : TRUE
OneKey(args) == Len(args) = 1 /\ IsUtf8(args[1])
KeyAndAmount(args) == Len(args) = 2 /\ IsUtf8(args[1]) /\ IsU64(args[2])

LEMMA ParseIs ==
  ASSUME NEW name, NEW args
  PROVE  Parse(name, args) =
           CASE PlainNames(name) # {} ->
                  IF args = << >> THEN [op |-> PlainOp(name)] ELSE Failed
             [] KeyedNames(name) # {} ->
                  IF OneKey(args) THEN [op |-> KeyedOp(name), key |-> args[1]] ELSE Failed
             [] name = Name.SET -> ParseSet(args)
             [] name = Name.DEL ->
                  IF args # << >> /\ \A i \in 1 .. Len(args) : IsUtf8(args[i])
                    THEN [op |-> "DEL", keys |-> args] ELSE Failed
             [] name = Name.KEYS -> IF args \in {<< >>, << <<"*">> >>} THEN [op |-> "KEYS"] ELSE Failed
             [] name = Name.EXPIRE ->
                  IF KeyAndAmount(args) THEN [op |-> "EXPIRE", key |-> args[1], seconds |-> ToInteger(args[2])]
                  ELSE Failed
             [] name = Name.EXPIREAT ->
                  IF KeyAndAmount(args) THEN [op |-> "EXPIREAT", key |-> args[1], timestamp |-> ToInteger(args[2])]
                  ELSE Failed
             [] OTHER -> [op |-> "UNKNOWN"]
BY Zenon DEF Parse, PlainNames, KeyedNames, PlainOp, KeyedOp, OneKey, KeyAndAmount

LEMMA ParseTyped ==
  ASSUME NEW name, NEW args \in Seq(Bytes)
  PROVE  Parse(name, args) \in Commands
<1>1. Failed \in Commands /\ [op |-> "KEYS"] \in Commands /\ [op |-> "UNKNOWN"] \in Commands
  BY DEF Failed, Commands
<1>2. PlainNames(name) # {} => [op |-> PlainOp(name)] \in Commands
  <2>1. PlainNames(name) # {} => PlainOp(name) \in {"PING", "FLUSHDB", "INFO"}
    BY DEF PlainNames, PlainOp
  <2> QED BY <2>1 DEF Commands
<1>3. KeyedNames(name) # {} /\ OneKey(args) =>
        [op |-> KeyedOp(name), key |-> args[1]] \in Commands
  <2>1. KeyedNames(name) # {} => KeyedOp(name) \in {"GET", "EXISTS", "TTL"}
    BY DEF KeyedNames, KeyedOp
  <2>2. OneKey(args) => args[1] \in Text
    BY ElementOfSeq, TextIs DEF OneKey
  <2> QED BY <2>1, <2>2 DEF Commands
<1>4. ParseSet(args) \in Commands
  BY SetTyped
<1>5. ASSUME args # << >>, \A i \in 1 .. Len(args) : IsUtf8(args[i])
      PROVE  [op |-> "DEL", keys |-> args] \in Commands
  <2>1. \A i \in 1 .. Len(args) : args[i] \in Text
    BY <1>5, ElementOfSeq, TextIs
  <2>2. args \in Seq(Text)
    BY <2>1
  <2> QED BY <1>5, <2>2 DEF Commands
<1>6. ASSUME KeyAndAmount(args)
      PROVE  /\ [op |-> "EXPIRE", key |-> args[1], seconds |-> ToInteger(args[2])] \in Commands
             /\ [op |-> "EXPIREAT", key |-> args[1], timestamp |-> ToInteger(args[2])] \in Commands
  <2>0. 1 \in 1 .. Len(args) /\ 2 \in 1 .. Len(args)
    BY <1>6 DEF KeyAndAmount
  <2>1. args[1] \in Bytes /\ args[2] \in Bytes
    BY <2>0, ElementOfSeq
  <2>2. ToInteger(args[2]) \in 0 .. MaxU64 /\ args[1] \in Text
    BY <1>6, <2>1, AmountRead, TextIs DEF KeyAndAmount
  <2> QED BY <2>2 DEF Commands
<1> QED BY <1>1, <1>2, <1>3, <1>4, <1>5, <1>6, ParseIs

\* A command is one of Commands.
LEMMA UnderstoodTyped ==
  ASSUME NEW args \in Seq(Bytes)
  PROVE  FromArgs(args) \in Commands
<1>1. CASE args = << >> \/ ~IsUtf8(Head(args))
  BY <1>1 DEF FromArgs, Failed, Commands
<1>2. CASE ~(args = << >> \/ ~IsUtf8(Head(args)))
  <2>1. Tail(args) \in Seq(Bytes)
    BY <1>2
  <2> QED BY <1>2, <2>1, ParseTyped DEF FromArgs
<1> QED BY <1>1, <1>2

-----------------------------------------------------------------------------
(***************************************************************************)
(* What is written for a command is understood as it.                      *)
(***************************************************************************)
Capitals == {"P", "S", "G", "D", "X", "K", "R", "A", "T", "F", "I", "E", "M", "U"}

\* Names are written in capitals.
LEMMA NamesAre ==
  /\ Name.PING = <<"P">> /\ Name.SET = <<"S">> /\ Name.GET = <<"G">> /\ Name.DEL = <<"D">>
  /\ Name.EXISTS = <<"X">> /\ Name.KEYS = <<"K">> /\ Name.EXPIRE = <<"R">> /\ Name.EXPIREAT = <<"A">>
  /\ Name.TTL = <<"T">> /\ Name.FLUSHDB = <<"F">> /\ Name.INFO = <<"I">>
  /\ EX = <<"E">> /\ PX = <<"M">> /\ PXAT = <<"U">>
BY DEF Name, EX, PX, PXAT

LEMMA LettersDiffer == \A c, d : <<c>> = <<d>> => c = d
OBVIOUS

LEMMA CapitalStays ==
  ASSUME NEW c \in Capitals
  PROVE  Uppercase(<<c>>) = <<c>> /\ IsUtf8(<<c>>) /\ <<c>> \in Bytes
<1>1. PICK t : t = <<c>>
  OBVIOUS
<1>2. Len(t) = 1 /\ t[1] = c
  BY <1>1
<1>3. IsUtf8(t)
  <2>1. c # "FF"
    BY DEF Capitals
  <2>2. \A i \in 1 .. Len(t) : i = 1
    BY <1>2
  <2> QED BY <1>2, <2>1, <2>2 DEF IsUtf8
<1>4. t \in Bytes
  <2>1. c \in {Name.PING[1], Name.SET[1], Name.GET[1], Name.DEL[1], Name.EXISTS[1], Name.KEYS[1], Name.EXPIRE[1],
               Name.EXPIREAT[1], Name.TTL[1], Name.FLUSHDB[1], Name.INFO[1], EX[1], PX[1], PXAT[1]}
    BY NamesAre DEF Capitals
  <2>2. /\ Name.PING \in Bytes /\ Name.SET \in Bytes /\ Name.GET \in Bytes /\ Name.DEL \in Bytes
        /\ Name.EXISTS \in Bytes /\ Name.KEYS \in Bytes /\ Name.EXPIRE \in Bytes /\ Name.EXPIREAT \in Bytes
        /\ Name.TTL \in Bytes /\ Name.FLUSHDB \in Bytes /\ Name.INFO \in Bytes
        /\ EX \in Bytes /\ PX \in Bytes /\ PXAT \in Bytes
    BY CommandParseAssumption DEF Bytes, Name
  <2>3. \A b \in Bytes : Len(b) = 1 => b[1] \in Byte
    BY ElementOfSeq DEF Bytes
  <2>4. c \in Byte
    BY <2>1, <2>2, <2>3, NamesAre
  <2> QED BY <1>1, <2>4 DEF Bytes
<1>5. Uppercase(t) = t
  <2>1. c \notin {"p", "s", "g", "d", "x", "k", "r", "a", "t", "f", "i", "e", "m", "u"}
    BY DEF Capitals
  <2>2. \A i \in 1 .. Len(t) : t[i] \notin {"p", "s", "g", "d", "x", "k", "r", "a", "t", "f", "i", "e", "m", "u"}
    BY <1>2, <2>1
  <2>3. Uppercase(t) = [i \in 1 .. Len(t) |-> t[i]]
    BY <2>2 DEF Uppercase
  <2>4. t = [i \in 1 .. Len(t) |-> t[i]]
    BY <1>4 DEF Bytes
  <2> QED BY <2>3, <2>4
<1> QED BY <1>1, <1>3, <1>4, <1>5

\* A name in capitals, and the arguments after it.
LEMMA WithName ==
  ASSUME NEW c \in Capitals, NEW rest \in Seq(Bytes)
  PROVE  /\ <<<<c>>>> \o rest \in Seq(Bytes)
         /\ FromArgs(<<<<c>>>> \o rest) = Parse(<<c>>, rest)
<1>1. PICK name : name = <<c>>
  OBVIOUS
<1>2. name \in Bytes /\ IsUtf8(name) /\ Uppercase(name) = name
  BY <1>1, CapitalStays
<1>3. PICK args : args = <<name>> \o rest
  OBVIOUS
<1>4. args \in Seq(Bytes) /\ args # << >> /\ Head(args) = name /\ Tail(args) = rest
  <2>1. args \in Seq(Bytes) /\ Len(args) = 1 + Len(rest) /\ Len(rest) \in Nat
    BY <1>2, <1>3, ConcatProperties
  <2>2. args # << >>
    BY <2>1
  <2>3. /\ \A i \in 1 .. 1 + Len(rest) : args[i] = IF i <= 1 THEN name ELSE rest[i - 1]
        /\ Len(<<name>>) = 1
    <3>1. <<name>> \in Seq(Bytes) /\ Len(<<name>>) = 1 /\ <<name>>[1] = name
      BY <1>2
    <3>2. \A i \in 1 .. 1 + Len(rest) : args[i] = IF i <= Len(<<name>>) THEN <<name>>[i] ELSE rest[i - Len(<<name>>)]
      BY <1>3, <3>1, ConcatProperties
    <3>3. \A i \in 1 .. 1 + Len(rest) : i <= 1 => i = 1
      BY <2>1
    <3> QED BY <3>1, <3>2, <3>3
  <2>4. Head(args) = name
    <3>1. 1 \in 1 .. 1 + Len(rest)
      BY <2>1
    <3> QED BY <2>2, <2>3, <3>1
  <2>5. Tail(args) = rest
    <3>1. PICK tail : tail = Tail(args)
      OBVIOUS
    <3>2. tail \in Seq(Bytes) /\ Len(tail) = Len(rest) /\ \A i \in 1 .. Len(rest) : tail[i] = args[i + 1]
      BY <2>1, <2>2, <3>1
    <3>3. \A i \in 1 .. Len(tail) : tail[i] = rest[i]
      <4> SUFFICES ASSUME NEW i \in 1 .. Len(rest) PROVE tail[i] = rest[i]
        BY <3>2
      <4>1. i + 1 \in 1 .. 1 + Len(rest) /\ ~(i + 1 <= 1) /\ (i + 1) - 1 = i
        BY <2>1
      <4>2. args[i + 1] = rest[(i + 1) - 1]
        BY <2>3, <4>1
      <4> QED BY <3>2, <4>1, <4>2
    <3> QED BY <3>1, <3>2, <3>3, SeqEqual
  <2> QED BY <2>1, <2>2, <2>4, <2>5
<1> QED BY <1>1, <1>2, <1>3, <1>4 DEF FromArgs

\* No two commands have one name.
LEMMA NamesDiffer ==
  \A a, b \in {"PING", "SET", "GET", "DEL", "EXISTS", "KEYS", "EXPIRE", "EXPIREAT", "TTL", "FLUSHDB", "INFO"} :
    Name[a] = Name[b] => a = b
<1>1. /\ Name["PING"][1] = "P" /\ Name["SET"][1] = "S" /\ Name["GET"][1] = "G" /\ Name["DEL"][1] = "D"
      /\ Name["EXISTS"][1] = "X" /\ Name["KEYS"][1] = "K" /\ Name["EXPIRE"][1] = "R" /\ Name["EXPIREAT"][1] = "A"
      /\ Name["TTL"][1] = "T" /\ Name["FLUSHDB"][1] = "F" /\ Name["INFO"][1] = "I"
  BY DEF Name
<1> QED BY <1>1

\* A name means the command it is the name of.
LEMMA NameMeans ==
  /\ \A op \in {"PING", "FLUSHDB", "INFO"} : PlainNames(Name[op]) = {op}
  /\ \A op \in {"GET", "EXISTS", "TTL"} : PlainNames(Name[op]) = {} /\ KeyedNames(Name[op]) = {op}
  /\ \A op \in {"SET", "DEL", "KEYS", "EXPIRE", "EXPIREAT"} :
       PlainNames(Name[op]) = {} /\ KeyedNames(Name[op]) = {}
<1>2. \A op \in {"PING", "FLUSHDB", "INFO"} : PlainNames(Name[op]) = {op}
  BY NamesDiffer DEF PlainNames
<1>3. \A op \in {"GET", "EXISTS", "TTL"} : PlainNames(Name[op]) = {} /\ KeyedNames(Name[op]) = {op}
  BY NamesDiffer DEF PlainNames, KeyedNames
<1>4. \A op \in {"SET", "DEL", "KEYS", "EXPIRE", "EXPIREAT"} :
        PlainNames(Name[op]) = {} /\ KeyedNames(Name[op]) = {}
  BY NamesDiffer DEF PlainNames, KeyedNames
<1> QED BY <1>2, <1>3, <1>4

\* What a name makes of the right arguments.
LEMMA RightArguments ==
  ASSUME NEW name, NEW args
  PROVE  /\ \A op : PlainNames(name) = {op} /\ args = << >> => Parse(name, args) = [op |-> op]
         /\ \A op : PlainNames(name) = {} /\ KeyedNames(name) = {op} /\ OneKey(args) =>
              Parse(name, args) = [op |-> op, key |-> args[1]]
         /\ PlainNames(name) = {} /\ KeyedNames(name) = {} =>
              /\ name = Name.SET => Parse(name, args) = ParseSet(args)
              /\ name = Name.DEL /\ args # << >> /\ (\A i \in 1 .. Len(args) : IsUtf8(args[i])) =>
                   Parse(name, args) = [op |-> "DEL", keys |-> args]
              /\ name = Name.KEYS /\ args = << >> => Parse(name, args) = [op |-> "KEYS"]
              /\ name = Name.EXPIRE /\ KeyAndAmount(args) =>
                   Parse(name, args) = [op |-> "EXPIRE", key |-> args[1], seconds |-> ToInteger(args[2])]
              /\ name = Name.EXPIREAT /\ KeyAndAmount(args) =>
                   Parse(name, args) = [op |-> "EXPIREAT", key |-> args[1], timestamp |-> ToInteger(args[2])]
<1>1. ASSUME NEW op, PlainNames(name) = {op}, args = << >> PROVE Parse(name, args) = [op |-> op]
  <2>1. PlainOp(name) = op
    BY <1>1 DEF PlainOp
  <2>2. op \in {"PING", "FLUSHDB", "INFO"} /\ Name[op] = name
    BY <1>1 DEF PlainNames
  <2>3. /\ KeyedNames(name) = {}
        /\ name \notin {Name["SET"], Name["DEL"], Name["KEYS"], Name["EXPIRE"], Name["EXPIREAT"]}
    BY <2>2, NamesDiffer DEF KeyedNames
  <2>4. PlainNames(name) # {}
    BY <1>1
  <2> QED BY <1>1, <2>1, <2>3, <2>4, ParseIs
<1>2. ASSUME NEW op, PlainNames(name) = {}, KeyedNames(name) = {op}, OneKey(args)
      PROVE  Parse(name, args) = [op |-> op, key |-> args[1]]
  <2>1. KeyedOp(name) = op
    BY <1>2 DEF KeyedOp
  <2>2. op \in {"GET", "EXISTS", "TTL"} /\ Name[op] = name
    BY <1>2 DEF KeyedNames
  <2>3. name \notin {Name["SET"], Name["DEL"], Name["KEYS"], Name["EXPIRE"], Name["EXPIREAT"]}
    BY <2>2, NamesDiffer
  <2>4. KeyedNames(name) # {}
    BY <1>2
  <2> QED BY <1>2, <2>1, <2>3, <2>4, ParseIs
<1>3. ASSUME PlainNames(name) = {}, KeyedNames(name) = {}
      PROVE  /\ name = Name.SET => Parse(name, args) = ParseSet(args)
             /\ name = Name.DEL /\ args # << >> /\ (\A i \in 1 .. Len(args) : IsUtf8(args[i])) =>
                  Parse(name, args) = [op |-> "DEL", keys |-> args]
             /\ name = Name.KEYS /\ args = << >> => Parse(name, args) = [op |-> "KEYS"]
             /\ name = Name.EXPIRE /\ KeyAndAmount(args) =>
                  Parse(name, args) = [op |-> "EXPIRE", key |-> args[1], seconds |-> ToInteger(args[2])]
             /\ name = Name.EXPIREAT /\ KeyAndAmount(args) =>
                  Parse(name, args) = [op |-> "EXPIREAT", key |-> args[1], timestamp |-> ToInteger(args[2])]
  BY <1>3, ParseIs, NamesAre
<1> QED BY <1>1, <1>2, <1>3

\* Texts as arguments.
LEMMA PlainUnderstood ==
  ASSUME NEW op \in {"PING", "FLUSHDB", "INFO", "KEYS"}
  PROVE  Parse(Name[op], << >>) = [op |-> op]
<1>0. PICK name : name = Name[op]
  OBVIOUS
<1>1. CASE op \in {"PING", "FLUSHDB", "INFO"}
  <2>1. PlainNames(name) = {op}
    BY <1>0, <1>1, NameMeans
  <2> QED BY <1>0, <2>1, RightArguments
<1>2. CASE op = "KEYS"
  <2>1. PlainNames(name) = {} /\ KeyedNames(name) = {}
    BY <1>0, <1>2, NameMeans
  <2> QED BY <1>0, <1>2, <2>1, RightArguments
<1> QED BY <1>1, <1>2

LEMMA KeyedUnderstood ==
  ASSUME NEW op \in {"GET", "EXISTS", "TTL"}, NEW key \in Text
  PROVE  Parse(Name[op], <<key>>) = [op |-> op, key |-> key]
<1>1. PICK name, args : name = Name[op] /\ args = <<key>>
  OBVIOUS
<1>2. PlainNames(name) = {} /\ KeyedNames(name) = {op}
  BY <1>1, NameMeans
<1>3. OneKey(args) /\ args[1] = key
  BY <1>1, TextIs DEF OneKey
<1> QED BY <1>1, <1>2, <1>3, RightArguments

LEMMA DelUnderstood ==
  ASSUME NEW keys \in Seq(Text), keys # << >>
  PROVE  Parse(Name.DEL, keys) = [op |-> "DEL", keys |-> keys]
<1>1. PICK op, name : op = "DEL" /\ name = Name[op]
  OBVIOUS
<1>2. PlainNames(name) = {} /\ KeyedNames(name) = {}
  BY <1>1, NameMeans
<1>3. \A i \in 1 .. Len(keys) : IsUtf8(keys[i])
  BY ElementOfSeq, TextIs
<1> QED BY <1>1, <1>2, <1>3, RightArguments

\* A number up to the limit, as it is written.
LEMMA AmountUnderstood ==
  ASSUME NEW n \in 0 .. MaxU64
  PROVE  IsU64(Decimal[n]) /\ ToInteger(Decimal[n]) = n /\ Decimal[n] \in Bytes
<1>1. n \in Nat /\ n <= MaxU64
  BY CommandParseAssumption
<1>2. /\ NoReturn(Decimal[n]) /\ Head(Decimal[n]) \notin {"+", "-"}
      /\ IsInteger(Decimal[n]) /\ ToInteger(Decimal[n]) = n
  BY <1>1, DecimalRead
<1> QED BY <1>1, <1>2 DEF IsU64, NoReturn

LEMMA ExpireUnderstood ==
  ASSUME NEW key \in Text, NEW n \in 0 .. MaxU64
  PROVE  /\ Parse(Name.EXPIRE, <<key, Decimal[n]>>) = [op |-> "EXPIRE", key |-> key, seconds |-> n]
         /\ Parse(Name.EXPIREAT, <<key, Decimal[n]>>) = [op |-> "EXPIREAT", key |-> key, timestamp |-> n]
<1>1. PICK expire, at : expire = Name["EXPIRE"] /\ at = Name["EXPIREAT"]
  OBVIOUS
<1>2. /\ PlainNames(expire) = {} /\ KeyedNames(expire) = {}
      /\ PlainNames(at) = {} /\ KeyedNames(at) = {}
  BY <1>1, NameMeans
<1>3. PICK text : text = Decimal[n]
  OBVIOUS
<1>4. PICK args : args = <<key, text>>
  OBVIOUS
<1>5. KeyAndAmount(args) /\ args[1] = key /\ ToInteger(args[2]) = n
  BY <1>3, <1>4, AmountUnderstood, TextIs DEF KeyAndAmount
<1>6. Parse(expire, args) = [op |-> "EXPIRE", key |-> key, seconds |-> n]
  BY <1>1, <1>2, <1>5, RightArguments
<1>7. Parse(at, args) = [op |-> "EXPIREAT", key |-> key, timestamp |-> n]
  BY <1>1, <1>2, <1>5, RightArguments
<1> QED BY <1>1, <1>3, <1>4, <1>6, <1>7

LEMMA SetIsSet == \A args : Parse(Name.SET, args) = ParseSet(args)
<1>1. PICK name : name = Name["SET"]
  OBVIOUS
<1>2. PlainNames(name) = {} /\ KeyedNames(name) = {}
  BY <1>1, NameMeans
<1> QED BY <1>1, <1>2, RightArguments

LEMMA SetUnderstood ==
  ASSUME NEW key \in Text, NEW value \in Bytes
  PROVE  Parse(Name.SET, <<key, value>>) = [op |-> "SET", key |-> key, value |-> value, expire |-> NoDuration]
<1>1. PICK args : args = <<key, value>>
  OBVIOUS
<1>2. Len(args) = 2 /\ args[1] = key /\ args[2] = value /\ IsUtf8(key)
  BY <1>1, TextIs
<1>3. ParseSet(args) = [op |-> "SET", key |-> key, value |-> value, expire |-> NoDuration]
  BY <1>2 DEF ParseSet
<1> QED BY <1>1, <1>3, SetIsSet

\* The arguments and the commands of a SET with a time.
TimedArgs(key, value, option, n) == <<key, value, option, Decimal[n]>>
SetFor(key, value, duration) == [op |-> "SET", key |-> key, value |-> value, expire |-> duration]
SetUntil(key, value, deadline) == [op |-> "SETPXAT", key |-> key, value |-> value, timestamp |-> deadline]
Seconds(n) == 1000 * n

LEMMA TimedUnderstood ==
  ASSUME NEW key \in Text, NEW value \in Bytes, NEW n \in 0 .. MaxU64
  PROVE  /\ Parse(Name.SET, TimedArgs(key, value, EX, n)) = SetFor(key, value, Seconds(n))
         /\ Parse(Name.SET, TimedArgs(key, value, PX, n)) = SetFor(key, value, n)
         /\ Parse(Name.SET, TimedArgs(key, value, PXAT, n)) = SetUntil(key, value, n)
<1>0. PICK text : text = Decimal[n]
  OBVIOUS
<1>1. IsU64(text) /\ ToInteger(text) = n /\ IsUtf8(key)
  BY <1>0, AmountUnderstood, TextIs
<1>2. /\ Uppercase(EX) = EX /\ Uppercase(PX) = PX /\ Uppercase(PXAT) = PXAT
      /\ IsUtf8(EX) /\ IsUtf8(PX) /\ IsUtf8(PXAT)
  BY CapitalStays, NamesAre DEF Capitals
<1>3. EX # PX /\ EX # PXAT /\ PX # PXAT
  BY NamesAre
<1>4. PICK ex, px, at : ex = <<key, value, EX, text>> /\ px = <<key, value, PX, text>> /\ at = <<key, value, PXAT, text>>
  OBVIOUS
<1>5. ParseSet(ex) = [op |-> "SET", key |-> key, value |-> value, expire |-> 1000 * n]
  <2>1. Len(ex) = 4 /\ ex[1] = key /\ ex[2] = value /\ ex[3] = EX /\ ex[4] = text
    BY <1>4
  <2> QED BY <1>1, <1>2, <1>3, <2>1 DEF ParseSet
<1>6. ParseSet(px) = [op |-> "SET", key |-> key, value |-> value, expire |-> n]
  <2>1. Len(px) = 4 /\ px[1] = key /\ px[2] = value /\ px[3] = PX /\ px[4] = text
    BY <1>4
  <2> QED BY <1>1, <1>2, <1>3, <2>1 DEF ParseSet
<1>7. ParseSet(at) = [op |-> "SETPXAT", key |-> key, value |-> value, timestamp |-> n]
  <2>1. Len(at) = 4 /\ at[1] = key /\ at[2] = value /\ at[3] = PXAT /\ at[4] = text
    BY <1>4
  <2> QED BY <1>1, <1>2, <1>3, <2>1 DEF ParseSet
<1> QED BY <1>0, <1>4, <1>5, <1>6, <1>7, SetIsSet DEF TimedArgs, SetFor, SetUntil, Seconds

\* Lists written out.
LEMMA Listed ==
  ASSUME NEW a, NEW b, NEW c, NEW d, NEW e
  PROVE  /\ <<a>> \o << >> = <<a>>
         /\ <<b, c>> \o << >> = <<b, c>>
         /\ <<a, b, c>> \o << >> = <<a, b, c>>
         /\ <<a>> \o <<b, c>> = <<a, b, c>>
         /\ <<b, c>> \o <<d, e>> = <<b, c, d, e>>
<1> DEFINE S == {a, b, c, d, e}
<1>1. <<a>> \in Seq(S) /\ <<b, c>> \in Seq(S) /\ <<a, b, c>> \in Seq(S)
  OBVIOUS
<1>2. <<a>> \o << >> = <<a>> /\ <<b, c>> \o << >> = <<b, c>> /\ <<a, b, c>> \o << >> = <<a, b, c>>
  BY <1>1, ConcatEmptySeq
<1>3. <<a>> \o <<b, c>> = <<a, b, c>>
  <2>1. PICK x, y, z : x = <<a>> /\ y = <<b, c>> /\ z = <<a, b, c>>
    OBVIOUS
  <2>2. /\ x \in Seq(S) /\ Len(x) = 1 /\ x[1] = a
        /\ y \in Seq(S) /\ Len(y) = 2 /\ y[1] = b /\ y[2] = c
        /\ z \in Seq(S) /\ Len(z) = 3 /\ z[1] = a /\ z[2] = b /\ z[3] = c
    BY <2>1
  <2>3. /\ x \o y \in Seq(S) /\ Len(x \o y) = 3
        /\ \A i \in 1 .. 3 : (x \o y)[i] = IF i <= 1 THEN x[i] ELSE y[i - 1]
    <3>1. /\ x \o y \in Seq(S) /\ Len(x \o y) = Len(x) + Len(y)
          /\ \A i \in 1 .. Len(x) + Len(y) : (x \o y)[i] = IF i <= Len(x) THEN x[i] ELSE y[i - Len(x)]
      <4>1. x \in Seq(S) /\ y \in Seq(S)
        BY <2>2
      <4> HIDE DEF S
      <4> QED BY <4>1, ConcatProperties
    <3>2. Len(x) + Len(y) = 3 /\ Len(x) = 1
      BY <2>2
    <3> QED BY <3>1, <3>2
  <2>4. \A i \in 1 .. 3 : i = 1 \/ i = 2 \/ i = 3
    OBVIOUS
  <2>5. \A i \in 1 .. 3 : (x \o y)[i] = z[i]
    BY <2>2, <2>3, <2>4
  <2> QED BY <2>1, <2>2, <2>3, <2>5, SeqEqual
<1>4. <<b, c>> \o <<d, e>> = <<b, c, d, e>>
  <2>1. PICK x, y, z : x = <<b, c>> /\ y = <<d, e>> /\ z = <<b, c, d, e>>
    OBVIOUS
  <2>2. /\ x \in Seq(S) /\ Len(x) = 2 /\ x[1] = b /\ x[2] = c
        /\ y \in Seq(S) /\ Len(y) = 2 /\ y[1] = d /\ y[2] = e
        /\ z \in Seq(S) /\ Len(z) = 4 /\ z[1] = b /\ z[2] = c /\ z[3] = d /\ z[4] = e
    BY <2>1
  <2>3. /\ x \o y \in Seq(S) /\ Len(x \o y) = 4
        /\ \A i \in 1 .. 4 : (x \o y)[i] = IF i <= 2 THEN x[i] ELSE y[i - 2]
    <3>1. /\ x \o y \in Seq(S) /\ Len(x \o y) = Len(x) + Len(y)
          /\ \A i \in 1 .. Len(x) + Len(y) : (x \o y)[i] = IF i <= Len(x) THEN x[i] ELSE y[i - Len(x)]
      <4>1. x \in Seq(S) /\ y \in Seq(S)
        BY <2>2
      <4> HIDE DEF S
      <4> QED BY <4>1, ConcatProperties
    <3>2. Len(x) + Len(y) = 4 /\ Len(x) = 2
      BY <2>2
    <3> QED BY <3>1, <3>2
  <2>4. \A i \in 1 .. 4 : i = 1 \/ i = 2 \/ i = 3 \/ i = 4
    OBVIOUS
  <2>5. \A i \in 1 .. 4 : (x \o y)[i] = z[i]
    BY <2>2, <2>3, <2>4
  <2> QED BY <2>1, <2>2, <2>3, <2>5, SeqEqual
<1> QED BY <1>2, <1>3, <1>4

LEMMA FiveListed ==
  ASSUME NEW a, NEW b, NEW c, NEW d, NEW e
  PROVE  <<a>> \o <<b, c, d, e>> = <<a, b, c, d, e>> /\ <<a, b, c>> \o <<d, e>> = <<a, b, c, d, e>>
<1> DEFINE S == {a, b, c, d, e}
<1>1. <<a>> \o <<b, c, d, e>> = <<a, b, c, d, e>>
  <2>1. PICK x, y, z : x = <<a>> /\ y = <<b, c, d, e>> /\ z = <<a, b, c, d, e>>
    OBVIOUS
  <2>2. /\ x \in Seq(S) /\ Len(x) = 1 /\ x[1] = a
        /\ y \in Seq(S) /\ Len(y) = 4 /\ y[1] = b /\ y[2] = c /\ y[3] = d /\ y[4] = e
        /\ z \in Seq(S) /\ Len(z) = 5 /\ z[1] = a /\ z[2] = b /\ z[3] = c /\ z[4] = d /\ z[5] = e
    BY <2>1
  <2>3. /\ x \o y \in Seq(S) /\ Len(x \o y) = 5
        /\ \A i \in 1 .. 5 : (x \o y)[i] = IF i <= 1 THEN x[i] ELSE y[i - 1]
    <3>1. /\ x \o y \in Seq(S) /\ Len(x \o y) = Len(x) + Len(y)
          /\ \A i \in 1 .. Len(x) + Len(y) : (x \o y)[i] = IF i <= Len(x) THEN x[i] ELSE y[i - Len(x)]
      <4>1. x \in Seq(S) /\ y \in Seq(S)
        BY <2>2
      <4> HIDE DEF S
      <4> QED BY <4>1, ConcatProperties
    <3>2. Len(x) + Len(y) = 5 /\ Len(x) = 1
      BY <2>2
    <3> QED BY <3>1, <3>2
  <2>4. \A i \in 1 .. 5 : i = 1 \/ i = 2 \/ i = 3 \/ i = 4 \/ i = 5
    OBVIOUS
  <2>5. \A i \in 1 .. 5 : (x \o y)[i] = z[i]
    BY <2>2, <2>3, <2>4
  <2> QED BY <2>1, <2>2, <2>3, <2>5, SeqEqual
<1>2. <<a, b, c>> \o <<d, e>> = <<a, b, c, d, e>>
  <2>1. PICK x, y, z : x = <<a, b, c>> /\ y = <<d, e>> /\ z = <<a, b, c, d, e>>
    OBVIOUS
  <2>2. /\ x \in Seq(S) /\ Len(x) = 3 /\ x[1] = a /\ x[2] = b /\ x[3] = c
        /\ y \in Seq(S) /\ Len(y) = 2 /\ y[1] = d /\ y[2] = e
        /\ z \in Seq(S) /\ Len(z) = 5 /\ z[1] = a /\ z[2] = b /\ z[3] = c /\ z[4] = d /\ z[5] = e
    BY <2>1
  <2>3. /\ x \o y \in Seq(S) /\ Len(x \o y) = 5
        /\ \A i \in 1 .. 5 : (x \o y)[i] = IF i <= 3 THEN x[i] ELSE y[i - 3]
    <3>1. /\ x \o y \in Seq(S) /\ Len(x \o y) = Len(x) + Len(y)
          /\ \A i \in 1 .. Len(x) + Len(y) : (x \o y)[i] = IF i <= Len(x) THEN x[i] ELSE y[i - Len(x)]
      <4>1. x \in Seq(S) /\ y \in Seq(S)
        BY <2>2
      <4> HIDE DEF S
      <4> QED BY <4>1, ConcatProperties
    <3>2. Len(x) + Len(y) = 5 /\ Len(x) = 3
      BY <2>2
    <3> QED BY <3>1, <3>2
  <2>4. \A i \in 1 .. 5 : i = 1 \/ i = 2 \/ i = 3 \/ i = 4 \/ i = 5
    OBVIOUS
  <2>5. \A i \in 1 .. 5 : (x \o y)[i] = z[i]
    BY <2>2, <2>3, <2>4
  <2> QED BY <2>1, <2>2, <2>3, <2>5, SeqEqual
<1> QED BY <1>1, <1>2

\* The name of a command, and the arguments after it.
LEMMA WithOp ==
  ASSUME NEW op \in {"PING", "SET", "GET", "DEL", "EXISTS", "KEYS", "EXPIRE", "EXPIREAT", "TTL", "FLUSHDB", "INFO"},
         NEW rest \in Seq(Bytes)
  PROVE  /\ <<Name[op]>> \o rest \in Seq(Bytes)
         /\ FromArgs(<<Name[op]>> \o rest) = Parse(Name[op], rest)
<1>1. PICK c \in Capitals : Name[op] = <<c>>
  BY NamesAre DEF Capitals
<1> QED BY <1>1, WithName

LEMMA NotEmptyWith == \A a : \A rest \in Seq(Bytes) : <<a>> \o rest # << >>
<1> TAKE a
<1> TAKE rest \in Seq(Bytes)
<1>1. PICK S : S = {a} \cup Bytes
  OBVIOUS
<1>2. <<a>> \in Seq(S) /\ rest \in Seq(S) /\ Len(<<a>>) = 1
  BY <1>1
<1>3. Len(<<a>> \o rest) = 1 + Len(rest) /\ Len(rest) \in Nat
  BY <1>2, ConcatProperties
<1> QED BY <1>3

\* A subcommand's arguments are understood as what it means.
LEMMA SubcommandUnderstood ==
  ASSUME NEW sub \in ClientCommand
  PROVE  IntoArgs(sub) \in Seq(Bytes) /\ FromArgs(IntoArgs(sub)) = Meaning(sub)
<1>0. Text \subseteq Bytes /\ EX \in Bytes /\ PX \in Bytes
  BY TextIs, CommandParseAssumption DEF Bytes
<1>1. CASE sub \in [op : {"PING", "KEYS", "FLUSHDB", "INFO"}]
  <2>1. PICK op \in {"PING", "KEYS", "FLUSHDB", "INFO"} : sub = [op |-> op]
    BY <1>1
  <2>2. sub.op = op /\ sub.op # "SET"
    BY <2>1
  <2>3. IntoArgs(sub) = <<Name[op]>> \o << >> /\ Meaning(sub) = sub
    BY <2>2 DEF IntoArgs, Meaning
  <2>4. PICK name, rest : name = Name[op] /\ rest = << >>
    OBVIOUS
  <2>5. <<name>> \o rest \in Seq(Bytes) /\ FromArgs(<<name>> \o rest) = Parse(name, rest)
    <3>1. rest \in Seq(Bytes)
      BY <2>4
    <3> QED BY <2>4, <3>1, WithOp
  <2>6. Parse(name, rest) = sub
    BY <2>1, <2>4, PlainUnderstood
  <2> QED BY <2>3, <2>4, <2>5, <2>6
<1>2. CASE sub \in [op : {"GET", "EXISTS", "TTL"}, key : Text]
  <2>1. PICK op \in {"GET", "EXISTS", "TTL"}, key \in Text : sub = [op |-> op, key |-> key]
    BY <1>2
  <2>2. sub.op = op /\ sub.key = key /\ sub.op # "SET"
    BY <2>1
  <2>3. IntoArgs(sub) = <<Name[op]>> \o <<key>> /\ Meaning(sub) = sub
    BY <2>2 DEF IntoArgs, Meaning
  <2>4. <<key>> \in Seq(Bytes)
    BY <1>0
  <2>5. PICK name, rest : name = Name[op] /\ rest = <<key>>
    OBVIOUS
  <2>6. <<name>> \o rest \in Seq(Bytes) /\ FromArgs(<<name>> \o rest) = Parse(name, rest)
    BY <2>4, <2>5, WithOp
  <2>7. Parse(name, rest) = sub
    BY <2>1, <2>5, KeyedUnderstood
  <2> QED BY <2>3, <2>5, <2>6, <2>7
<1>3. CASE sub \in [op : {"SET"}, key : Text, value : Text, unit : {"none", "ex", "px"}, amount : 0 .. MaxU64]
  <2>1. PICK key, value, unit, n : key = sub.key /\ value = sub.value /\ unit = sub.unit /\ n = sub.amount
    OBVIOUS
  <2>2. /\ sub.op = "SET" /\ key \in Text /\ value \in Text /\ key \in Bytes /\ value \in Bytes
        /\ unit \in {"none", "ex", "px"} /\ n \in 0 .. MaxU64
    BY <1>0, <1>3, <2>1
  <2>3. PICK d, set : d = Decimal[n] /\ set = Name["SET"]
    OBVIOUS
  <2>4. d \in Bytes /\ set = Name.SET
    BY <2>2, <2>3, AmountUnderstood
  <2>5. <<key, value>> \in Seq(Bytes) /\ <<key, value, EX, d>> \in Seq(Bytes) /\ <<key, value, PX, d>> \in Seq(Bytes)
    BY <1>0, <2>2, <2>4
  <2>6. CASE unit = "none"
    <3>1. IntoArgs(sub) = <<set>> \o (<<key, value>> \o << >>)
      BY <2>1, <2>2, <2>3, <2>6 DEF IntoArgs
    <3>2. IntoArgs(sub) = <<set>> \o <<key, value>>
      BY <3>1, Listed
    <3>3. Meaning(sub) = [op |-> "SET", key |-> key, value |-> value, expire |-> NoDuration]
      BY <2>1, <2>2, <2>6 DEF Meaning
    <3>4. PICK rest : rest = <<key, value>>
      OBVIOUS
    <3>5. <<set>> \o rest \in Seq(Bytes) /\ FromArgs(<<set>> \o rest) = Parse(set, rest)
      BY <2>3, <2>5, <3>4, WithOp
    <3>6. Parse(set, rest) = Meaning(sub)
      BY <2>2, <2>3, <2>4, <3>3, <3>4, SetUnderstood
    <3> QED BY <3>2, <3>4, <3>5, <3>6
  <2>7. CASE unit = "ex"
    <3>1. IntoArgs(sub) = <<set>> \o (<<key, value>> \o <<EX, d>>)
      BY <2>1, <2>2, <2>3, <2>7 DEF IntoArgs
    <3>2. IntoArgs(sub) = <<set>> \o <<key, value, EX, d>>
      BY <3>1, Listed
    <3>3. Meaning(sub) = [op |-> "SET", key |-> key, value |-> value, expire |-> 1000 * n]
      BY <2>1, <2>2, <2>7 DEF Meaning
    <3>4. PICK rest : rest = <<key, value, EX, d>>
      OBVIOUS
    <3>5. <<set>> \o rest \in Seq(Bytes) /\ FromArgs(<<set>> \o rest) = Parse(set, rest)
      BY <2>3, <2>5, <3>4, WithOp
    <3>6. Parse(set, rest) = Meaning(sub)
      <4>1. Parse(Name.SET, TimedArgs(key, value, EX, n)) = SetFor(key, value, Seconds(n))
        BY <2>2, TimedUnderstood
      <4> QED BY <2>3, <2>4, <3>3, <3>4, <4>1 DEF TimedArgs, SetFor, Seconds
    <3> QED BY <3>2, <3>4, <3>5, <3>6
  <2>8. CASE unit = "px"
    <3>1. IntoArgs(sub) = <<set>> \o (<<key, value>> \o <<PX, d>>)
      BY <2>1, <2>2, <2>3, <2>8 DEF IntoArgs
    <3>2. IntoArgs(sub) = <<set>> \o <<key, value, PX, d>>
      BY <3>1, Listed
    <3>3. Meaning(sub) = [op |-> "SET", key |-> key, value |-> value, expire |-> n]
      BY <2>1, <2>2, <2>8 DEF Meaning
    <3>4. PICK rest : rest = <<key, value, PX, d>>
      OBVIOUS
    <3>5. <<set>> \o rest \in Seq(Bytes) /\ FromArgs(<<set>> \o rest) = Parse(set, rest)
      BY <2>3, <2>5, <3>4, WithOp
    <3>6. Parse(set, rest) = Meaning(sub)
      <4>1. Parse(Name.SET, TimedArgs(key, value, PX, n)) = SetFor(key, value, n)
        BY <2>2, TimedUnderstood
      <4> QED BY <2>3, <2>4, <3>3, <3>4, <4>1 DEF TimedArgs, SetFor, Seconds
    <3> QED BY <3>2, <3>4, <3>5, <3>6
  <2> QED BY <2>2, <2>6, <2>7, <2>8
<1>4. CASE sub \in [op : {"DEL"}, keys : Seq(Text) \ {<< >>}]
  <2>1. PICK keys \in Seq(Text) : keys # << >> /\ sub = [op |-> "DEL", keys |-> keys]
    BY <1>4
  <2>2. sub.op = "DEL" /\ sub.keys = keys
    BY <2>1
  <2>3. PICK del : del = Name["DEL"]
    OBVIOUS
  <2>4. IntoArgs(sub) = <<del>> \o keys /\ Meaning(sub) = sub
    BY <2>2, <2>3 DEF IntoArgs, Meaning
  <2>5. keys \in Seq(Bytes)
    BY <1>0, <2>1, SeqMonotonic
  <2> QED BY <2>1, <2>3, <2>4, <2>5, WithOp, DelUnderstood
<1>5. CASE sub \in [op : {"EXPIRE"}, key : Text, seconds : 0 .. MaxU64]
  <2>1. PICK key \in Text, n \in 0 .. MaxU64 : sub = [op |-> "EXPIRE", key |-> key, seconds |-> n]
    BY <1>5
  <2>2. sub.op = "EXPIRE" /\ sub.key = key /\ sub.seconds = n
    BY <2>1
  <2>3. PICK d, expire : d = Decimal[n] /\ expire = Name["EXPIRE"]
    OBVIOUS
  <2>4. IntoArgs(sub) = <<expire>> \o <<key, d>> /\ Meaning(sub) = sub
    BY <2>2, <2>3 DEF IntoArgs, Meaning
  <2>5. <<key, d>> \in Seq(Bytes)
    BY <1>0, <2>3, AmountUnderstood
  <2> QED BY <2>1, <2>3, <2>4, <2>5, WithOp, ExpireUnderstood
<1> QED BY <1>1, <1>2, <1>3, <1>4, <1>5 DEF ClientCommand

\* A deadline is a u64.
LEMMA DeadlineBounded ==
  ASSUME NEW duration \in Nat, NEW now \in 0 .. MaxU64
  PROVE  DeadlineMs(duration, now) \in 0 .. MaxU64
BY CommandParseAssumption DEF DeadlineMs

\* What is logged for a command is understood as it, with its deadline, and replayed.
LEMMA LoggedUnderstood ==
  ASSUME NEW command \in Commands, IsWrite(command), NEW now \in 0 .. MaxU64
  PROVE  /\ LogArgs(command, now) \in Seq(Bytes) /\ LogArgs(command, now) # << >>
         /\ FromArgs(LogArgs(command, now)) = Absolute(command, now)
         /\ Replays(Absolute(command, now))
<1>0. Text \subseteq Bytes /\ PXAT \in Bytes
  BY TextIs, CommandParseAssumption DEF Bytes
<1>1. CASE command \in [op : {"SET"}, key : Text, value : Bytes, expire : Nat \cup {NoDuration}]
  <2>1. PICK key, value, duration : key = command.key /\ value = command.value /\ duration = command.expire
    OBVIOUS
  <2>2. /\ command.op = "SET" /\ key \in Text /\ value \in Bytes /\ key \in Bytes /\ duration \in Nat \cup {NoDuration}
        /\ command = SetFor(key, value, duration)
    BY <1>0, <1>1, <2>1 DEF SetFor
  <2>3. PICK set : set = Name["SET"]
    OBVIOUS
  <2>4. set = Name.SET /\ set \in Bytes
    BY <2>3, CommandParseAssumption DEF Bytes, Name
  <2>5. CASE duration = NoDuration
    <3>1. LogArgs(command, now) = <<set, key, value>> \o << >>
      BY <2>1, <2>2, <2>4, <2>5 DEF LogArgs
    <3>2. LogArgs(command, now) = <<set>> \o <<key, value>>
      BY <3>1, Listed
    <3>3. PICK rest : rest = <<key, value>>
      OBVIOUS
    <3>4. rest \in Seq(Bytes)
      BY <2>2, <3>3
    <3>5. <<set>> \o rest \in Seq(Bytes) /\ FromArgs(<<set>> \o rest) = Parse(set, rest) /\ <<set>> \o rest # << >>
      BY <2>3, <3>4, WithOp, NotEmptyWith
    <3>6. Parse(set, rest) = SetFor(key, value, duration)
      BY <2>2, <2>4, <2>5, <3>3, SetUnderstood DEF SetFor
    <3>7. Absolute(command, now) = command
      BY <2>1, <2>2, <2>5 DEF Absolute
    <3>8. Replays(command)
      BY <2>2 DEF Replays
    <3> QED BY <2>2, <3>2, <3>3, <3>5, <3>6, <3>7, <3>8
  <2>6. CASE duration # NoDuration
    <3>0. PICK until : until = DeadlineMs(duration, now)
      OBVIOUS
    <3>1. duration \in Nat /\ until \in 0 .. MaxU64
      BY <2>2, <2>6, <3>0, DeadlineBounded
    <3>2. PICK d : d = Decimal[until]
      OBVIOUS
    <3>3. d \in Bytes
      BY <3>1, <3>2, AmountUnderstood
    <3>4. LogArgs(command, now) = <<set, key, value>> \o <<PXAT, d>>
      BY <2>1, <2>2, <2>4, <2>6, <3>0, <3>2 DEF LogArgs
    <3>5. PICK rest : rest = <<key, value, PXAT, d>>
      OBVIOUS
    <3>6. LogArgs(command, now) = <<set>> \o rest
      <4>1. <<set, key, value>> \o <<PXAT, d>> = <<set, key, value, PXAT, d>>
        BY FiveListed
      <4>2. <<set>> \o <<key, value, PXAT, d>> = <<set, key, value, PXAT, d>>
        BY FiveListed
      <4> QED BY <3>4, <3>5, <4>1, <4>2
    <3>7. rest \in Seq(Bytes)
      BY <1>0, <2>2, <3>3, <3>5
    <3>8. <<set>> \o rest \in Seq(Bytes) /\ FromArgs(<<set>> \o rest) = Parse(set, rest) /\ <<set>> \o rest # << >>
      BY <2>3, <3>7, WithOp, NotEmptyWith
    <3>9. rest = TimedArgs(key, value, PXAT, until)
      BY <3>2, <3>5 DEF TimedArgs
    <3>10. Parse(set, rest) = SetUntil(key, value, until)
      BY <2>2, <2>4, <3>1, <3>9, TimedUnderstood
    <3>11. Absolute(command, now) = SetUntil(key, value, until)
      BY <2>1, <2>2, <2>6, <3>0 DEF Absolute, SetUntil
    <3>12. Replays(SetUntil(key, value, until))
      BY DEF Replays, SetUntil
    <3> QED BY <3>6, <3>8, <3>10, <3>11, <3>12
  <2> QED BY <2>5, <2>6
<1>2. CASE command \in [op : {"SETPXAT"}, key : Text, value : Bytes, timestamp : 0 .. MaxU64]
  <2>1. PICK key, value, until : key = command.key /\ value = command.value /\ until = command.timestamp
    OBVIOUS
  <2>2. /\ command.op = "SETPXAT" /\ key \in Text /\ value \in Bytes /\ key \in Bytes /\ until \in 0 .. MaxU64
        /\ command = SetUntil(key, value, until)
    BY <1>0, <1>2, <2>1 DEF SetUntil
  <2>3. PICK set, d : set = Name["SET"] /\ d = Decimal[until]
    OBVIOUS
  <2>4. set = Name.SET /\ d \in Bytes
    BY <2>2, <2>3, AmountUnderstood
  <2>5. LogArgs(command, now) = <<set, key, value, PXAT, d>>
    BY <2>1, <2>2, <2>3, <2>4 DEF LogArgs
  <2>6. PICK rest : rest = <<key, value, PXAT, d>>
    OBVIOUS
  <2>7. LogArgs(command, now) = <<set>> \o rest
    <3>1. <<set>> \o <<key, value, PXAT, d>> = <<set, key, value, PXAT, d>>
      BY FiveListed
    <3> QED BY <2>5, <2>6, <3>1
  <2>8. rest \in Seq(Bytes)
    BY <1>0, <2>2, <2>4, <2>6
  <2>9. <<set>> \o rest \in Seq(Bytes) /\ FromArgs(<<set>> \o rest) = Parse(set, rest) /\ <<set>> \o rest # << >>
    BY <2>3, <2>8, WithOp, NotEmptyWith
  <2>10. rest = TimedArgs(key, value, PXAT, until)
    BY <2>3, <2>6 DEF TimedArgs
  <2>11. Parse(set, rest) = SetUntil(key, value, until)
    BY <2>2, <2>4, <2>10, TimedUnderstood
  <2>12. Absolute(command, now) = command
    BY <2>2 DEF Absolute
  <2>13. Replays(command)
    BY <2>2 DEF Replays
  <2> QED BY <2>2, <2>7, <2>9, <2>11, <2>12, <2>13
<1>3. CASE command \in [op : {"DEL"}, keys : Seq(Text) \ {<< >>}]
  <2>1. PICK keys : keys = command.keys
    OBVIOUS
  <2>2. command.op = "DEL" /\ keys \in Seq(Text) /\ keys # << >> /\ command = [op |-> "DEL", keys |-> keys]
    BY <1>3, <2>1
  <2>3. PICK del : del = Name["DEL"]
    OBVIOUS
  <2>4. LogArgs(command, now) = <<del>> \o keys
    BY <2>1, <2>2, <2>3 DEF LogArgs
  <2>5. keys \in Seq(Bytes)
    BY <1>0, <2>2, SeqMonotonic
  <2>6. <<del>> \o keys \in Seq(Bytes) /\ FromArgs(<<del>> \o keys) = Parse(del, keys) /\ <<del>> \o keys # << >>
    BY <2>3, <2>5, WithOp, NotEmptyWith
  <2>7. Parse(del, keys) = command
    BY <2>2, <2>3, DelUnderstood
  <2>8. Absolute(command, now) = command /\ Replays(command)
    BY <2>2 DEF Absolute, Replays
  <2> QED BY <2>4, <2>6, <2>7, <2>8
<1>4. CASE command \in [op : {"EXPIRE"}, key : Text, seconds : 0 .. MaxU64]
  <2>1. PICK key, until : key = command.key /\ until = DeadlineMs(1000 * command.seconds, now)
    OBVIOUS
  <2>2. command.op = "EXPIRE" /\ key \in Text /\ key \in Bytes /\ 1000 * command.seconds \in Nat
    BY <1>0, <1>4, <2>1
  <2>3. until \in 0 .. MaxU64
    BY <2>1, <2>2, DeadlineBounded
  <2>4. PICK at, d : at = Name["EXPIREAT"] /\ d = Decimal[until]
    OBVIOUS
  <2>5. at = Name.EXPIREAT /\ d \in Bytes
    BY <2>3, <2>4, AmountUnderstood
  <2>6. LogArgs(command, now) = <<at, key, d>>
    BY <2>1, <2>2, <2>4, <2>5 DEF LogArgs
  <2>7. PICK rest : rest = <<key, d>>
    OBVIOUS
  <2>8. LogArgs(command, now) = <<at>> \o rest
    <3>1. <<at>> \o <<key, d>> = <<at, key, d>>
      BY Listed
    <3> QED BY <2>6, <2>7, <3>1
  <2>9. rest \in Seq(Bytes)
    BY <2>2, <2>5, <2>7
  <2>10. <<at>> \o rest \in Seq(Bytes) /\ FromArgs(<<at>> \o rest) = Parse(at, rest) /\ <<at>> \o rest # << >>
    BY <2>4, <2>9, WithOp, NotEmptyWith
  <2>11. Parse(at, rest) = [op |-> "EXPIREAT", key |-> key, timestamp |-> until]
    BY <2>2, <2>3, <2>4, <2>5, <2>7, ExpireUnderstood
  <2>12. Absolute(command, now) = [op |-> "EXPIREAT", key |-> key, timestamp |-> until]
    BY <2>1, <2>2 DEF Absolute
  <2>13. Replays([op |-> "EXPIREAT", key |-> key, timestamp |-> until])
    BY DEF Replays
  <2> QED BY <2>8, <2>10, <2>11, <2>12, <2>13
<1>5. CASE command \in [op : {"EXPIREAT"}, key : Text, timestamp : 0 .. MaxU64]
  <2>1. PICK key, until : key = command.key /\ until = command.timestamp
    OBVIOUS
  <2>2. /\ command.op = "EXPIREAT" /\ key \in Text /\ key \in Bytes /\ until \in 0 .. MaxU64
        /\ command = [op |-> "EXPIREAT", key |-> key, timestamp |-> until]
    BY <1>0, <1>5, <2>1
  <2>3. PICK at, d : at = Name["EXPIREAT"] /\ d = Decimal[until]
    OBVIOUS
  <2>4. at = Name.EXPIREAT /\ d \in Bytes
    BY <2>2, <2>3, AmountUnderstood
  <2>5. LogArgs(command, now) = <<at, key, d>>
    BY <2>1, <2>2, <2>3, <2>4 DEF LogArgs
  <2>6. PICK rest : rest = <<key, d>>
    OBVIOUS
  <2>7. LogArgs(command, now) = <<at>> \o rest
    <3>1. <<at>> \o <<key, d>> = <<at, key, d>>
      BY Listed
    <3> QED BY <2>5, <2>6, <3>1
  <2>8. rest \in Seq(Bytes)
    BY <2>2, <2>4, <2>6
  <2>9. <<at>> \o rest \in Seq(Bytes) /\ FromArgs(<<at>> \o rest) = Parse(at, rest) /\ <<at>> \o rest # << >>
    BY <2>3, <2>8, WithOp, NotEmptyWith
  <2>10. Parse(at, rest) = command
    BY <2>2, <2>3, <2>4, <2>6, ExpireUnderstood
  <2>11. Absolute(command, now) = command /\ Replays(command)
    BY <2>2 DEF Absolute, Replays
  <2> QED BY <2>7, <2>9, <2>10, <2>11
<1>6. CASE command.op = "FLUSHDB"
  <2>1. command = [op |-> "FLUSHDB"]
    BY <1>6 DEF Commands
  <2>2. PICK flush, rest : flush = Name["FLUSHDB"] /\ rest = << >>
    OBVIOUS
  <2>3. LogArgs(command, now) = <<flush>> \o rest
    <3>1. <<flush>> \o << >> = <<flush>>
      BY Listed
    <3> QED BY <1>6, <2>2, <3>1 DEF LogArgs
  <2>4. <<flush>> \o rest \in Seq(Bytes) /\ FromArgs(<<flush>> \o rest) = Parse(flush, rest) /\ <<flush>> \o rest # << >>
    <3>1. rest \in Seq(Bytes)
      BY <2>2
    <3> QED BY <2>2, <3>1, WithOp, NotEmptyWith
  <2>5. Parse(flush, rest) = command
    BY <2>1, <2>2, PlainUnderstood
  <2>6. Absolute(command, now) = command /\ Replays(command)
    BY <1>6 DEF Absolute, Replays
  <2> QED BY <2>3, <2>4, <2>5, <2>6
<1> QED BY <1>1, <1>2, <1>3, <1>4, <1>5, <1>6 DEF Commands, IsWrite

-----------------------------------------------------------------------------
(***************************************************************************)
(* The shell's line, character by character.                               *)
(***************************************************************************)
Quotes == {"\"", "'"}

\* The states of split_command_line's loop.
Scans == [tokens : Seq(Bytes), current : Bytes, quote : Quotes \cup {"none"}, escaped : BOOLEAN, active : BOOLEAN]

LEMMA ScanCharKept ==
  ASSUME NEW scan \in Scans, NEW ch \in Byte
  PROVE  ScanChar(scan, ch) \in Scans /\ Emit(scan) \in Scans
<1>1. /\ scan.tokens \in Seq(Bytes) /\ scan.current \in Bytes /\ scan.quote \in Quotes \cup {"none"}
      /\ scan.escaped \in BOOLEAN /\ scan.active \in BOOLEAN
  BY DEF Scans
<1>2. << >> \in Bytes /\ Append(scan.current, ch) \in Bytes /\ Append(scan.tokens, scan.current) \in Seq(Bytes)
  BY <1>1 DEF Bytes
<1>3. Emit(scan) \in Scans
  BY <1>1, <1>2 DEF Emit, Scans
<1>4. PICK role : role = Role(scan, ch)
  OBVIOUS
<1>5. role \in {"text", "escape", "open", "close", "blank"} /\ (role = "open" => ch \in Quotes)
  BY <1>1, <1>4, Zenon DEF Role, IsQuote, Quotes
<1>6. PICK marked : marked = [scan EXCEPT !.active = TRUE, !.escaped = role = "escape"]
  OBVIOUS
<1>7. /\ marked \in Scans
      /\ [marked EXCEPT !.current = Append(@, ch)] \in Scans
      /\ [marked EXCEPT !.quote = "none"] \in Scans
      /\ role = "open" => [marked EXCEPT !.quote = ch] \in Scans
  <2>1. marked \in Scans /\ marked.current = scan.current
    BY <1>6 DEF Scans
  <2>2. Append(marked.current, ch) \in Bytes
    BY <1>2, <2>1
  <2> QED BY <1>5, <2>1, <2>2 DEF Scans
<1>8. ScanChar(scan, ch) \in Scans
  BY <1>3, <1>4, <1>5, <1>6, <1>7 DEF ScanChar
<1> QED BY <1>3, <1>8

\* What the loop goes through: f[n] after n characters.
Scanned(f, start, line) ==
  f[0] = start /\ \A n \in 1 .. Len(line) : f[n] = ScanChar(f[n - 1], line[n])

\* ScanFrom's own function.
IsScan(f, start, line) ==
  f = [n \in 0 .. Len(line) |-> IF n = 0 THEN start ELSE ScanChar(f[n - 1], line[n])]

LEMMA ScanExists ==
  ASSUME NEW start \in Scans, NEW line \in Bytes
  PROVE  \E f \in [0 .. Len(line) -> Scans] : Scanned(f, start, line)
<1> DEFINE N == Len(line)
           step == [p \in (1 .. N) \X Scans |-> ScanChar(p[2], line[p[1]])]
<1>1. N \in Nat /\ \A n \in 1 .. N : line[n] \in Byte
  BY DEF Bytes
<1>2. \A n \in 1 .. N, d \in Scans : step[<<n, d>>] = ScanChar(d, line[n])
  OBVIOUS
<1> HIDE DEF step
<1>3. \A n \in 1 .. N, d \in Scans : step[<<n, d>>] \in Scans
  BY <1>1, <1>2, ScanCharKept
<1>4. PICK f \in [0 .. N -> Scans] : Recurs(f, N, start, step)
  BY <1>1, <1>3, Recursion
<1>5. ASSUME NEW n \in 1 .. N PROVE f[n] = ScanChar(f[n - 1], line[n])
  <2>1. n - 1 \in 0 .. N
    BY <1>1
  <2>2. f[n - 1] \in Scans
    BY <2>1
  <2> QED BY <1>2, <1>4, <2>2 DEF Recurs
<1> QED BY <1>4, <1>5 DEF Recurs, Scanned

\* The loop ends where any account of it does.
LEMMA ScanIs ==
  ASSUME NEW start, NEW line \in Bytes, NEW f, Scanned(f, start, line)
  PROVE  ScanFrom(start, line) = f[Len(line)]
<1> DEFINE N == Len(line)
<1>1. N \in Nat
  BY DEF Bytes
<1>2. \E g : IsScan(g, start, line)
  <2> DEFINE g == [n \in 0 .. N |-> f[n]]
  <2>1. ASSUME NEW n \in 0 .. N PROVE g[n] = IF n = 0 THEN start ELSE ScanChar(g[n - 1], line[n])
    <3>1. CASE n = 0
      BY <3>1 DEF Scanned
    <3>2. CASE n # 0
      <4>1. n \in 1 .. N /\ n - 1 \in 0 .. N
        BY <1>1, <3>2
      <4>2. g[n] = f[n] /\ g[n - 1] = f[n - 1]
        BY <4>1
      <4>3. f[n] = ScanChar(f[n - 1], line[n])
        BY <4>1 DEF Scanned
      <4> HIDE DEF g
      <4> QED BY <3>2, <4>2, <4>3
    <3> QED BY <3>1, <3>2
  <2>2. g = [n \in 0 .. N |-> g[n]]
    OBVIOUS
  <2> HIDE DEF g
  <2>3. IsScan(g, start, line)
    BY <2>1, <2>2 DEF IsScan
  <2> QED BY <2>3
<1> DEFINE scan == CHOOSE g : IsScan(g, start, line)
<1>3. IsScan(scan, start, line)
  BY <1>2
<1>4. ScanFrom(start, line) = scan[N]
  BY Zenon DEF ScanFrom, IsScan
<1> HIDE DEF scan
<1> DEFINE S == {n \in 0 .. N : scan[n] = f[n]}
<1>5. 0 \in S
  <2>1. scan[0] = start /\ f[0] = start
    BY <1>1, <1>3 DEF IsScan, Scanned
  <2> QED BY <1>1, <2>1
<1>6. ASSUME NEW n \in 0 .. N, n \in S, n < N PROVE n + 1 \in S
  <2>1. n + 1 \in 1 .. N /\ n + 1 # 0 /\ n + 1 - 1 = n /\ n + 1 \in 0 .. N
    BY <1>1, <1>6
  <2>2. scan[n + 1] = ScanChar(scan[n], line[n + 1])
    BY <1>3, <2>1 DEF IsScan
  <2>3. f[n + 1] = ScanChar(f[n], line[n + 1])
    BY <2>1 DEF Scanned
  <2> QED BY <1>6, <2>1, <2>2, <2>3
<1>7. \A n \in 0 .. N : n \in S
  <2> HIDE DEF S, N
  <2> QED BY <1>1, <1>5, <1>6, UpTo
<1>8. N \in S
  BY <1>1, <1>7
<1> QED BY <1>4, <1>8

\* The states of the loop, and where it ends for no characters, one and more.
LEMMA ScanTyped ==
  ASSUME NEW start \in Scans, NEW line \in Bytes
  PROVE  ScanFrom(start, line) \in Scans
<1>1. PICK f \in [0 .. Len(line) -> Scans] : Scanned(f, start, line)
  BY ScanExists
<1>2. Len(line) \in 0 .. Len(line)
  BY DEF Bytes
<1> QED BY <1>1, <1>2, ScanIs

LEMMA ScanNone ==
  ASSUME NEW start \in Scans
  PROVE  ScanFrom(start, << >>) = start
<1>1. PICK none : none = << >>
  OBVIOUS
<1>2. none \in Bytes /\ Len(none) = 0
  BY <1>1 DEF Bytes
<1>3. PICK f \in [0 .. Len(none) -> Scans] : Scanned(f, start, none)
  BY <1>2, ScanExists
<1>4. ScanFrom(start, none) = f[0] /\ f[0] = start
  BY <1>2, <1>3, ScanIs DEF Scanned
<1> QED BY <1>1, <1>4

LEMMA ScanOne ==
  ASSUME NEW start \in Scans, NEW ch \in Byte
  PROVE  ScanFrom(start, <<ch>>) = ScanChar(start, ch) /\ <<ch>> \in Bytes
<1>1. PICK one : one = <<ch>>
  OBVIOUS
<1>2. one \in Bytes /\ Len(one) = 1 /\ one[1] = ch
  BY <1>1 DEF Bytes
<1>3. PICK f \in [0 .. Len(one) -> Scans] : Scanned(f, start, one)
  BY <1>2, ScanExists
<1>4. f[0] = start /\ f[1] = ScanChar(f[1 - 1], one[1]) /\ 1 - 1 = 0
  <2>1. 1 \in 1 .. Len(one)
    BY <1>2
  <2> QED BY <1>3, <2>1 DEF Scanned
<1>5. ScanFrom(start, one) = f[1]
  BY <1>2, <1>3, ScanIs
<1>6. f[1] = ScanChar(start, ch)
  BY <1>2, <1>4
<1> QED BY <1>1, <1>2, <1>5, <1>6

\* The loop can be stopped anywhere and gone on with.
LEMMA ScanJoined ==
  ASSUME NEW start \in Scans, NEW a \in Bytes, NEW b \in Bytes
  PROVE  ScanFrom(start, a \o b) = ScanFrom(ScanFrom(start, a), b)
<1> DEFINE M == Len(a)
           N == Len(b)
<1>1. PICK line : line = a \o b
  OBVIOUS
<1>2. M \in Nat /\ N \in Nat /\ line \in Bytes /\ Len(line) = M + N
  BY <1>1, Joined
<1>3. \A i \in 1 .. M + N : line[i] = IF i <= M THEN a[i] ELSE b[i - M]
  BY <1>1, ConcatProperties DEF Bytes
<1>4. PICK f \in [0 .. Len(line) -> Scans] : Scanned(f, start, line)
  BY <1>2, ScanExists
<1>5. f[0] = start /\ \A n \in 1 .. M + N : f[n] = ScanChar(f[n - 1], line[n])
  BY <1>2, <1>4 DEF Scanned
<1>6. ScanFrom(start, a) = f[M]
  <2>1. \A n \in 1 .. M : n \in 1 .. M + N /\ n <= M
    BY <1>2
  <2>2. Scanned(f, start, a)
    BY <1>3, <1>5, <2>1 DEF Scanned
  <2> QED BY <2>2, ScanIs
<1> DEFINE g == [n \in 0 .. N |-> f[M + n]]
<1>7. Scanned(g, f[M], b)
  <2>1. g[0] = f[M]
    BY <1>2
  <2>2. ASSUME NEW n \in 1 .. N PROVE g[n] = ScanChar(g[n - 1], b[n])
    <3>1. /\ n \in 0 .. N /\ n - 1 \in 0 .. N /\ M + n \in 1 .. M + N /\ M + (n - 1) = (M + n) - 1
          /\ ~(M + n <= M) /\ (M + n) - M = n
      BY <1>2
    <3>2. g[n] = f[M + n] /\ g[n - 1] = f[(M + n) - 1]
      BY <3>1
    <3>3. line[M + n] = b[n]
      BY <1>3, <3>1
    <3>4. f[M + n] = ScanChar(f[(M + n) - 1], line[M + n])
      BY <1>5, <3>1
    <3> HIDE DEF g
    <3> QED BY <3>2, <3>3, <3>4
  <2> HIDE DEF g
  <2> QED BY <2>1, <2>2 DEF Scanned
<1>8. ScanFrom(f[M], b) = g[N] /\ g[N] = f[M + N]
  <2>1. g[N] = f[M + N]
    BY <1>2
  <2> HIDE DEF g
  <2> QED BY <1>7, <2>1, ScanIs
<1>9. ScanFrom(start, line) = f[M + N]
  BY <1>2, <1>4, ScanIs
<1> QED BY <1>1, <1>6, <1>8, <1>9

\* What is typed is bytes.
LEMMA SpecialChars ==
  "\\" \in Byte /\ "\"" \in Byte /\ "'" \in Byte /\ " " \in Byte /\ Quotes \subseteq Byte
BY CommandPathAssumption DEF Quotes

LEMMA UnreadTyped == Unread \in Scans
BY DEF Unread, Scans, Bytes

\* The words of a line are made of its bytes.
LEMMA SplitTyped ==
  ASSUME NEW line \in Bytes
  PROVE  Split(line) = OpenQuote \/ \E tokens \in Seq(Bytes) : Split(line) = Tokens(tokens)
<1>1. PICK end : end = Scan(line)
  OBVIOUS
<1>2. end \in Scans
  BY <1>1, ScanTyped, UnreadTyped DEF Scan
<1>3. PICK last : last = IF end.escaped THEN [end EXCEPT !.current = Append(@, "\\")] ELSE end
  OBVIOUS
<1>4. last \in Scans
  <2>1. Append(end.current, "\\") \in Bytes
    <3>1. \A t \in Bytes, ch \in Byte : Append(t, ch) \in Bytes
      BY DEF Bytes
    <3>2. end.current \in Bytes
      BY <1>2 DEF Scans
    <3> QED BY <3>1, <3>2, SpecialChars
  <2> QED BY <1>2, <1>3, <2>1 DEF Scans
<1>5. Emit(last) \in Scans
  BY <1>4, SpecialChars, ScanCharKept
<1>6. last.tokens \in Seq(Bytes) /\ Emit(last).tokens \in Seq(Bytes)
  BY <1>4, <1>5 DEF Scans
<1>7. Split(line) = IF end.quote # "none" THEN OpenQuote
                    ELSE Tokens(IF last.active THEN Emit(last).tokens ELSE last.tokens)
  BY <1>1, <1>3 DEF Split
<1> QED BY <1>6, <1>7

LEMMA TokensDiffer == \A t : Tokens(t).tokens = t /\ Tokens(t) # OpenQuote
BY DEF Tokens, OpenQuote

-----------------------------------------------------------------------------
(***************************************************************************)
(* The ends of the line.                                                   *)
(***************************************************************************)
Blank(b) == \A i \in 1 .. Len(b) : b[i] = " "

\* Every non-empty set of positions has a last one.
LEMMA LastPosition ==
  ASSUME NEW N \in Nat, NEW S, S \subseteq 1 .. N, S # {}
  PROVE  \E m \in S : \A n \in S : m >= n
<1> DEFINE T == {N - i : i \in S}
<1>1. T \subseteq Nat /\ T # {}
  <2>1. \A i \in S : N - i \in Nat
    OBVIOUS
  <2> QED BY <2>1
<1>2. PICK t \in T : \A u \in T : t <= u
  <2> HIDE DEF T
  <2> QED BY <1>1, LeastNumber
<1>3. PICK m \in S : t = N - m
  OBVIOUS
<1>4. ASSUME NEW n \in S PROVE m >= n
  <2>1. N - n \in T
    OBVIOUS
  <2>2. N - m <= N - n
    BY <1>2, <1>3, <2>1
  <2>3. m \in Int /\ n \in Int
    OBVIOUS
  <2> QED BY <2>2, <2>3
<1> QED BY <1>4

\* What is no blank, and where it begins and ends.
TextAt(line) == {i \in 1 .. Len(line) : line[i] # " "}
FirstOf(S) == CHOOSE i \in S : \A j \in S : i <= j
LastOf(S) == CHOOSE i \in S : \A j \in S : i >= j

LEMMA TrimDef ==
  \A line : Trim(line) = IF TextAt(line) = {} THEN << >>
                         ELSE SubSeq(line, FirstOf(TextAt(line)), LastOf(TextAt(line)))
BY Zenon DEF Trim, TextAt, FirstOf, LastOf

\* trim takes blanks off both ends, and nothing else.
LEMMA TrimIs ==
  ASSUME NEW line \in Bytes
  PROVE  /\ Trim(line) \in Bytes
         /\ \E pre, post \in Bytes : Blank(pre) /\ Blank(post) /\ line = pre \o (Trim(line) \o post)
<1> DEFINE N == Len(line)
           text == TextAt(line)
<1>1. N \in Nat /\ << >> \in Bytes /\ Blank(<< >>)
  BY DEF Bytes, Blank
<1>2. CASE text = {}
  <2>1. Trim(line) = << >>
    BY <1>2, TrimDef
  <2>2. Blank(line)
    BY <1>2 DEF Blank, TextAt
  <2>3. line = line \o (<< >> \o << >>)
    BY <1>1, Joined
  <2> QED BY <1>1, <2>1, <2>2, <2>3
<1>3. CASE text # {}
  <2>1. text \subseteq 1 .. N
    BY DEF TextAt
  <2>2. PICK lo, hi : lo = FirstOf(text) /\ hi = LastOf(text)
    OBVIOUS
  <2>3. lo \in text /\ \A j \in text : lo <= j
    <3>1. \E m \in text : \A n \in text : m <= n
      <4>1. text \subseteq Nat
        BY <2>1
      <4> HIDE DEF text
      <4> QED BY <1>3, <4>1, LeastNumber
    <3> HIDE DEF text
    <3> QED BY <2>2, <3>1 DEF FirstOf
  <2>4. hi \in text /\ \A j \in text : hi >= j
    <3>1. \E m \in text : \A n \in text : m >= n
      <4> HIDE DEF text, N
      <4> QED BY <1>1, <1>3, <2>1, LastPosition
    <3> HIDE DEF text
    <3> QED BY <2>2, <3>1 DEF LastOf
  <2>5. lo \in 1 .. N /\ hi \in 1 .. N /\ lo <= hi
    BY <2>1, <2>3, <2>4
  <2>6. PICK t, pre, post : t = SubSeq(line, lo, hi) /\ pre = SubSeq(line, 1, lo - 1) /\ post = SubSeq(line, hi + 1, N)
    OBVIOUS
  <2>7. Trim(line) = t
    BY <1>3, <2>2, <2>6, TrimDef
  <2>8. pre \in Bytes /\ Len(pre) = lo - 1 /\ \A i \in 1 .. lo - 1 : pre[i] = line[i]
    BY <2>5, <2>6 DEF Bytes
  <2>9. post \in Bytes /\ Len(post) = N - hi /\ \A i \in 1 .. N - hi : post[i] = line[hi + i]
    BY <2>5, <2>6 DEF Bytes
  <2>10. t \in Bytes /\ Len(t) = hi - lo + 1 /\ \A i \in 1 .. hi - lo + 1 : t[i] = line[lo + i - 1]
    BY <2>5, <2>6 DEF Bytes
  <2>11. Blank(pre)
    <3>1. ASSUME NEW i \in 1 .. lo - 1 PROVE pre[i] = " "
      <4>1. i \in 1 .. N /\ ~(lo <= i)
        BY <2>5
      <4>2. i \notin text
        BY <2>3, <4>1
      <4>3. line[i] = " "
        BY <4>1, <4>2 DEF TextAt
      <4> QED BY <2>8, <4>3
    <3> QED BY <2>8, <3>1 DEF Blank
  <2>12. Blank(post)
    <3>1. ASSUME NEW i \in 1 .. N - hi PROVE post[i] = " "
      <4>1. hi + i \in 1 .. N /\ ~(hi >= hi + i)
        BY <1>1, <2>5
      <4>2. hi + i \notin text
        BY <2>4, <4>1
      <4>3. line[hi + i] = " "
        BY <4>1, <4>2 DEF TextAt
      <4> QED BY <2>9, <4>3
    <3> QED BY <2>9, <3>1 DEF Blank
  <2>13. line = pre \o (t \o post)
    <3>1. PICK end, all : end = t \o post /\ all = pre \o end
      OBVIOUS
    <3>2. end \in Bytes /\ Len(end) = N - lo + 1
      <4>1. end \in Bytes /\ Len(end) = Len(t) + Len(post)
        BY <2>9, <2>10, <3>1, Joined
      <4> QED BY <1>1, <2>5, <2>9, <2>10, <4>1
    <3>3. all \in Bytes /\ Len(all) = N
      <4>1. all \in Bytes /\ Len(all) = Len(pre) + Len(end)
        BY <2>8, <3>1, <3>2, Joined
      <4> QED BY <1>1, <2>5, <2>8, <3>2, <4>1
    <3>4. \A i \in 1 .. Len(t) + Len(post) : end[i] = IF i <= Len(t) THEN t[i] ELSE post[i - Len(t)]
      BY <2>9, <2>10, <3>1, ConcatProperties DEF Bytes
    <3>5. \A i \in 1 .. Len(pre) + Len(end) : all[i] = IF i <= Len(pre) THEN pre[i] ELSE end[i - Len(pre)]
      BY <2>8, <3>1, <3>2, ConcatProperties DEF Bytes
    <3>6. ASSUME NEW i \in 1 .. N PROVE all[i] = line[i]
      <4>1. CASE i <= lo - 1
        <5>1. i \in 1 .. lo - 1 /\ i \in 1 .. Len(pre) + Len(end) /\ i <= Len(pre)
          BY <1>1, <2>5, <2>8, <3>2, <4>1
        <5> QED BY <2>8, <3>5, <5>1
      <4>2. CASE i > lo - 1 /\ i <= hi
        <5>1. /\ i \in 1 .. Len(pre) + Len(end) /\ ~(i <= Len(pre))
              /\ i - Len(pre) = i - lo + 1
              /\ i - lo + 1 \in 1 .. Len(t) + Len(post) /\ i - lo + 1 <= Len(t)
              /\ i - lo + 1 \in 1 .. hi - lo + 1 /\ lo + (i - lo + 1) - 1 = i
          BY <1>1, <2>5, <2>8, <2>9, <2>10, <3>2, <4>2
        <5>2. all[i] = end[i - lo + 1]
          BY <3>5, <5>1
        <5>3. end[i - lo + 1] = t[i - lo + 1]
          BY <3>4, <5>1
        <5>4. t[i - lo + 1] = line[i]
          BY <2>10, <5>1
        <5> QED BY <5>2, <5>3, <5>4
      <4>3. CASE i > hi
        <5>1. /\ i \in 1 .. Len(pre) + Len(end) /\ ~(i <= Len(pre))
              /\ i - Len(pre) = i - lo + 1
              /\ i - lo + 1 \in 1 .. Len(t) + Len(post) /\ ~(i - lo + 1 <= Len(t))
              /\ (i - lo + 1) - Len(t) = i - hi
              /\ i - hi \in 1 .. N - hi /\ hi + (i - hi) = i
          BY <1>1, <2>5, <2>8, <2>9, <2>10, <3>2, <4>3
        <5>2. all[i] = end[i - lo + 1]
          BY <3>5, <5>1
        <5>3. end[i - lo + 1] = post[i - hi]
          BY <3>4, <5>1
        <5>4. post[i - hi] = line[i]
          BY <2>9, <5>1
        <5> QED BY <5>2, <5>3, <5>4
      <4>4. i \in Int /\ lo \in Int /\ hi \in Int
        BY <2>5
      <4> QED BY <4>1, <4>2, <4>3, <4>4
    <3>7. all = line
      BY <1>1, <3>3, <3>6, SeqEqual DEF Bytes
    <3> QED BY <3>1, <3>7
  <2> QED BY <2>7, <2>8, <2>9, <2>10, <2>11, <2>12, <2>13
<1> QED BY <1>2, <1>3

-----------------------------------------------------------------------------
(***************************************************************************)
(* The inductive invariant.                                                *)
(***************************************************************************)

\* What is typed, and where a command may be on its way.
Typed ==
  /\ input \in Bytes
  /\ stage \in {"prompt", "sent", "closed", "refused", "append", "execute", "executed", "replayed"}

\* Nothing has happened at the prompt, and the shell that was left sent nothing.
AtPrompt == stage \in {"prompt", "closed"} => asked = Nothing /\ log = << >>

\* The request is one frame of arguments, those of the subcommand if there was one.
OnTheWire ==
  stage = "sent" =>
    /\ log = << >>
    /\ asked = Nothing \/ asked \in ClientCommand
    /\ \E args \in Seq(Bytes) : request = Request(args) /\ (asked # Nothing => args = IntoArgs(asked))

\* The server has a command, the one the subcommand means.
Understood ==
  stage \notin {"prompt", "closed", "sent"} =>
    cmd \in Commands /\ (asked # Nothing => cmd = Meaning(asked))

\* Only a write is logged, and its frame is in the log before it is executed.
Logged ==
  /\ stage = "append" => IsWrite(cmd) /\ log = << >>
  /\ stage \in {"execute", "executed", "replayed"} =>
       IF IsWrite(cmd) THEN written \in Times /\ log = Request(LogArgs(cmd, written)) ELSE log = << >>

Inv == Typed /\ AtPrompt /\ OnTheWire /\ Understood /\ Logged /\ ReplayedAsExecuted

LEMMA InvInit == Init => Inv
BY DEF Init, Inv, Typed, AtPrompt, OnTheWire, Understood, Logged, ReplayedAsExecuted, Bytes

\* What is typed stays bytes, and nothing else changes.
LEMMA EditsKept ==
  ASSUME Inv, NEW line \in Bytes, Edits(line)
  PROVE  Inv'
BY DEF Edits, Inv, Typed, AtPrompt, OnTheWire, Understood, Logged, ReplayedAsExecuted

LEMMA EnterKept ==
  ASSUME Inv, Enter
  PROVE  Inv'
<1>1. PICK line, action : line = Trim(input) /\ action = ShellAction(line)
  OBVIOUS
<1>2. /\ stage = "prompt" /\ input' = << >>
      /\ \/ action = "local" /\ UNCHANGED <<stage, request>>
         \/ action = "quit" /\ stage' = "closed" /\ UNCHANGED request
         \/ action = "send" /\ Sends(Split(line).tokens)
      /\ UNCHANGED <<asked, cmd, written, log, replayed>>
  BY <1>1 DEF Enter
<1>3. line \in Bytes /\ asked = Nothing /\ log = << >> /\ << >> \in Bytes
  BY <1>1, <1>2, TrimIs DEF Inv, Typed, AtPrompt, Bytes
<1>4. CASE action = "send" /\ Sends(Split(line).tokens)
  <2>1. Split(line) # OpenQuote
    BY <1>1, <1>4 DEF ShellAction
  <2>2. PICK tokens \in Seq(Bytes) : Split(line) = Tokens(tokens)
    BY <1>3, <2>1, SplitTyped
  <2>3. stage' = "sent" /\ request' = Request(tokens)
    BY <1>4, <2>2, TokensDiffer DEF Sends
  <2> QED BY <1>2, <1>3, <2>3
        DEF Inv, Typed, AtPrompt, OnTheWire, Understood, Logged, ReplayedAsExecuted
<1>5. CASE UNCHANGED request /\ (UNCHANGED stage \/ stage' = "closed")
  BY <1>2, <1>3, <1>5 DEF Inv, Typed, AtPrompt, OnTheWire, Understood, Logged, ReplayedAsExecuted
<1> QED BY <1>2, <1>4, <1>5

\* A request from the command line or from another client.
LEMMA SentKept ==
  ASSUME Inv, OneShot \/ OtherClient
  PROVE  Inv'
<1>1. /\ stage = "prompt" /\ stage' = "sent" /\ input' = input /\ log' = log /\ log = << >> /\ asked = Nothing
      /\ input \in Bytes
  BY DEF OneShot, OtherClient, Sends, Inv, Typed, AtPrompt
<1>2. /\ asked' = Nothing \/ asked' \in ClientCommand
      /\ \E args \in Seq(Bytes) : request' = Request(args) /\ (asked' # Nothing => args = IntoArgs(asked'))
  <2>1. CASE OneShot
    <3>1. PICK sub \in Subcommands : asked' = sub /\ request' = Request(IntoArgs(sub))
      BY <2>1 DEF OneShot, Sends
    <3>2. sub \in ClientCommand
      BY CommandPathAssumption
    <3> QED BY <3>1, <3>2, SubcommandUnderstood
  <2>2. CASE OtherClient
    <3>1. PICK args \in Requests : request' = Request(args) /\ asked' = asked
      BY <2>2 DEF OtherClient, Sends
    <3>2. args \in Seq(Bytes)
      BY CommandPathAssumption DEF Bytes
    <3> QED BY <1>1, <3>1, <3>2
  <2> QED BY <2>1, <2>2
<1> QED BY <1>1, <1>2 DEF Inv, Typed, AtPrompt, OnTheWire, Understood, Logged, ReplayedAsExecuted

LEMMA ReceiveKept ==
  ASSUME Inv, Receive
  PROVE  Inv'
<1>1. PICK args \in Seq(Bytes) : request = Request(args) /\ (asked # Nothing => args = IntoArgs(asked))
  BY DEF Receive, Inv, OnTheWire
<1>2. cmd' = FromArgs(args) /\ cmd' \in Commands
  BY <1>1, RequestUnderstood, UnderstoodTyped DEF Receive
<1>3. asked # Nothing => cmd' = Meaning(asked)
  BY <1>1, <1>2, SubcommandUnderstood DEF Receive, Inv, OnTheWire
<1>4. /\ stage = "sent" /\ log = << >> /\ input \in Bytes
      /\ UNCHANGED <<input, asked, request, written, log, replayed>>
  BY DEF Receive, Inv, OnTheWire, Typed
<1>5. \/ stage' = "refused"
      \/ stage' = "append" /\ IsWrite(cmd')
      \/ stage' = "execute" /\ ~IsWrite(cmd')
  <2>1. ~IsWrite(Failed)
    BY DEF IsWrite, Failed
  <2> QED BY <2>1 DEF Receive
<1> QED BY <1>2, <1>3, <1>4, <1>5 DEF Inv, Typed, AtPrompt, OnTheWire, Understood, Logged, ReplayedAsExecuted

LEMMA AppendKept ==
  ASSUME Inv, AppendCommand
  PROVE  Inv'
<1>1. /\ stage = "append" /\ stage' = "execute" /\ UNCHANGED <<input, asked, request, cmd, replayed>>
      /\ cmd \in Commands /\ IsWrite(cmd)
  BY DEF AppendCommand, Inv, Understood, Logged
<1>2. PICK now \in Times :
        written' = now /\ log' = IF LogArgs(cmd, now) = << >> THEN << >> ELSE Request(LogArgs(cmd, now))
  BY DEF AppendCommand
<1>3. now \in 0 .. MaxU64
  BY CommandPathAssumption
<1>4. LogArgs(cmd, now) # << >>
  BY <1>1, <1>3, LoggedUnderstood
<1>5. log' = Request(LogArgs(cmd', written')) /\ written' \in Times
  BY <1>1, <1>2, <1>4
<1> QED BY <1>1, <1>5 DEF Inv, Typed, AtPrompt, OnTheWire, Understood, Logged, ReplayedAsExecuted

LEMMA ReplayKept ==
  ASSUME Inv, Replay
  PROVE  Inv'
<1>1. /\ stage = "executed" /\ log # << >> /\ stage' = "replayed"
      /\ UNCHANGED <<input, asked, request, cmd, written, log>>
  BY DEF Replay
<1>2. cmd \in Commands /\ IsWrite(cmd) /\ written \in Times /\ log = Request(LogArgs(cmd, written))
  BY <1>1 DEF Inv, Understood, Logged
<1>3. written \in 0 .. MaxU64
  BY <1>2, CommandPathAssumption
<1>4. PICK args : args = LogArgs(cmd, written)
  OBVIOUS
<1>5. args \in Seq(Bytes) /\ FromArgs(args) = Absolute(cmd, written) /\ Replays(Absolute(cmd, written))
  BY <1>2, <1>3, <1>4, LoggedUnderstood
<1>6. FromResp(ParseResp(log).value) = Absolute(cmd, written)
  BY <1>2, <1>4, <1>5, RequestUnderstood
<1>7. replayed' = Absolute(cmd', written')
  BY <1>1, <1>5, <1>6 DEF Replay
<1> QED BY <1>1, <1>2, <1>7 DEF Inv, Typed, AtPrompt, OnTheWire, Understood, Logged, ReplayedAsExecuted

\* The invariant holds in every state a command reaches on its way.
THEOREM Invariance == Spec => []Inv
<1>1. Init => Inv
  BY InvInit
<1>2. Inv /\ [Next]_vars => Inv'
  <2> SUFFICES ASSUME Inv, [Next]_vars PROVE Inv'
    OBVIOUS
  <2>0. input \in Bytes /\ Chars \subseteq Byte
    BY CommandPathAssumption DEF Inv, Typed
  <2>1. CASE TypeChar
    <3>1. PICK ch \in Chars : Edits(Append(input, ch))
      BY <2>1 DEF TypeChar
    <3>2. Append(input, ch) \in Bytes
      BY <2>0 DEF Bytes
    <3> QED BY <3>1, <3>2, EditsKept
  <2>2. CASE Backspace
    <3>1. input # << >> /\ Edits(Front(input))
      BY <2>2 DEF Backspace
    <3>2. Front(input) \in Bytes
      BY <2>0, <3>1 DEF Front, Bytes
    <3> QED BY <3>1, <3>2, EditsKept
  <2>3. CASE ClearLine
    <3>1. << >> \in Bytes
      BY DEF Bytes
    <3> QED BY <2>3, <3>1, EditsKept DEF ClearLine
  <2>4. CASE Execute
    BY <2>4 DEF Execute, Inv, Typed, AtPrompt, OnTheWire, Understood, Logged, ReplayedAsExecuted
  <2>5. CASE UNCHANGED vars
    BY <2>5 DEF vars, Inv, Typed, AtPrompt, OnTheWire, Understood, Logged, ReplayedAsExecuted
  <2> QED BY <2>1, <2>2, <2>3, <2>4, <2>5, EnterKept, SentKept, ReceiveKept, AppendKept, ReplayKept DEF Next
<1> QED BY <1>1, <1>2, PTL DEF Spec

\* The server executes what rustkv-cli was asked for, for every subcommand its
\* options can make (into_args against from_resp).
THEOREM SubcommandsExecuted == Spec => []OneShotUnderstood
<1>1. Inv => OneShotUnderstood
  BY DEF Inv, AtPrompt, Understood, OneShotUnderstood
<1> QED BY <1>1, Invariance, PTL

\* No command that changes the store is left out of the log, whatever a client
\* sends (is_write_command and command_to_resp_bytes against execute_command).
THEOREM NothingUnlogged == Spec => []ChangesAreLogged
<1>1. Inv => ChangesAreLogged
  <2> SUFFICES ASSUME Inv, stage = "executed", ChangesStore(cmd) PROVE log # << >>
    BY DEF ChangesAreLogged
  <2>1. IsWrite(cmd)
    BY DEF ChangesStore, IsWrite
  <2>2. cmd \in Commands /\ written \in Times /\ log = Request(LogArgs(cmd, written))
    BY <2>1 DEF Inv, Understood, Logged
  <2>3. written \in 0 .. MaxU64
    BY <2>2, CommandPathAssumption
  <2>4. LogArgs(cmd, written) \in Seq(Bytes)
    BY <2>1, <2>2, <2>3, LoggedUnderstood
  <2> QED BY <2>2, <2>4, RequestUnderstood
<1> QED BY <1>1, Invariance, PTL

\* Replaying a logged frame does what was executed, with the deadline of the
\* time of logging, for every key, value and duration (command_to_resp_bytes,
\* parse_command and replay_command).
THEOREM ReplayFaithful == Spec => []ReplayedAsExecuted
<1>1. Inv => ReplayedAsExecuted
  BY DEF Inv
<1> QED BY <1>1, Invariance, PTL

-----------------------------------------------------------------------------
(***************************************************************************)
(* Blanks at the ends of the line.                                         *)
(***************************************************************************)

\* What split_command_line returns for a line that ends so.
Outcome(scan) ==
  IF scan.quote # "none" THEN OpenQuote
  ELSE Tokens(IF scan.active THEN Emit(scan).tokens ELSE scan.tokens)

LEMMA SplitIs ==
  ASSUME NEW line, ~Scan(line).escaped
  PROVE  Split(line) = Outcome(Scan(line))
BY DEF Split, Outcome

\* The fields of a state.
LEMMA ScanFields ==
  ASSUME NEW scan \in Scans
  PROVE  /\ scan.tokens \in Seq(Bytes) /\ scan.current \in Bytes /\ scan.quote \in Quotes \cup {"none"}
         /\ scan.escaped \in BOOLEAN /\ scan.active \in BOOLEAN
         /\ scan = [tokens |-> scan.tokens, current |-> scan.current, quote |-> scan.quote,
                    escaped |-> scan.escaped, active |-> scan.active]
BY DEF Scans

\* A state of the loop, and what some characters are in it.
StateOf(tokens, current, quote, escaped, active) ==
  [tokens |-> tokens, current |-> current, quote |-> quote, escaped |-> escaped, active |-> active]

LEMMA Reads ==
  ASSUME NEW tokens \in Seq(Bytes), NEW current \in Bytes, NEW quote \in Quotes, NEW active \in BOOLEAN, NEW ch \in Byte
  PROVE  /\ ScanChar(StateOf(tokens, current, quote, TRUE, TRUE), ch) =
              StateOf(tokens, Append(current, ch), quote, FALSE, TRUE)
         /\ ch = "\\" =>
              ScanChar(StateOf(tokens, current, quote, FALSE, TRUE), ch) = StateOf(tokens, current, quote, TRUE, TRUE)
         /\ ch \notin {"\\", quote} =>
              ScanChar(StateOf(tokens, current, quote, FALSE, TRUE), ch) =
                StateOf(tokens, Append(current, ch), quote, FALSE, TRUE)
         /\ ScanChar(StateOf(tokens, current, quote, FALSE, TRUE), quote) =
              StateOf(tokens, current, "none", FALSE, TRUE)
         /\ ScanChar(StateOf(tokens, current, "none", FALSE, active), quote) =
              StateOf(tokens, current, quote, FALSE, TRUE)
         /\ ScanChar(StateOf(tokens, current, "none", FALSE, active), " ") =
              IF active THEN StateOf(Append(tokens, current), << >>, "none", FALSE, FALSE)
              ELSE StateOf(tokens, current, "none", FALSE, FALSE)
<1>0. quote # "\\" /\ quote # "none" /\ quote # " " /\ IsQuote(quote) /\ ~IsQuote(" ")
  BY DEF Quotes, IsQuote
<1>1. PICK open : open = StateOf(tokens, current, quote, FALSE, TRUE)
  OBVIOUS
<1>2. open.quote = quote /\ ~open.escaped /\ open.active /\ open.current = current /\ open.tokens = tokens
  BY <1>1 DEF StateOf
<1>3. PICK free : free = StateOf(tokens, current, "none", FALSE, active)
  OBVIOUS
<1>4. free.quote = "none" /\ ~free.escaped /\ free.active = active /\ free.current = current /\ free.tokens = tokens
  BY <1>3 DEF StateOf
<1>5. ScanChar(StateOf(tokens, current, quote, TRUE, TRUE), ch) =
        StateOf(tokens, Append(current, ch), quote, FALSE, TRUE)
  <2>1. PICK escaped : escaped = StateOf(tokens, current, quote, TRUE, TRUE)
    OBVIOUS
  <2>2. Role(escaped, ch) = "text"
    BY <2>1 DEF Role, StateOf
  <2> QED BY <2>1, <2>2 DEF ScanChar, StateOf
<1>6. ASSUME ch = "\\" PROVE ScanChar(open, ch) = StateOf(tokens, current, quote, TRUE, TRUE)
  <2>1. Role(open, ch) = "escape"
    BY <1>2, <1>6 DEF Role
  <2> QED BY <1>1, <2>1 DEF ScanChar, StateOf
<1>7. ASSUME ch \notin {"\\", quote} PROVE ScanChar(open, ch) = StateOf(tokens, Append(current, ch), quote, FALSE, TRUE)
  <2>1. Role(open, ch) = "text"
    BY <1>0, <1>2, <1>7 DEF Role
  <2> QED BY <1>1, <2>1 DEF ScanChar, StateOf
<1>8. ScanChar(open, quote) = StateOf(tokens, current, "none", FALSE, TRUE)
  <2>1. Role(open, quote) = "close"
    BY <1>0, <1>2 DEF Role
  <2> QED BY <1>1, <2>1 DEF ScanChar, StateOf
<1>9. ScanChar(free, quote) = StateOf(tokens, current, quote, FALSE, TRUE)
  <2>1. Role(free, quote) = "open"
    BY <1>0, <1>4 DEF Role
  <2> QED BY <1>3, <2>1 DEF ScanChar, StateOf
<1>10. ScanChar(free, " ") = IF active THEN StateOf(Append(tokens, current), << >>, "none", FALSE, FALSE)
                             ELSE StateOf(tokens, current, "none", FALSE, FALSE)
  <2>1. Role(free, " ") = "blank"
    BY <1>0, <1>4 DEF Role
  <2>2. ScanChar(free, " ") = IF active THEN Emit(free) ELSE free
    BY <1>4, <2>1 DEF ScanChar
  <2>3. Emit(free) = StateOf(Append(tokens, current), << >>, "none", FALSE, FALSE)
    <3>1. free = [tokens |-> tokens, current |-> current, quote |-> "none", escaped |-> FALSE, active |-> active]
      BY <1>3 DEF StateOf
    <3>2. PICK more : more = Append(tokens, current)
      OBVIOUS
    <3>3. Emit(free) = [free EXCEPT !.tokens = more, !.current = << >>, !.active = FALSE]
      BY <1>4, <3>2 DEF Emit
    <3>4. Emit(free) = [tokens |-> more, current |-> << >>, quote |-> "none", escaped |-> FALSE, active |-> FALSE]
      BY <3>1, <3>3
    <3> QED BY <3>2, <3>4 DEF StateOf
  <2>4. ~active => free = StateOf(tokens, current, "none", FALSE, FALSE)
    BY <1>3
  <2> QED BY <2>2, <2>3, <2>4
<1> QED BY <1>1, <1>3, <1>5, <1>6, <1>7, <1>8, <1>9, <1>10

\* A blank that is not escaped changes neither the words so far nor whether a
\* quote is open.
LEMMA BlankStep ==
  ASSUME NEW scan \in Scans, ~scan.escaped
  PROVE  ~ScanChar(scan, " ").escaped /\ Outcome(ScanChar(scan, " ")) = Outcome(scan)
<1>1. /\ scan.tokens \in Seq(Bytes) /\ scan.current \in Bytes /\ scan.quote \in Quotes \cup {"none"}
      /\ scan.active \in BOOLEAN
  BY DEF Scans
<1>2. CASE scan.quote # "none"
  <2>1. Role(scan, " ") = "text"
    <3>1. scan.quote # " "
      BY <1>1 DEF Quotes
    <3> QED BY <1>2, <3>1 DEF Role
  <2>2. PICK next : next = ScanChar(scan, " ")
    OBVIOUS
  <2>3. next.quote = scan.quote /\ ~next.escaped
    BY <2>1, <2>2 DEF ScanChar, Scans
  <2> QED BY <1>2, <2>2, <2>3 DEF Outcome
<1>3. CASE scan.quote = "none"
  <2>1. Role(scan, " ") = "blank"
    BY <1>3 DEF Role, IsQuote
  <2>2. ScanChar(scan, " ") = IF scan.active THEN Emit(scan) ELSE scan
    BY <2>1 DEF ScanChar
  <2>3. Emit(scan).quote = "none" /\ ~Emit(scan).escaped /\ ~Emit(scan).active
    BY <1>3 DEF Emit, Scans
  <2> QED BY <1>3, <2>2, <2>3 DEF Outcome
<1> QED BY <1>2, <1>3

\* Blanks behind the words.
LEMMA BlanksAfter ==
  ASSUME NEW start \in Scans, ~start.escaped, NEW b \in Bytes, Blank(b)
  PROVE  ~ScanFrom(start, b).escaped /\ Outcome(ScanFrom(start, b)) = Outcome(start)
<1> DEFINE N == Len(b)
<1>1. N \in Nat
  BY DEF Bytes
<1>0. \A n \in 1 .. N : b[n] = " "
  BY DEF Blank
<1>2. PICK f \in [0 .. N -> Scans] : Scanned(f, start, b)
  BY ScanExists
<1> DEFINE S == {n \in 0 .. N : ~f[n].escaped /\ Outcome(f[n]) = Outcome(start)}
<1>3. 0 \in S
  BY <1>1, <1>2 DEF Scanned
<1>4. ASSUME NEW n \in 0 .. N, n \in S, n < N PROVE n + 1 \in S
  <2>1. n + 1 \in 1 .. N /\ n + 1 - 1 = n /\ n + 1 \in 0 .. N /\ f[n] \in Scans
    BY <1>1, <1>4
  <2>2. f[n + 1] = ScanChar(f[n], " ")
    <3>1. f[n + 1] = ScanChar(f[n], b[n + 1])
      BY <1>2, <2>1 DEF Scanned
    <3> QED BY <1>0, <2>1, <3>1
  <2>3. ~f[n].escaped /\ Outcome(f[n]) = Outcome(start)
    BY <1>4
  <2> QED BY <2>1, <2>2, <2>3, BlankStep
<1>5. \A n \in 0 .. N : n \in S
  <2> HIDE DEF S, N
  <2> QED BY <1>1, <1>3, <1>4, UpTo
<1>6. N \in S
  BY <1>1, <1>5
<1>7. ScanFrom(start, b) = f[N]
  BY <1>2, ScanIs
<1> QED BY <1>6, <1>7

\* Blanks before the words.
LEMMA BlanksBefore ==
  ASSUME NEW b \in Bytes, Blank(b)
  PROVE  ScanFrom(Unread, b) = Unread
<1> DEFINE N == Len(b)
           f == [n \in 0 .. N |-> Unread]
<1>1. N \in Nat
  BY DEF Bytes
<1>0. \A n \in 1 .. N : b[n] = " "
  BY DEF Blank
<1>2. ScanChar(Unread, " ") = Unread
  <2>1. Unread.quote = "none" /\ ~Unread.escaped /\ ~Unread.active
    BY DEF Unread
  <2>2. Role(Unread, " ") = "blank"
    BY <2>1 DEF Role, IsQuote
  <2> QED BY <2>1, <2>2 DEF ScanChar
<1>3. Scanned(f, Unread, b)
  <2>1. \A n \in 0 .. N : f[n] = Unread
    OBVIOUS
  <2>2. \A n \in 1 .. N : n \in 0 .. N /\ n - 1 \in 0 .. N
    BY <1>1
  <2>3. 0 \in 0 .. N
    BY <1>1
  <2> HIDE DEF f
  <2> QED BY <1>0, <1>2, <2>1, <2>2, <2>3 DEF Scanned
<1>4. ScanFrom(Unread, b) = f[N]
  <2> HIDE DEF f
  <2> QED BY <1>3, ScanIs
<1> QED BY <1>1, <1>4

\* A line without the blanks at its ends is split as it is with them.
LEMMA TrimmedSplit ==
  ASSUME NEW line \in Bytes, ~Scan(Trim(line)).escaped
  PROVE  Split(Trim(line)) = Split(line)
<1>1. PICK t : t = Trim(line)
  OBVIOUS
<1>2. t \in Bytes
  BY <1>1, TrimIs
<1>3. PICK pre, post \in Bytes : Blank(pre) /\ Blank(post) /\ line = pre \o (t \o post)
  BY <1>1, TrimIs
<1>4. PICK end : end = ScanFrom(Unread, t)
  OBVIOUS
<1>5. end \in Scans /\ ~end.escaped /\ Split(t) = Outcome(end)
  BY <1>1, <1>2, <1>4, ScanTyped, UnreadTyped, SplitIs DEF Scan
<1>6. ScanFrom(Unread, line) = ScanFrom(end, post)
  <2>1. t \o post \in Bytes
    BY <1>2, Joined
  <2>2. ScanFrom(Unread, line) = ScanFrom(ScanFrom(Unread, pre), t \o post)
    BY <1>3, <2>1, ScanJoined, UnreadTyped
  <2>3. ScanFrom(Unread, pre) = Unread
    BY <1>3, BlanksBefore
  <2>4. ScanFrom(Unread, t \o post) = ScanFrom(end, post)
    BY <1>2, <1>4, ScanJoined, UnreadTyped
  <2> QED BY <2>2, <2>3, <2>4
<1>7. ~Scan(line).escaped /\ Outcome(Scan(line)) = Outcome(end)
  BY <1>3, <1>5, <1>6, BlanksAfter DEF Scan
<1> QED BY <1>1, <1>5, <1>7, SplitIs

\* The blanks that trim takes off the line are part of no argument, whatever is
\* typed (submit_input, split_command_line).
THEOREM TrimmingHarmless == Spec => []TrimIsHarmless
<1>1. Inv => TrimIsHarmless
  BY TrimmedSplit DEF Inv, Typed, TrimIsHarmless
<1> QED BY <1>1, Invariance, PTL

-----------------------------------------------------------------------------
(***************************************************************************)
(* Arguments spelled out in quotes.                                        *)
(***************************************************************************)

\* The loop over pieces goes through the states between them.
Threads(s, pieces) == \A n \in 1 .. Len(pieces) : ScanFrom(s[n - 1], pieces[n]) = s[n]

LEMMA Threaded ==
  ASSUME NEW pieces \in Seq(Bytes), NEW s \in [0 .. Len(pieces) -> Scans],
         Threads(s, pieces)
  PROVE  FlattenSeq(pieces) \in Bytes /\ ScanFrom(s[0], FlattenSeq(pieces)) = s[Len(pieces)]
<1> DEFINE N == Len(pieces)
<1>1. N \in Nat /\ \A i \in 1 .. N : pieces[i] \in Bytes
  BY ElementOfSeq
<1>2. PICK g \in [0 .. N -> Bytes] : Gathers(g, pieces) /\ FlattenSeq(pieces) = g[N]
  BY Flattened
<1>3. g[0] = << >> /\ \A n \in 1 .. N : g[n] = g[n - 1] \o pieces[n]
  BY <1>2 DEF Gathers
<1>4. s[0] \in Scans /\ N \in 0 .. N
  BY <1>1
<1> DEFINE S == {n \in 0 .. N : ScanFrom(s[0], g[n]) = s[n]}
<1>5. 0 \in S
  <2>1. ScanFrom(s[0], << >>) = s[0]
    BY <1>4, ScanNone
  <2> QED BY <1>1, <1>3, <2>1
<1>6. ASSUME NEW n \in 0 .. N, n \in S, n < N PROVE n + 1 \in S
  <2>1. n + 1 \in 1 .. N /\ n + 1 - 1 = n /\ n + 1 \in 0 .. N
    BY <1>1, <1>6
  <2>2. g[n] \in Bytes /\ pieces[n + 1] \in Bytes /\ g[n + 1] = g[n] \o pieces[n + 1]
    <3>1. PICK m : m = n + 1
      OBVIOUS
    <3>2. m \in 1 .. N /\ m - 1 = n
      BY <1>1, <2>1, <3>1
    <3>3. g[m] = g[m - 1] \o pieces[m]
      BY <1>3, <3>2
    <3> QED BY <1>1, <2>1, <3>1, <3>2, <3>3
  <2>3. ScanFrom(s[0], g[n + 1]) = ScanFrom(ScanFrom(s[0], g[n]), pieces[n + 1])
    BY <1>4, <2>2, ScanJoined
  <2>4. ScanFrom(s[0], g[n]) = s[n] /\ ScanFrom(s[n], pieces[n + 1]) = s[n + 1]
    BY <1>6, <2>1 DEF Threads
  <2> QED BY <2>1, <2>3, <2>4
<1>7. \A n \in 0 .. N : n \in S
  <2> HIDE DEF S, N
  <2> QED BY <1>1, <1>5, <1>6, UpTo
<1>8. N \in S
  BY <1>4, <1>7
<1>9. g[N] \in Bytes
  BY <1>4
<1> QED BY <1>2, <1>8, <1>9

\* The first n elements, and one more.
LEMMA FirstOnes ==
  ASSUME NEW A, NEW s \in Seq(A)
  PROVE  /\ SubSeq(s, 1, 0) = << >> /\ SubSeq(s, 1, Len(s)) = s
         /\ \A n \in 0 .. Len(s) : SubSeq(s, 1, n) \in Seq(A)
         /\ \A n \in 1 .. Len(s) : Append(SubSeq(s, 1, n - 1), s[n]) = SubSeq(s, 1, n)
<1>1. Len(s) \in Nat /\ \A i \in 1 .. Len(s) : s[i] \in A
  BY ElementOfSeq
<1>2. \A n \in 0 .. Len(s) :
        /\ SubSeq(s, 1, n) \in Seq(A) /\ Len(SubSeq(s, 1, n)) = n
        /\ \A i \in 1 .. n : SubSeq(s, 1, n)[i] = s[i]
  BY <1>1
<1>3. SubSeq(s, 1, Len(s)) = s
  <2>1. PICK all : all = SubSeq(s, 1, Len(s))
    OBVIOUS
  <2>2. Len(s) \in 0 .. Len(s)
    BY <1>1
  <2>3. all \in Seq(A) /\ Len(all) = Len(s) /\ \A i \in 1 .. Len(s) : all[i] = s[i]
    BY <1>2, <2>1, <2>2
  <2> QED BY <2>1, <2>3, SeqEqual
<1>4. SubSeq(s, 1, 0) = << >>
  BY <1>1
<1>5. ASSUME NEW n \in 1 .. Len(s) PROVE Append(SubSeq(s, 1, n - 1), s[n]) = SubSeq(s, 1, n)
  <2>1. PICK a, b, c : a = SubSeq(s, 1, n - 1) /\ b = SubSeq(s, 1, n) /\ c = Append(a, s[n])
    OBVIOUS
  <2>2. n - 1 \in 0 .. Len(s) /\ n \in 0 .. Len(s) /\ n \in Nat
    BY <1>1
  <2>3. a \in Seq(A) /\ Len(a) = n - 1 /\ \A i \in 1 .. n - 1 : a[i] = s[i]
    BY <1>2, <2>1, <2>2
  <2>4. b \in Seq(A) /\ Len(b) = n /\ \A i \in 1 .. n : b[i] = s[i]
    BY <1>2, <2>1, <2>2
  <2>5. /\ c \in Seq(A) /\ Len(c) = (n - 1) + 1
        /\ \A i \in 1 .. n - 1 : c[i] = a[i]
        /\ c[(n - 1) + 1] = s[n]
    BY <1>1, <2>1, <2>3, AppendProperties
  <2>6. Len(c) = n /\ c[n] = s[n]
    BY <2>2, <2>5
  <2>7. \A i \in 1 .. n : i \in 1 .. n - 1 \/ i = n
    BY <2>2
  <2>8. \A i \in 1 .. n : c[i] = b[i]
    BY <2>3, <2>4, <2>5, <2>6, <2>7
  <2> QED BY <2>1, <2>4, <2>5, <2>6, <2>8, SeqEqual
<1> QED BY <1>2, <1>3, <1>4, <1>5

LEMMA PairListed ==
  ASSUME NEW a, NEW b
  PROVE  <<a>> \o <<b>> = <<a, b>>
<1>1. PICK S, x, y, z : S = {a, b} /\ x = <<a>> /\ y = <<b>> /\ z = <<a, b>>
  OBVIOUS
<1>2. /\ x \in Seq(S) /\ Len(x) = 1 /\ x[1] = a
      /\ y \in Seq(S) /\ Len(y) = 1 /\ y[1] = b
      /\ z \in Seq(S) /\ Len(z) = 2 /\ z[1] = a /\ z[2] = b
  BY <1>1
<1>3. /\ x \o y \in Seq(S) /\ Len(x \o y) = 2
      /\ \A i \in 1 .. 2 : (x \o y)[i] = IF i <= 1 THEN x[i] ELSE y[i - 1]
  <2>1. /\ x \o y \in Seq(S) /\ Len(x \o y) = Len(x) + Len(y)
        /\ \A i \in 1 .. Len(x) + Len(y) : (x \o y)[i] = IF i <= Len(x) THEN x[i] ELSE y[i - Len(x)]
    BY <1>2, ConcatProperties
  <2>2. Len(x) + Len(y) = 2 /\ Len(x) = 1
    BY <1>2
  <2> QED BY <2>1, <2>2
<1>4. \A i \in 1 .. 2 : i = 1 \/ i = 2
  OBVIOUS
<1>5. \A i \in 1 .. 2 : (x \o y)[i] = z[i]
  BY <1>2, <1>3, <1>4
<1> QED BY <1>1, <1>2, <1>3, <1>5, SeqEqual

\* A character, as it is spelled in quotes.
Spelled(ch, quote) == IF ch \in {"\\", quote} THEN <<"\\", ch>> ELSE <<ch>>

LEMMA SpelledRead ==
  ASSUME NEW tokens \in Seq(Bytes), NEW current \in Bytes, NEW quote \in Quotes, NEW ch \in Byte
  PROVE  /\ Spelled(ch, quote) \in Bytes
         /\ ScanFrom(StateOf(tokens, current, quote, FALSE, TRUE), Spelled(ch, quote)) =
              StateOf(tokens, Append(current, ch), quote, FALSE, TRUE)
<1>1. PICK open, escape, next :
        /\ open = StateOf(tokens, current, quote, FALSE, TRUE)
        /\ escape = StateOf(tokens, current, quote, TRUE, TRUE)
        /\ next = StateOf(tokens, Append(current, ch), quote, FALSE, TRUE)
  OBVIOUS
<1>2. open \in Scans /\ escape \in Scans
  BY <1>1 DEF StateOf, Scans
<1>3. PICK backslash : backslash = "\\"
  OBVIOUS
<1>4. backslash \in Byte
  BY <1>3, SpecialChars
<1>5. CASE ch \in {"\\", quote}
  <2>1. PICK a, b : a = <<backslash>> /\ b = <<ch>>
    OBVIOUS
  <2>2. ScanFrom(open, a) = escape /\ a \in Bytes
    <3>1. ScanFrom(open, a) = ScanChar(open, backslash) /\ a \in Bytes
      BY <1>2, <1>4, <2>1, ScanOne
    <3>2. ScanChar(open, backslash) = escape
      BY <1>1, <1>3, <1>4, Reads
    <3> QED BY <3>1, <3>2
  <2>3. ScanFrom(escape, b) = next /\ b \in Bytes
    <3>1. ScanFrom(escape, b) = ScanChar(escape, ch) /\ b \in Bytes
      BY <1>2, <2>1, ScanOne
    <3>2. ScanChar(escape, ch) = next
      BY <1>1, Reads
    <3> QED BY <3>1, <3>2
  <2>4. a \o b = Spelled(ch, quote)
    BY <1>3, <1>5, <2>1, PairListed DEF Spelled
  <2>5. a \o b \in Bytes
    BY <2>2, <2>3, Joined
  <2>6. ScanFrom(open, a \o b) = ScanFrom(ScanFrom(open, a), b)
    BY <1>2, <2>2, <2>3, ScanJoined
  <2> QED BY <1>1, <2>2, <2>3, <2>4, <2>5, <2>6
<1>6. CASE ch \notin {"\\", quote}
  <2>1. Spelled(ch, quote) = <<ch>>
    BY <1>6 DEF Spelled
  <2>2. ScanFrom(open, <<ch>>) = ScanChar(open, ch) /\ <<ch>> \in Bytes
    BY <1>2, ScanOne
  <2>3. ScanChar(open, ch) = next
    BY <1>1, <1>6, Reads
  <2> QED BY <1>1, <2>1, <2>2, <2>3
<1> QED BY <1>5, <1>6

\* An argument in quotes, with the blanks around it.
Spelling(arg, quote) == [i \in 1 .. Len(arg) |-> Spelled(arg[i], quote)]
Word(arg, quote) == <<" ">> \o Quoted(arg, quote) \o <<" ">>

LEMMA QuotedIs ==
  \A arg, quote : Quoted(arg, quote) = (<<quote>> \o FlattenSeq(Spelling(arg, quote))) \o <<quote>>
BY Zenon DEF Quoted, Spelling, Spelled

\* The spelling of an argument is read as its characters.
LEMMA SpellingRead ==
  ASSUME NEW tokens \in Seq(Bytes), NEW arg \in Bytes, NEW quote \in Quotes
  PROVE  /\ FlattenSeq(Spelling(arg, quote)) \in Bytes
         /\ ScanFrom(StateOf(tokens, << >>, quote, FALSE, TRUE), FlattenSeq(Spelling(arg, quote))) =
              StateOf(tokens, arg, quote, FALSE, TRUE)
<1> DEFINE N == Len(arg)
           first(n) == SubSeq(arg, 1, n)
           s == [n \in 0 .. N |-> StateOf(tokens, first(n), quote, FALSE, TRUE)]
<1>1. PICK pieces : pieces = Spelling(arg, quote)
  OBVIOUS
<1>2. N \in Nat /\ \A n \in 1 .. N : arg[n] \in Byte
  BY DEF Bytes
<1>3. /\ first(0) = << >> /\ first(N) = arg
      /\ \A n \in 0 .. N : first(n) \in Bytes
      /\ \A n \in 1 .. N : Append(first(n - 1), arg[n]) = first(n)
  BY FirstOnes DEF Bytes
<1> HIDE DEF first
<1>4. Len(pieces) = N /\ pieces \in Seq(Bytes) /\ \A n \in 1 .. N : pieces[n] = Spelled(arg[n], quote)
  <2>1. \A n \in 1 .. N : Spelled(arg[n], quote) \in Bytes
    BY <1>2, <1>3, SpelledRead
  <2> QED BY <1>1, <1>2, <2>1 DEF Spelling
<1>5. s \in [0 .. N -> Scans]
  <2>1. \A n \in 0 .. N : StateOf(tokens, first(n), quote, FALSE, TRUE) \in Scans
    BY <1>3 DEF StateOf, Scans
  <2> QED BY <2>1
<1>6. \A n \in 0 .. N : s[n] = StateOf(tokens, first(n), quote, FALSE, TRUE)
  OBVIOUS
<1>7. ASSUME NEW n \in 1 .. N PROVE ScanFrom(s[n - 1], pieces[n]) = s[n]
  <2>1. n - 1 \in 0 .. N /\ n \in 0 .. N
    BY <1>2
  <2>2. PICK current : current = first(n - 1)
    OBVIOUS
  <2>3. current \in Bytes /\ Append(current, arg[n]) = first(n) /\ arg[n] \in Byte
    BY <1>2, <1>3, <2>1, <2>2
  <2>4. ScanFrom(StateOf(tokens, current, quote, FALSE, TRUE), Spelled(arg[n], quote)) =
          StateOf(tokens, Append(current, arg[n]), quote, FALSE, TRUE)
    BY <2>3, SpelledRead
  <2>5. s[n - 1] = StateOf(tokens, current, quote, FALSE, TRUE)
    BY <1>6, <2>1, <2>2
  <2>6. s[n] = StateOf(tokens, Append(current, arg[n]), quote, FALSE, TRUE)
    BY <1>6, <2>1, <2>3
  <2> HIDE DEF s
  <2> QED BY <1>4, <2>4, <2>5, <2>6
<1>8. s[0] = StateOf(tokens, << >>, quote, FALSE, TRUE) /\ s[N] = StateOf(tokens, arg, quote, FALSE, TRUE)
  <2>1. 0 \in 0 .. N /\ N \in 0 .. N
    BY <1>2
  <2> QED BY <1>3, <1>6, <2>1
<1> HIDE DEF s
<1>9. FlattenSeq(pieces) \in Bytes /\ ScanFrom(s[0], FlattenSeq(pieces)) = s[N]
  <2>1. Threads(s, pieces)
    BY <1>4, <1>7 DEF Threads
  <2> QED BY <1>4, <1>5, <2>1, Threaded
<1> QED BY <1>1, <1>8, <1>9

\* An argument in quotes is read as one word.
LEMMA WordRead ==
  ASSUME NEW tokens \in Seq(Bytes), NEW arg \in Bytes, NEW quote \in Quotes
  PROVE  /\ Word(arg, quote) \in Bytes
         /\ ScanFrom(StateOf(tokens, << >>, "none", FALSE, FALSE), Word(arg, quote)) =
              StateOf(Append(tokens, arg), << >>, "none", FALSE, FALSE)
         /\ \E front \in Bytes : Word(arg, quote) = front \o (<<quote>> \o <<" ">>)
<1>1. PICK blank, q, text :
        blank = <<" ">> /\ q = <<quote>> /\ text = FlattenSeq(Spelling(arg, quote))
  OBVIOUS
<1>2. PICK idle, open, filled, closed, done :
        /\ idle = StateOf(tokens, << >>, "none", FALSE, FALSE)
        /\ open = StateOf(tokens, << >>, quote, FALSE, TRUE)
        /\ filled = StateOf(tokens, arg, quote, FALSE, TRUE)
        /\ closed = StateOf(tokens, arg, "none", FALSE, TRUE)
        /\ done = StateOf(Append(tokens, arg), << >>, "none", FALSE, FALSE)
  OBVIOUS
<1>3. << >> \in Bytes /\ quote \in Byte /\ " " \in Byte
  <2>1. << >> \in Bytes
    BY DEF Bytes
  <2> QED BY <2>1, SpecialChars
<1>4. idle \in Scans /\ open \in Scans /\ filled \in Scans /\ closed \in Scans
  BY <1>2, <1>3 DEF StateOf, Scans
<1>5. text \in Bytes /\ ScanFrom(open, text) = filled
  BY <1>1, <1>2, SpellingRead
<1>6. blank \in Bytes /\ ScanFrom(idle, blank) = idle /\ ScanFrom(closed, blank) = done
  <2>1. ScanFrom(idle, blank) = ScanChar(idle, " ") /\ ScanFrom(closed, blank) = ScanChar(closed, " ") /\ blank \in Bytes
    BY <1>1, <1>3, <1>4, ScanOne
  <2>2. ScanChar(idle, " ") = idle
    BY <1>2, <1>3, Reads
  <2>3. ScanChar(closed, " ") = done
    BY <1>2, <1>3, Reads
  <2> QED BY <2>1, <2>2, <2>3
<1>7. q \in Bytes /\ ScanFrom(idle, q) = open /\ ScanFrom(filled, q) = closed
  <2>1. ScanFrom(idle, q) = ScanChar(idle, quote) /\ ScanFrom(filled, q) = ScanChar(filled, quote) /\ q \in Bytes
    BY <1>1, <1>3, <1>4, ScanOne
  <2>2. ScanChar(idle, quote) = open
    BY <1>2, <1>3, Reads
  <2>3. ScanChar(filled, quote) = closed
    BY <1>2, <1>3, Reads
  <2> QED BY <2>1, <2>2, <2>3
<1>8. PICK head, quoted, most : head = q \o text /\ quoted = head \o q /\ most = blank \o quoted
  OBVIOUS
<1>9. head \in Bytes /\ ScanFrom(idle, head) = filled
  <2>1. ScanFrom(idle, head) = ScanFrom(ScanFrom(idle, q), text)
    BY <1>4, <1>5, <1>7, <1>8, ScanJoined
  <2> QED BY <1>5, <1>7, <1>8, <2>1, Joined
<1>10. quoted \in Bytes /\ ScanFrom(idle, quoted) = closed
  <2>1. ScanFrom(idle, quoted) = ScanFrom(ScanFrom(idle, head), q)
    BY <1>4, <1>7, <1>8, <1>9, ScanJoined
  <2> QED BY <1>7, <1>8, <1>9, <2>1, Joined
<1>11. most \in Bytes /\ ScanFrom(idle, most) = closed
  <2>1. ScanFrom(idle, most) = ScanFrom(ScanFrom(idle, blank), quoted)
    BY <1>4, <1>6, <1>8, <1>10, ScanJoined
  <2> QED BY <1>6, <1>8, <1>10, <2>1, Joined
<1>12. most \o blank \in Bytes /\ ScanFrom(idle, most \o blank) = done
  <2>1. ScanFrom(idle, most \o blank) = ScanFrom(ScanFrom(idle, most), blank)
    BY <1>4, <1>6, <1>11, ScanJoined
  <2> QED BY <1>6, <1>11, <2>1, Joined
<1>13. Word(arg, quote) = most \o blank
  <2>1. Quoted(arg, quote) = quoted
    BY <1>1, <1>8, QuotedIs
  <2> QED BY <1>1, <1>8, <2>1 DEF Word
<1>14. \E front \in Bytes : most \o blank = front \o (q \o blank)
  <2>1. blank \o head \in Bytes
    BY <1>6, <1>9, Joined
  <2>2. (blank \o head) \o q = most
    BY <1>6, <1>7, <1>8, <1>9, JoinedThree
  <2>3. ((blank \o head) \o q) \o blank = (blank \o head) \o (q \o blank)
    BY <1>6, <1>7, <2>1, JoinedThree
  <2> QED BY <2>1, <2>2, <2>3
<1> QED BY <1>1, <1>2, <1>12, <1>13, <1>14

\* A line that spells the arguments out.
InWords(tokens, quote) == [i \in 1 .. Len(tokens) |-> Word(tokens[i], quote)]

LEMMA SpelledOut ==
  ASSUME NEW tokens \in Seq(Bytes), NEW quote \in Quotes
  PROVE  /\ FlattenSeq(InWords(tokens, quote)) \in Bytes
         /\ Scan(FlattenSeq(InWords(tokens, quote))) = StateOf(tokens, << >>, "none", FALSE, FALSE)
         /\ \/ FlattenSeq(InWords(tokens, quote)) = << >>
            \/ \E front \in Bytes : FlattenSeq(InWords(tokens, quote)) = front \o (<<quote>> \o <<" ">>)
<1> DEFINE N == Len(tokens)
           first(n) == SubSeq(tokens, 1, n)
           s == [n \in 0 .. N |-> StateOf(first(n), << >>, "none", FALSE, FALSE)]
<1>1. PICK pieces : pieces = InWords(tokens, quote)
  OBVIOUS
<1>2. N \in Nat /\ \A n \in 1 .. N : tokens[n] \in Bytes
  BY ElementOfSeq
<1>3. /\ first(0) = << >> /\ first(N) = tokens
      /\ \A n \in 0 .. N : first(n) \in Seq(Bytes)
      /\ \A n \in 1 .. N : Append(first(n - 1), tokens[n]) = first(n)
  BY FirstOnes
<1> HIDE DEF first
<1>4. Len(pieces) = N /\ pieces \in Seq(Bytes) /\ \A n \in 1 .. N : pieces[n] = Word(tokens[n], quote)
  <2>1. \A n \in 1 .. N : Word(tokens[n], quote) \in Bytes
    BY <1>2, WordRead
  <2> QED BY <1>1, <1>2, <2>1 DEF InWords
<1>5. s \in [0 .. N -> Scans]
  <2>1. << >> \in Bytes
    BY DEF Bytes
  <2>2. \A n \in 0 .. N : StateOf(first(n), << >>, "none", FALSE, FALSE) \in Scans
    BY <1>3, <2>1 DEF StateOf, Scans
  <2> QED BY <2>2
<1>6. \A n \in 0 .. N : s[n] = StateOf(first(n), << >>, "none", FALSE, FALSE)
  OBVIOUS
<1>7. ASSUME NEW n \in 1 .. N PROVE ScanFrom(s[n - 1], pieces[n]) = s[n]
  <2>1. n - 1 \in 0 .. N /\ n \in 0 .. N
    BY <1>2
  <2>2. PICK some : some = first(n - 1)
    OBVIOUS
  <2>3. some \in Seq(Bytes) /\ Append(some, tokens[n]) = first(n) /\ tokens[n] \in Bytes
    BY <1>2, <1>3, <2>1, <2>2
  <2>4. ScanFrom(StateOf(some, << >>, "none", FALSE, FALSE), Word(tokens[n], quote)) =
          StateOf(Append(some, tokens[n]), << >>, "none", FALSE, FALSE)
    BY <2>3, WordRead
  <2>5. s[n - 1] = StateOf(some, << >>, "none", FALSE, FALSE)
    BY <1>6, <2>1, <2>2
  <2>6. s[n] = StateOf(Append(some, tokens[n]), << >>, "none", FALSE, FALSE)
    BY <1>6, <2>1, <2>3
  <2> HIDE DEF s
  <2> QED BY <1>4, <2>4, <2>5, <2>6
<1>8. s[0] = Unread /\ s[N] = StateOf(tokens, << >>, "none", FALSE, FALSE)
  <2>1. 0 \in 0 .. N /\ N \in 0 .. N
    BY <1>2
  <2> QED BY <1>3, <1>6, <2>1 DEF Unread, StateOf
<1> HIDE DEF s
<1>9. FlattenSeq(pieces) \in Bytes /\ ScanFrom(s[0], FlattenSeq(pieces)) = s[N]
  <2>1. Threads(s, pieces)
    BY <1>4, <1>7 DEF Threads
  <2> QED BY <1>4, <1>5, <2>1, Threaded
<1>10. \/ FlattenSeq(pieces) = << >>
       \/ \E front \in Bytes : FlattenSeq(pieces) = front \o (<<quote>> \o <<" ">>)
  <2>1. PICK g \in [0 .. Len(pieces) -> Bytes] : Gathers(g, pieces) /\ FlattenSeq(pieces) = g[Len(pieces)]
    BY <1>4, Flattened
  <2>2. CASE N = 0
    BY <1>4, <2>1, <2>2 DEF Gathers
  <2>3. CASE N # 0
    <3>1. N \in 1 .. N /\ N - 1 \in 0 .. N
      BY <1>2, <2>3
    <3>2. g[N - 1] \in Bytes /\ FlattenSeq(pieces) = g[N - 1] \o Word(tokens[N], quote)
      BY <1>4, <2>1, <3>1 DEF Gathers
    <3>3. PICK rest \in Bytes : Word(tokens[N], quote) = rest \o (<<quote>> \o <<" ">>)
      BY <1>2, <3>1, WordRead
    <3>4. PICK end : end = <<quote>> \o <<" ">>
      OBVIOUS
    <3>5. end \in Bytes
      <4>1. <<quote>> \in Bytes /\ <<" ">> \in Bytes
        BY UnreadTyped, SpecialChars, ScanOne
      <4> QED BY <3>4, <4>1, Joined
    <3>6. g[N - 1] \o rest \in Bytes /\ (g[N - 1] \o rest) \o end = g[N - 1] \o (rest \o end)
      <4>1. PICK x : x = g[N - 1]
        OBVIOUS
      <4>2. x \in Bytes
        BY <3>2, <4>1
      <4>3. x \o rest \in Bytes
        BY <4>2, Joined
      <4>4. (x \o rest) \o end = x \o (rest \o end)
        BY <3>5, <4>2, JoinedThree
      <4> QED BY <4>1, <4>3, <4>4
    <3> QED BY <3>2, <3>3, <3>4, <3>6
  <2> QED BY <2>2, <2>3
<1> QED BY <1>1, <1>8, <1>9, <1>10 DEF Scan

IsBlank(ch) == ch = " "

LEMMA TextAtIs == \A line : TextAt(line) = {i \in 1 .. Len(line) : ~IsBlank(line[i])}
BY Zenon DEF TextAt, IsBlank

\* What is no blank at the end of the line is left there.
LEMMA TrimmedEnd ==
  ASSUME NEW front \in Bytes, NEW ch \in Byte, ~IsBlank(ch), NEW blank \in Byte, IsBlank(blank)
  PROVE  \E rest \in Bytes : Trim(front \o (<<ch>> \o <<blank>>)) = rest \o <<ch>>
<1>1. PICK end, line, m : end = <<ch, blank>> /\ line = front \o end /\ m = Len(front) + 1
  OBVIOUS
<1>2. end \in Bytes /\ Len(end) = 2 /\ end[1] = ch /\ end[2] = blank
  BY <1>1 DEF Bytes
<1>3. line \in Bytes /\ Len(line) = m + 1 /\ m \in Nat /\ m >= 1 /\ Len(front) = m - 1
  <2>1. line \in Bytes /\ Len(line) = Len(front) + Len(end) /\ Len(front) \in Nat
    BY <1>1, <1>2, Joined
  <2> QED BY <1>1, <1>2, <2>1
<1>4. line[m] = ch /\ line[m + 1] = blank
  <2>1. \A i \in 1 .. Len(front) + Len(end) : line[i] = IF i <= Len(front) THEN front[i] ELSE end[i - Len(front)]
    BY <1>1, <1>2, ConcatProperties DEF Bytes
  <2>2. /\ m \in 1 .. Len(front) + Len(end) /\ ~(m <= Len(front)) /\ m - Len(front) = 1
        /\ m + 1 \in 1 .. Len(front) + Len(end) /\ ~(m + 1 <= Len(front)) /\ (m + 1) - Len(front) = 2
    BY <1>2, <1>3
  <2>3. line[m] = end[1]
    BY <2>1, <2>2
  <2>4. line[m + 1] = end[2]
    BY <2>1, <2>2
  <2> QED BY <1>2, <2>3, <2>4
<1>5. PICK text : text = TextAt(line)
  OBVIOUS
<1>6. m \in text /\ text \subseteq 1 .. m
  <2>1. m \in text
    BY <1>3, <1>4, <1>5, TextAtIs
  <2>2. ASSUME NEW i \in text PROVE i \in 1 .. m
    <3>1. i \in 1 .. m + 1 /\ ~IsBlank(line[i])
      BY <1>3, <1>5, TextAtIs
    <3>2. i # m + 1
      BY <1>4, <3>1
    <3> QED BY <1>3, <3>1, <3>2
  <2> QED BY <2>1, <2>2
<1>7. LastOf(text) = m
  <2>1. \A i \in text : m >= i
    BY <1>3, <1>6
  <2>2. ASSUME NEW i \in text, \A j \in text : i >= j PROVE i = m
    <3>1. i >= m /\ m >= i /\ i \in Int /\ m \in Int
      BY <1>3, <1>6, <2>1, <2>2
    <3> QED BY <3>1
  <2> QED BY <1>6, <2>1, <2>2 DEF LastOf
<1>8. FirstOf(text) \in 1 .. m
  <2>1. text \subseteq Nat /\ text # {}
    BY <1>3, <1>6
  <2>2. \E i \in text : \A j \in text : i <= j
    BY <2>1, LeastNumber
  <2>3. FirstOf(text) \in text
    BY <2>2 DEF FirstOf
  <2> QED BY <1>6, <2>3
<1>9. PICK lo, t : lo = FirstOf(text) /\ t = SubSeq(line, lo, m)
  OBVIOUS
<1>10. Trim(line) = t
  <2>1. text # {}
    BY <1>6
  <2> QED BY <1>5, <1>7, <1>9, <2>1, TrimDef
<1>11. t \in Bytes /\ Len(t) = m - lo + 1 /\ t[m - lo + 1] = ch /\ m - lo \in Nat
  <2>1. lo \in 1 .. m
    BY <1>8, <1>9
  <2>2. t \in Bytes /\ Len(t) = m - lo + 1 /\ \A i \in 1 .. m - lo + 1 : t[i] = line[lo + i - 1]
    BY <1>3, <1>9, <2>1 DEF Bytes
  <2>3. m - lo + 1 \in 1 .. m - lo + 1 /\ lo + (m - lo + 1) - 1 = m
    BY <1>3, <2>1
  <2>4. t[m - lo + 1] = line[m]
    BY <2>2, <2>3
  <2> QED BY <1>3, <1>4, <2>1, <2>2, <2>4
<1>12. PICK k : k = m - lo
  OBVIOUS
<1>13. k \in 0 .. Len(t) /\ Len(t) = k + 1 /\ t[k + 1] = ch
  BY <1>11, <1>12
<1>14. PICK last : last = SubSeq(t, k + 1, Len(t))
  OBVIOUS
<1>15. SubSeq(t, 1, k) \in Bytes /\ SubSeq(t, 1, k) \o last = t
  BY <1>11, <1>13, <1>14, CutAnywhere
<1>16. last = <<ch>>
  <2>1. last \in Bytes /\ Len(last) = 1 /\ last[1] = ch
    BY <1>11, <1>13, <1>14 DEF Bytes
  <2>2. PICK one : one = <<ch>>
    OBVIOUS
  <2>3. one \in Bytes /\ Len(one) = 1 /\ one[1] = ch
    BY <2>2 DEF Bytes
  <2>4. \A i \in 1 .. 1 : last[i] = one[i]
    BY <2>1, <2>3
  <2> QED BY <2>1, <2>2, <2>3, <2>4, SeqEqual DEF Bytes
<1>17. <<ch>> \o <<blank>> = end
  BY <1>1, PairListed
<1> QED BY <1>1, <1>10, <1>15, <1>16, <1>17

\* A quote at the end of the line escapes nothing.
LEMMA NotEscaped ==
  ASSUME NEW rest \in Bytes, NEW quote \in Quotes
  PROVE  ~Scan(rest \o <<quote>>).escaped
<1>1. PICK scan, one : scan = ScanFrom(Unread, rest) /\ one = <<quote>>
  OBVIOUS
<1>2. scan \in Scans /\ quote \in Byte
  BY <1>1, ScanTyped, UnreadTyped, SpecialChars
<1>3. Scan(rest \o one) = ScanChar(scan, quote)
  <2>1. one \in Bytes /\ ScanFrom(scan, one) = ScanChar(scan, quote)
    BY <1>1, <1>2, ScanOne
  <2>2. ScanFrom(Unread, rest \o one) = ScanFrom(scan, one)
    BY <1>1, <2>1, ScanJoined, UnreadTyped
  <2> QED BY <2>1, <2>2 DEF Scan
<1>4. Role(scan, quote) \in {"text", "open", "close"}
  <2>1. quote # "\\" /\ quote # " " /\ IsQuote(quote)
    BY DEF Quotes, IsQuote
  <2>2. scan.escaped \in BOOLEAN
    BY <1>2 DEF Scans
  <2> QED BY <2>1, <2>2 DEF Role
<1>5. ~ScanChar(scan, quote).escaped
  BY <1>2, <1>4 DEF ScanChar, Scans
<1> QED BY <1>1, <1>3, <1>5

\* The words that are spelled out are the arguments.
LEMMA QuotedSent ==
  ASSUME NEW tokens \in Seq(Bytes), NEW quote \in Quotes
  PROVE  Split(Trim(FlattenSeq(InWords(tokens, quote)))) = Tokens(tokens)
<1>1. PICK line : line = FlattenSeq(InWords(tokens, quote))
  OBVIOUS
<1>2. line \in Bytes /\ Scan(line) = StateOf(tokens, << >>, "none", FALSE, FALSE)
  BY <1>1, SpelledOut
<1>3. Split(line) = Tokens(tokens)
  <2>1. ~Scan(line).escaped
    BY <1>2 DEF StateOf
  <2>2. Split(line) = Outcome(StateOf(tokens, << >>, "none", FALSE, FALSE))
    BY <1>2, <2>1, SplitIs
  <2> QED BY <2>2 DEF Outcome, StateOf
<1>4. ~Scan(Trim(line)).escaped
  <2>1. CASE line = << >>
    <3>1. Trim(line) = << >>
      <4>1. TextAt(line) = {}
        BY <2>1 DEF TextAt
      <4> QED BY <4>1, TrimDef
    <3> QED BY <1>2, <2>1, <3>1 DEF StateOf
  <2>2. CASE \E front \in Bytes : line = front \o (<<quote>> \o <<" ">>)
    <3>1. quote \in Byte /\ quote # " "
      <4>1. quote # " "
        BY DEF Quotes
      <4> QED BY <4>1, SpecialChars
    <3>2. PICK rest \in Bytes : Trim(line) = rest \o <<quote>>
      <4>1. PICK blank : blank = " "
        OBVIOUS
      <4>2. IsBlank(blank) /\ ~IsBlank(quote) /\ blank \in Byte
        BY <3>1, <4>1, SpecialChars DEF IsBlank
      <4>3. PICK front \in Bytes : line = front \o (<<quote>> \o <<blank>>)
        BY <2>2, <4>1
      <4> QED BY <3>1, <4>2, <4>3, TrimmedEnd
    <3> QED BY <3>2, NotEscaped
  <2> QED BY <1>1, <2>1, <2>2, SpelledOut
<1> QED BY <1>1, <1>2, <1>3, <1>4, TrimmedSplit

\* Whatever arguments the shell can send, it sends the same when they are
\* spelled out in quotes of either kind (split_command_line).
THEOREM QuotingFaithful == Spec => []QuotingSendsTheSame
<1>1. Inv => QuotingSendsTheSame
  <2> SUFFICES ASSUME Inv PROVE QuotingSendsTheSame
    OBVIOUS
  <2>1. input \in Bytes
    BY DEF Inv, Typed
  <2>2. Trim(input) \in Bytes
    BY <2>1, TrimIs
  <2>3. CASE Split(Trim(input)) = OpenQuote
    BY <2>3 DEF QuotingSendsTheSame
  <2>4. CASE Split(Trim(input)) # OpenQuote
    <3>1. PICK tokens \in Seq(Bytes) : Split(Trim(input)) = Tokens(tokens)
      BY <2>2, <2>4, SplitTyped
    <3>2. Split(Trim(input)).tokens = tokens
      BY <3>1, TokensDiffer
    <3>3. \A quote \in {"\"", "'"} : Split(Trim(FlattenSeq(InWords(tokens, quote)))) = Tokens(tokens)
      BY QuotedSent DEF Quotes
    <3> QED BY <3>2, <3>3, Zenon DEF QuotingSendsTheSame, InWords, Word
  <2> QED BY <2>3, <2>4
<1> QED BY <1>1, Invariance, PTL
=============================================================================
