-------------------------------- MODULE Resp --------------------------------
(***************************************************************************)
(* The RESP subset of crates/rustkv-protocol: the parser and the encoder   *)
(* as operators on sequences of bytes.  A byte is the character it stands  *)
(* for, "CR", "LF", or "FF" for one that is not UTF-8.                     *)
(***************************************************************************)
EXTENDS Integers, Sequences, SequencesExt

CONSTANT Byte    \* what a byte can be

CRLF == <<"CR", "LF">>
Digits == <<"0", "1", "2", "3", "4", "5", "6", "7", "8", "9">>

ASSUME RespAssumption ==
  /\ {"CR", "LF", "+", "-", ":", "$", "*"} \subseteq Byte
  /\ \A i \in 1 .. 10 : Digits[i] \in Byte

\* RespFrame and RespValue.
SimpleString(text) == [type |-> "+", text |-> text]
ErrorText(text)    == [type |-> "-", text |-> text]
Integer(n)         == [type |-> ":", number |-> n]
BulkString(bytes)  == [type |-> "$", bytes |-> bytes]
Array(items)       == [type |-> "*", items |-> items]
Null               == [type |-> "null"]

\* A parser's result: the value and the position after it, or why there is none.
Parsed(value, next) == [status |-> "ok", value |-> value, next |-> next]
Incomplete          == [status |-> "incomplete"]
Invalid             == [status |-> "invalid"]

-----------------------------------------------------------------------------
IsUtf8(text) == \A i \in 1 .. Len(text) : text[i] # "FF"

Unsigned(text) == IF text # << >> /\ Head(text) \in {"+", "-"} THEN Tail(text) ELSE text

\* parse_i64, for the short texts of the model: an optional sign, then digits.
IsInteger(text) ==
  Unsigned(text) # << >> /\ \A i \in 1 .. Len(Unsigned(text)) : Contains(Digits, Unsigned(text)[i])

ToInteger(text) ==
  LET digits == Unsigned(text)
      digit(d) == (CHOOSE i \in 1 .. 10 : Digits[i] = d) - 1
      size[n \in 0 .. Len(digits)] == IF n = 0 THEN 0 ELSE 10 * size[n - 1] + digit(digits[n])
  IN  IF Head(text) = "-" THEN -size[Len(digits)] ELSE size[Len(digits)]

\* read_line: up to the first CR LF.
ReadLine(input, pos) ==
  LET ends == {e \in pos .. Len(input) - 1 : SubSeq(input, e, e + 1) = CRLF}
      end == CHOOSE e \in ends : \A f \in ends : e <= f
  IN  IF ends = {} THEN Incomplete ELSE Parsed(SubSeq(input, pos, end - 1), end + 2)

\* read_bulk_bytes: len bytes whatever they are, then CR LF.
ReadBulk(input, pos, len) ==
  LET end == pos + len
  IN  IF end + 1 > Len(input) THEN Incomplete
      ELSE IF SubSeq(input, end, end + 1) # CRLF THEN Invalid
      ELSE Parsed(SubSeq(input, pos, end - 1), end + 2)

\* The value v of a result, made into f(v).
Mapped(result, f(_)) ==
  IF result.status = "ok" THEN Parsed(f(result.value), result.next) ELSE result

\* values.push(self.parse_value()?): one element more, or why there is none.
WithItem(values, before) ==
  IF before.status # "ok" THEN before
  ELSE Mapped(values[before.next], LAMBDA v : Append(before.value, v))

\* The elements of an array; the first that fails fails the array.
ParseItems(values, pos, count) ==
  LET items[n \in 0 .. count] ==
        IF n = 0 THEN Parsed(<< >>, pos) ELSE WithItem(values, items[n - 1])
  IN  items[count]

\* What is left of a value of the type once its first line is read.
AfterLine(values, input, type, text, pos) ==
  LET len == ToInteger(text)
  IN  IF type \in {"+", "-"}
        THEN IF IsUtf8(text) THEN Parsed([type |-> type, text |-> text], pos) ELSE Invalid
      ELSE IF ~IsInteger(text) THEN Invalid
      ELSE IF type = ":" THEN Parsed(Integer(len), pos)
      ELSE IF len = -1 THEN Parsed(Null, pos)
      ELSE IF len < -1 THEN Invalid
      ELSE IF type = "$" THEN Mapped(ReadBulk(input, pos, len), BulkString)
      ELSE Mapped(ParseItems(values, pos, len), Array)

\* parse_value: a type byte, a line, and what the line announces.  An array
\* finds in values what parse_value gives from the positions behind.
ParseValue(values, input, pos) ==
  LET type == input[pos]
      line == ReadLine(input, pos + 1)
  IN  IF pos > Len(input) THEN Incomplete
      ELSE IF type \notin {"+", "-", ":", "$", "*"} THEN Invalid
      ELSE IF line.status # "ok" THEN line
      ELSE AfterLine(values, input, type, line.value, line.next)

ParseResp(input) ==
  LET values[pos \in 1 .. Len(input) + 1] == ParseValue(values, input, pos)
  IN  values[1]

-----------------------------------------------------------------------------
Decimal[n \in Nat] ==
  IF n < 10 THEN <<Digits[n + 1]>> ELSE Decimal[n \div 10] \o <<Digits[(n % 10) + 1]>>

IntegerText(n) == IF n < 0 THEN <<"-">> \o Decimal[-n] ELSE Decimal[n]

\* Mutant: a bulk string is written like a line.
EncodeItemAsLine(v) ==
  CASE v.type \in {"+", "-"} -> <<v.type>> \o v.text \o CRLF
    [] v.type = "$"          -> <<"+">> \o v.bytes \o CRLF
    [] OTHER                 -> <<"$", "-", "1">> \o CRLF

\* encode_into, for a value that is no array.
EncodeItem(v) ==
  CASE v.type \in {"+", "-"} -> <<v.type>> \o v.text \o CRLF
    [] v.type = ":"          -> <<":">> \o IntegerText(v.number) \o CRLF
    [] v.type = "$"          -> <<"$">> \o IntegerText(Len(v.bytes)) \o CRLF \o v.bytes \o CRLF
    [] v.type = "null"       -> <<"$", "-", "1">> \o CRLF

\* encode_into: the arrays that are sent, logged or answered hold no arrays.
Encode(v) ==
  IF v.type # "*" THEN EncodeItem(v)
  ELSE <<"*">> \o IntegerText(Len(v.items)) \o CRLF
         \o FlattenSeq([i \in 1 .. Len(v.items) |-> EncodeItem(v.items[i])])
=============================================================================
