---------------------------- MODULE MCConnection ----------------------------
(***************************************************************************)
(* One client with requests of every kind of frame, whole and malformed.   *)
(***************************************************************************)
EXTENDS Connection, TLC

Line(text) == <<"+">> \o text \o CRLF

\* A bulk string of fewer than ten bytes.
Bulk(bytes) == <<"$", Digits[Len(bytes) + 1]>> \o CRLF \o bytes \o CRLF
ArrayOf(count, items) == <<"*", count>> \o CRLF \o items

\* PING as an array, as a line in upper case, with an argument too many, with
\* a line end after it; GET, TTL, KEYS, SET; frames that are no command; a command whose name
\* holds a line end; a request of more than MaxFrameSize bytes.
AllRequests ==
  {ArrayOf("1", Bulk(<<"p">>)), Line(<<"P">>), Line(<<"p", " ", "q">>),
   Bulk(<<"p">> \o CRLF), Bulk(<<"g", " ", "q">>), Line(<<"t", " ", "q">>),
   Line(<<"s", " ", "q", " ", "q">>),
   Line(<<"k">>), Line(<<"k", " ", "*">>), Bulk(<<"FF">>), Line(<< >>),
   <<"$", "-", "1">> \o CRLF, <<":", "-", "1", "0">> \o CRLF,
   ArrayOf("0", << >>), ArrayOf("1", <<":", "1">> \o CRLF),
   ArrayOf("1", Bulk(<<"a">> \o CRLF \o <<"b">>)),
   Line([i \in 1 .. 16 |-> "p"])}

\* No type byte; no number, no text, no length, no count; a body that is too long.
AllMalformed ==
  {<<"x">>, <<":", "q">> \o CRLF, <<"+", "FF">> \o CRLF, <<"$">> \o CRLF,
   <<"*", "-", "2">> \o CRLF, <<"$", "1">> \o CRLF \o <<"p", "p", "p">>}

ByteStrings == {CRLF}

\* The bytes of all these, and of the commands' names.
AllBytes ==
  {"CR", "LF", "FF", "+", "-", ":", "$", "*", " "} \cup {Digits[i] : i \in 1 .. 10}
    \cup {"A", "D", "E", "F", "G", "I", "K", "M", "O", "P", "R", "S", "T", "U", "X"}
    \cup {"a", "b", "g", "k", "p", "q", "s", "t", "x"}
=============================================================================
