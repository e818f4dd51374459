--------------------------- MODULE MCCommandPath ---------------------------
(***************************************************************************)
(* Lines of up to six characters; every subcommand and command, with keys *)
(* and values that are empty, hold line ends or are not UTF-8, and amounts *)
(* at and beyond the limits.                                               *)
(***************************************************************************)
EXTENDS CommandPath, TLC

AllChars == {"\\", "\"", "'", " ", "g", "q", "h"}

\* What the requests are made of: the names' letters, keys, amounts and the rest.
AllBytes ==
  AllChars \cup {"CR", "LF", "FF", "+", "-", ":", "$", "*"} \cup {Digits[i] : i \in 1 .. 10}
    \cup {"A", "D", "E", "F", "G", "I", "K", "M", "P", "R", "S", "T", "U", "X"}
    \cup {"e", "k", "u"}

Keys == {<< >>, <<"k">>, <<"k", " ">> \o CRLF}
Values == Keys \cup {<<"FF">>}
NoAmount == 0

AllSubcommands ==
  [op : {"PING", "KEYS", "FLUSHDB", "INFO"}]
    \cup [op : {"GET", "EXISTS", "TTL"}, key : Keys]
    \cup [op : {"SET"}, key : Keys, value : Keys, unit : {"none"}, amount : {NoAmount}]
    \cup [op : {"SET"}, key : Keys, value : Keys, unit : {"ex", "px"}, amount : {0, 9, 9999}]
    \cup [op : {"DEL"}, keys : {<<k>> : k \in Keys} \cup (Keys \X Keys)]
    \cup [op : {"EXPIRE"}, key : Keys, seconds : {0, 9, 9999}]

Amounts == {<<"9">>, <<"+", "9">>, <<"-", "0">>, <<"9", "9", "9", "9">>, <<"1", "0", "0", "0", "0">>,
            << >>, <<"k">>}
Names == {Name[op] : op \in DOMAIN Name} \cup {<<"g">>, <<"u">>, <<"FF">>, << >>}

\* Every name with up to two arguments, SET with its options, DEL of three keys.
AllRequests ==
  {<<n>> : n \in Names}
    \cup (Names \X (Values \cup {<<"*">>}))
    \cup (Names \X Values \X (Values \cup Amounts))
    \cup ({Name.SET} \X {<<"k">>, <<"FF">>} \X Values \X {EX, PX, PXAT, <<"e">>, <<"FF">>, <<"k">>} \X Amounts)
    \cup {<<Name.SET, <<"k">>, <<"k">>, EX>>}
    \cup ({Name.DEL} \X Values \X Values \X Values)
=============================================================================
