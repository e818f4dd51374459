------------------------------- MODULE MCAof -------------------------------
(***************************************************************************)
(* Two clients and the rewrite worker on one log of a few frames.          *)
(***************************************************************************)
EXTENDS Aof, TLC

CONSTANTS k1, k2, v1, v2, c1, c2, rw

Request(op, keys, value, arg) == [op |-> op, keys |-> keys, value |-> value, arg |-> arg]

\* Permanent and expiring writes of one key, and the commands that remove.
AllWrites ==
  {Request("SET", <<k1>>, v1, Never), Request("SET", <<k1>>, v2, 1),
   Request("EXPIRE", <<k1>>, Absent, 1), Request("EXPIREAT", <<k1>>, Absent, 1),
   Request("SET", <<k1>>, v1, TooLong), Request("EXPIRE", <<k1>>, Absent, TooLong),
   Request("DEL", <<k1, k2>>, Absent, Never), Request("SETAT", <<k2>>, v1, 1),
   Request("FLUSHDB", << >>, Absent, Never)}

PermanentWrites ==
  {Request("SET", <<k1>>, v1, Never), Request("SET", <<k1>>, v2, Never),
   Request("DEL", <<k1>>, Absent, Never), Request("EXPIRE", <<k1>>, Absent, TooLong),
   Request("SET", <<k1>>, v1, TooLong)}

TtlWrites == {Request("SET", <<k1>>, v1, 1), Request("EXPIRE", <<k1>>, Absent, 1)}
=============================================================================
