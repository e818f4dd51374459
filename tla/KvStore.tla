------------------------------ MODULE KvStore ------------------------------
(***************************************************************************)
(* What the store promises its callers, with no shards, locks, counters or *)
(* leftover entries: a map from keys to values that have not expired.  A   *)
(* keyed command takes effect at one instant between its call and its      *)
(* return (DEL: one instant per key, in order), FLUSHDB at one instant for *)
(* all keys; an entry is gone at the tick that reaches its deadline.       *)
(* KEYS, INFO, the sweep and the snapshot change nothing a caller can see. *)
(***************************************************************************)
EXTENDS Database

CONSTANTS Task, Calls, MaxTime

VARIABLES
  now,
  store,   \* the live entries
  phase,   \* phase[t]: idle, pending or done
  request, \* request[t]: the command in progress
  served,  \* served[t]: keys of the request already dealt with
  reply    \* reply[t]: the answer so far

vars == <<now, store, phase, request, served, reply>>

NoRequest == [op |-> "NONE", keys |-> << >>, value |-> Absent, arg |-> Never]

Init ==
  /\ now = 0
  /\ store = EmptyData
  /\ phase = [t \in Task |-> "idle"]
  /\ request = [t \in Task |-> NoRequest]
  /\ served = [t \in Task |-> 0]
  /\ reply = [t \in Task |-> Absent]

Surviving(m, time) ==
  [k \in Key |-> IF m[k] # Absent /\ m[k].expireAt \in 0 .. time THEN Absent ELSE m[k]]

Call(t, c) ==
  /\ phase[t] = "idle"
  /\ phase' = [phase EXCEPT ![t] = "pending"]
  /\ request' = [request EXCEPT ![t] = c]
  /\ reply' = [reply EXCEPT ![t] = IF c.op = "DEL" THEN 0 ELSE Absent]
  /\ UNCHANGED <<now, store, served>>

\* The new entry of key k, with an expiry that may already be over.
Written(c, k) ==
  LET here == store[k] # Absent
  IN  CASE c.op = "SET" ->
             [value |-> c.value, expireAt |-> IF c.arg = Never THEN Never ELSE now + c.arg]
        [] c.op = "SETAT" -> [value |-> c.value, expireAt |-> c.arg]
        [] c.op = "EXPIRE" /\ here -> [store[k] EXCEPT !.expireAt = now + Second * c.arg]
        [] c.op = "EXPIREAT" /\ here -> [store[k] EXCEPT !.expireAt = c.arg]
        [] c.op = "DEL" -> Absent
        [] OTHER -> store[k]

Answered(t, c, k) ==
  LET e == store[k]
      there == IF e = Absent THEN 0 ELSE 1
  IN  CASE c.op \in {"SET", "SETAT"} -> 1
        [] c.op = "GET" -> IF e = Absent THEN Absent ELSE e.value
        [] c.op = "DEL" -> reply[t] + there
        [] c.op \in {"EXISTS", "EXPIRE", "EXPIREAT"} -> there
        [] c.op = "TTL" ->
             IF e = Absent THEN -2
             ELSE IF e.expireAt = Never THEN -1
             ELSE CHOOSE n \in 1 .. e.expireAt :
                    /\ Second * n >= e.expireAt - now
                    /\ Second * (n - 1) < e.expireAt - now

Serve(t) ==
  LET c == request[t]
      n == served[t] + 1
      k == c.keys[n]
  IN  /\ phase[t] = "pending"
      /\ c.op \in KeyedOp
      /\ c.arg # TooLong
      /\ store' = Surviving([store EXCEPT ![k] = Written(c, k)], now)
      /\ reply' = [reply EXCEPT ![t] = Answered(t, c, k)]
      /\ IF n < Len(c.keys)
           THEN served' = [served EXCEPT ![t] = n] /\ UNCHANGED phase
           ELSE served' = [served EXCEPT ![t] = 0] /\ phase' = [phase EXCEPT ![t] = "done"]
      /\ UNCHANGED <<now, request>>

\* A duration the clock cannot represent: the call never returns and leaves
\* no trace, unless EXPIRE finds no key to apply it to.
Fail(t) ==
  /\ phase[t] = "pending"
  /\ request[t].arg = TooLong
  /\ IF request[t].op = "EXPIRE" /\ store[request[t].keys[1]] = Absent
       THEN /\ phase' = [phase EXCEPT ![t] = "done"]
            /\ reply' = [reply EXCEPT ![t] = 0]
            /\ UNCHANGED request
       ELSE /\ phase' = [phase EXCEPT ![t] = "idle"]
            /\ request' = [request EXCEPT ![t] = NoRequest]
            /\ reply' = [reply EXCEPT ![t] = Absent]
  /\ UNCHANGED <<now, store, served>>

ServeWhole(t) ==
  /\ phase[t] = "pending"
  /\ request[t].op \in WholeOp
  /\ store' = IF request[t].op = "FLUSHDB" THEN EmptyData ELSE store
  /\ phase' = [phase EXCEPT ![t] = "done"]
  /\ UNCHANGED <<now, request, served, reply>>

Return(t) ==
  /\ phase[t] = "done"
  /\ phase' = [phase EXCEPT ![t] = "idle"]
  /\ request' = [request EXCEPT ![t] = NoRequest]
  /\ reply' = [reply EXCEPT ![t] = Absent]
  /\ UNCHANGED <<now, store, served>>

Tick ==
  /\ now < MaxTime
  /\ now' = now + 1
  /\ store' = Surviving(store, now + 1)
  /\ UNCHANGED <<phase, request, served, reply>>

Next ==
  \/ \E t \in Task :
       \/ \E c \in Calls[t] : Call(t, c)
       \/ Serve(t) \/ ServeWhole(t) \/ Fail(t) \/ Return(t)
  \/ Tick

Spec == Init /\ [][Next]_vars
=============================================================================
