----------------------------- MODULE AofProofs ------------------------------
(***************************************************************************)
(* Proofs about Aof, for every set of tasks, keys and write commands: what *)
(* replaying gives, for every file and every clock; and with it, that the  *)
(* log and the store agree, the backup covers the window of a rewrite,     *)
(* and a restart from a log that was left intact keeps what was promised.  *)
(* The inductions over files are over sets of positions, from the          *)
(* well-foundedness of the natural numbers.                                *)
(***************************************************************************)
EXTENDS Aof, FiniteSetTheorems, TLAPS

-----------------------------------------------------------------------------
(***************************************************************************)
(* Induction over the natural numbers, as facts about sets of them.        *)
(***************************************************************************)

\* The order of the natural numbers, as a set of pairs, is well founded.
LEMMA BelowWellFounded ==
  IsWellFoundedOn({ss \in Nat \X Nat : ss[1] < ss[2]}, Nat)
<1>1. IsWellFoundedOn(OpToRel(<, Nat), Nat)
  BY NatLessThanWellFounded
<1>2. {ss \in Nat \X Nat : ss[1] < ss[2]} \cap (Nat \X Nat) \subseteq OpToRel(<, Nat)
  BY DEF OpToRel
<1> QED BY <1>1, <1>2, IsWellFoundedOnSubrelation

\* Every non-empty set of natural numbers has a least element.
LEMMA LeastNumber ==
  ASSUME NEW S, S \subseteq Nat, S # {}
  PROVE  \E m \in S : \A n \in S : m <= n
<1> DEFINE below == {ss \in Nat \X Nat : ss[1] < ss[2]}
<1>1. IsWellFoundedOn(below, Nat)
  BY BelowWellFounded
<1>2. PICK m \in S : \A n \in S : ~(<<n, m>> \in below)
  <2> HIDE DEF below
  <2> QED BY <1>1, WFMin
<1>3. ASSUME NEW n \in S PROVE m <= n
  <2>1. m \in Nat /\ n \in Nat
    OBVIOUS
  <2>2. ~(<<n, m>> \in below) /\ <<n, m>> \in Nat \X Nat
    BY <1>2, <2>1
  <2>3. ~(n < m)
    BY <2>2
  <2> QED BY <2>1, <2>3
<1> QED BY <1>3

\* A set that holds 0 and with a number up to N the next one holds all
\* numbers up to N.
LEMMA UpTo ==
  ASSUME NEW N \in Nat, NEW S, 0 \in S,
         \A n \in 0 .. N : n \in S /\ n < N => n + 1 \in S
  PROVE  \A n \in 0 .. N : n \in S
<1> DEFINE rest == (0 .. N) \ S
<1> SUFFICES ASSUME rest # {} PROVE FALSE
  OBVIOUS
<1>1. PICK m \in rest : \A n \in rest : m <= n
  <2>1. rest \subseteq Nat
    OBVIOUS
  <2> HIDE DEF rest
  <2> QED BY <2>1, LeastNumber
<1>2. m \in 1 .. N /\ m \notin S
  OBVIOUS
<1>3. m - 1 \in 0 .. N /\ m - 1 < N /\ m - 1 < m
  BY <1>2
<1>4. m - 1 \in S
  BY <1>1, <1>3
<1> QED BY <1>2, <1>3, <1>4

-----------------------------------------------------------------------------
(***************************************************************************)
(* Replaying a file: the recursion is well founded.                        *)
(***************************************************************************)
\* The stores a replay goes through, one frame at a time.
IsReplay(store, file, time) ==
  store = [i \in 0 .. Len(file) |->
             IF i = 0 THEN EmptyData ELSE Run(store[i - 1], file[i], time)]

\* There is such a sequence of stores for every file.
LEMMA ReplayExists ==
  ASSUME NEW file, Len(file) \in Nat, NEW time
  PROVE  \E store : IsReplay(store, file, time)
<1> DEFINE N == Len(file)
           Partial(s, n) == s = [i \in 0 .. n |->
                                   IF i = 0 THEN EmptyData ELSE Run(s[i - 1], file[i], time)]
           S == {n \in 0 .. N : \E s : Partial(s, n)}
<1>1. 0 \in S
  <2> DEFINE s == [i \in 0 .. 0 |-> EmptyData]
  <2>1. Partial(s, 0)
    OBVIOUS
  <2> HIDE DEF s, Partial
  <2> QED BY <2>1
<1>2. ASSUME NEW n \in 0 .. N, n \in S, n < N
      PROVE  n + 1 \in S
  <2>1. PICK s : Partial(s, n)
    BY <1>2
  <2> DEFINE g == [i \in 0 .. n + 1 |-> IF i = n + 1 THEN Run(s[n], file[n + 1], time) ELSE s[i]]
             h == [i \in 0 .. n + 1 |-> IF i = 0 THEN EmptyData ELSE Run(g[i - 1], file[i], time)]
  <2>2. ASSUME NEW i \in 0 .. n + 1 PROVE g[i] = h[i]
    <3>1. CASE i = n + 1
      <4>1. g[i] = Run(s[n], file[n + 1], time)  BY <3>1
      <4>2. g[n] = s[n]  OBVIOUS
      <4>3. h[i] = Run(g[n], file[n + 1], time)  BY <3>1
      <4> QED BY <4>1, <4>2, <4>3
    <3>2. CASE i # n + 1 /\ i # 0
      <4>1. i \in 0 .. n /\ i - 1 \in 0 .. n /\ i - 1 # n + 1 BY <3>2
      <4>2. g[i] = s[i] /\ g[i - 1] = s[i - 1] BY <3>2, <4>1
      <4>3. h[i] = Run(g[i - 1], file[i], time)  BY <3>2
      <4>4. s[i] = Run(s[i - 1], file[i], time)  BY <2>1, <3>2, <4>1
      <4> QED BY <4>2, <4>3, <4>4
    <3>3. CASE i = 0
      <4>1. s[0] = EmptyData BY <2>1
      <4> QED BY <3>3, <4>1
    <3> QED BY <3>1, <3>2, <3>3
  <2>3. g = h
    <3> HIDE DEF S, Partial
    <3> QED BY <2>2
  <2>4. Partial(g, n + 1)
    BY <2>3
  <2>5. n + 1 \in 0 .. N
    BY <1>2
  <2> HIDE DEF g, h, Partial
  <2> QED BY <2>4, <2>5
<1>3. N \in S
  <2> HIDE DEF S
  <2>1. N \in Nat OBVIOUS
  <2>2. \A n \in 0 .. N : n \in S  BY <1>1, <1>2, <2>1, UpTo
  <2> QED BY <2>2
<1>4. PICK s : Partial(s, N)
  BY <1>3
<1>5. IsReplay(s, file, time)
  BY <1>4 DEF IsReplay
<1> QED BY <1>5

\* So the recursive function of Replayed satisfies its equation.
LEMMA ReplayedSteps ==
  ASSUME NEW file, Len(file) \in Nat, NEW time
  PROVE  /\ Replayed(file, time, 0) = EmptyData
         /\ \A i \in 1 .. Len(file) :
              Replayed(file, time, i) = Run(Replayed(file, time, i - 1), file[i], time)
<1> DEFINE store == CHOOSE s : s = [i \in 0 .. Len(file) |->
                         IF i = 0 THEN EmptyData ELSE Run(s[i - 1], file[i], time)]
<1>1. store = [i \in 0 .. Len(file) |->
                         IF i = 0 THEN EmptyData ELSE Run(store[i - 1], file[i], time)]
  <2>1. \E s : s = [i \in 0 .. Len(file) |->
                         IF i = 0 THEN EmptyData ELSE Run(s[i - 1], file[i], time)]
    BY ReplayExists DEF IsReplay
  <2> QED BY <2>1
<1>2. \A n : Replayed(file, time, n) = store[n]
  BY DEF Replayed
<1> HIDE DEF store
<1>3. store[0] = EmptyData
  BY <1>1
<1>4. \A i \in 1 .. Len(file) : store[i] = Run(store[i - 1], file[i], time)
  BY <1>1
<1> QED BY <1>2, <1>3, <1>4

-----------------------------------------------------------------------------
(***************************************************************************)
(* What a command does to each entry, run now or replayed.                 *)
(***************************************************************************)

WriteOp == {"SET", "SETAT", "DEL", "EXPIRE", "EXPIREAT", "FLUSHDB"}

\* An entry that a reader at that time sees.
Alive(e, time) == e # Absent /\ (e.expireAt = Never \/ e.expireAt > time)

\* The entry that command c, run at that time, makes of entry e of key k.
EntryAfter(e, c, k, time) ==
  LET own == k = c.keys[1]
      kept == IF Alive(e, time) THEN e ELSE Absent
  IN  CASE c.op = "FLUSHDB" -> Absent
        [] c.op = "DEL" -> IF k \in ToSet(c.keys) THEN Absent ELSE e
        [] c.op = "SET" -> IF own THEN [value |-> c.value, expireAt |-> Deadline(c.arg, time)] ELSE kept
        [] c.op = "SETAT" -> IF own
                               THEN IF c.arg <= time THEN Absent
                                                     ELSE [value |-> c.value, expireAt |-> c.arg]
                               ELSE kept
        [] c.op = "EXPIRE" -> IF own
                                THEN IF Alive(e, time)
                                       THEN [value |-> e.value, expireAt |-> time + Second * c.arg]
                                       ELSE Absent
                                ELSE e
        [] c.op = "EXPIREAT" -> IF own
                                  THEN IF Alive(e, time) /\ c.arg > time
                                         THEN [value |-> e.value, expireAt |-> c.arg]
                                         ELSE Absent
                                  ELSE e

\* Is a panic: the deadline of c does not fit the clock.
Overflows(d, c, time) ==
  c.arg = TooLong /\ (c.op = "SET" \/ IsLive(d, c.keys[1], time))

\* The fields of a write command.
LEMMA WriteFields ==
  ASSUME NEW c \in Command, c.op \in WriteOp
  PROVE  /\ c.op # "FLUSHDB" => c.keys # << >> /\ c.keys[1] \in Key
         /\ c.keys \in Seq(Key)
         /\ ToSet(c.keys) \subseteq Key
         /\ c.op \in {"SET", "SETAT"} => c.value \in Value
         /\ c.op \in {"SETAT", "EXPIREAT"} => c.arg \in Nat
         /\ c.op = "EXPIRE" => c.arg \in Nat \cup {TooLong}
         /\ c.op = "SET" => c.arg \in Nat \cup {Never, TooLong}
         /\ c.op \in {"DEL", "FLUSHDB"} => c.arg = Never
<1>1. /\ c.keys \in Seq(Key)
      /\ c.arg \in Nat \cup {Never, TooLong}
      /\ c.op # "FLUSHDB" => c.keys # << >>
      /\ c.op \in {"SET", "SETAT"} => c.value \in Value
      /\ c.op \in {"SETAT", "EXPIREAT"} => c.arg \in Nat
      /\ c.op = "EXPIRE" => c.arg \in Nat \cup {TooLong}
      /\ c.op \in {"DEL", "FLUSHDB"} => c.arg = Never
  BY DEF Command, KeyedOp, WholeOp, WriteOp
<1>2. c.keys # << >> => c.keys[1] \in Key
  BY <1>1
<1>3. ToSet(c.keys) \subseteq Key
  BY <1>1 DEF ToSet
<1> QED BY <1>1, <1>2, <1>3

\* The entry of one key of a store.
LEMMA EntryFacts ==
  ASSUME NEW d \in Data, NEW k \in Key, NEW time \in Nat
  PROVE  /\ d[k] = Absent \/ d[k] \in Entry
         /\ d[k] # Absent => /\ d[k].value \in Value
                             /\ d[k].expireAt \in Nat \cup {Never}
                             /\ d[k] = [value |-> d[k].value, expireAt |-> d[k].expireAt]
         /\ IsLive(d, k, time) <=> Alive(d[k], time)
         /\ LiveView(d, time)[k] = IF Alive(d[k], time) THEN d[k] ELSE Absent
         /\ RemoveIfExpired(d, k, time)
              = [d EXCEPT ![k] = IF Alive(d[k], time) THEN d[k] ELSE Absent]
<1>1. d[k] = Absent \/ d[k] \in Entry
  BY DEF Data
<1>2. d[k] # Absent => /\ d[k].value \in Value
                       /\ d[k].expireAt \in Nat \cup {Never}
                       /\ d[k] = [value |-> d[k].value, expireAt |-> d[k].expireAt]
  BY <1>1 DEF Entry
<1>3. IsLive(d, k, time) <=> Alive(d[k], time)
  BY <1>2, DatabaseAssumption DEF IsLive, Alive, IsExpired
<1>4. LiveView(d, time)[k] = IF Alive(d[k], time) THEN d[k] ELSE Absent
  BY <1>2, DatabaseAssumption DEF LiveView, Alive, IsExpired
<1>5. RemoveIfExpired(d, k, time) = [d EXCEPT ![k] = IF Alive(d[k], time) THEN d[k] ELSE Absent]
  <2>1. IsExpired(d[k], time) <=> d[k] # Absent /\ ~Alive(d[k], time)
    BY <1>2, DatabaseAssumption DEF Alive, IsExpired
  <2>2. d = [d EXCEPT ![k] = d[k]]
    BY DEF Data
  <2> QED BY <2>1, <2>2 DEF RemoveIfExpired
<1> QED BY <1>1, <1>2, <1>3, <1>4, <1>5

\* Run, key by key; it leaves well-typed data.
LEMMA RunByKey ==
  ASSUME NEW d \in Data, NEW c \in Command, c.op \in WriteOp, NEW time \in Nat,
         ~Overflows(d, c, time)
  PROVE  /\ Run(d, c, time) = [k \in Key |-> EntryAfter(d[k], c, k, time)]
         /\ Run(d, c, time) \in Data
<1> DEFINE own == c.keys[1]
           r == Run(d, c, time)
           f == [k \in Key |-> EntryAfter(d[k], c, k, time)]
<1>1. /\ LiveView(d, time) \in Data
      /\ \A k \in Key : LiveView(d, time)[k] = IF Alive(d[k], time) THEN d[k] ELSE Absent
  <2>1. \A k \in Key : LiveView(d, time)[k] = IF Alive(d[k], time) THEN d[k] ELSE Absent
    BY EntryFacts
  <2> QED BY <2>1 DEF LiveView, Data
<1>2. CASE c.op = "FLUSHDB"
  <2>1. r = EmptyData  BY <1>2 DEF Run
  <2>2. f = EmptyData  BY <1>2 DEF EntryAfter, EmptyData
  <2> QED BY <2>1, <2>2 DEF EmptyData, Data
<1>3. CASE c.op = "DEL"
  <2>1. r = [k \in Key |-> IF k \in ToSet(c.keys) THEN Absent ELSE d[k]]
    BY <1>3 DEF Run
  <2>2. \A k \in Key : f[k] = r[k]
    BY <1>3, <2>1 DEF EntryAfter
  <2>3. r = f
    BY <2>1, <2>2
  <2> QED BY <2>1, <2>3 DEF Data
<1>4. CASE c.op = "SET"
  <2> DEFINE new == [value |-> c.value, expireAt |-> Deadline(c.arg, time)]
  <2>1. r = [LiveView(d, time) EXCEPT ![own] = new]
    BY <1>4 DEF Run, Effect, DbSet, RemoveExpired
  <2>2. new \in Entry
    BY <1>4, WriteFields DEF Overflows, Entry, Deadline
  <2>3. \A k \in Key : f[k] = IF k = own THEN new ELSE LiveView(d, time)[k]
    BY <1>1, <1>4 DEF EntryAfter
  <2> HIDE DEF new, f, r, own
  <2>4. r = [k \in Key |-> IF k = own THEN new ELSE LiveView(d, time)[k]]
    BY <1>1, <2>1 DEF Data
  <2>5. r = f
    BY <2>3, <2>4 DEF f
  <2> QED BY <1>1, <2>1, <2>2, <2>5 DEF Data, r, f
<1>5. CASE c.op = "SETAT"
  <2> DEFINE new == IF c.arg <= time THEN Absent ELSE [value |-> c.value, expireAt |-> c.arg]
  <2>1. r = [LiveView(d, time) EXCEPT ![own] = new]
    BY <1>5 DEF Run, Effect, DbSetAt, RemoveExpired
  <2>2. new \in Entry \cup {Absent}
    BY <1>5, WriteFields DEF Entry
  <2>3. \A k \in Key : f[k] = IF k = own THEN new ELSE LiveView(d, time)[k]
    BY <1>1, <1>5 DEF EntryAfter
  <2> HIDE DEF new, f, r, own
  <2>4. r = [k \in Key |-> IF k = own THEN new ELSE LiveView(d, time)[k]]
    BY <1>1, <2>1 DEF Data
  <2>5. r = f
    BY <2>3, <2>4 DEF f
  <2> QED BY <1>1, <2>1, <2>2, <2>5 DEF Data, r, f
<1>6. CASE c.op = "EXPIRE"
  <2>0. own \in Key /\ c.arg \in Nat \cup {TooLong}
    BY <1>6, WriteFields
  <2> DEFINE e == d[own]
             new == IF Alive(e, time) THEN [value |-> e.value, expireAt |-> time + Second * c.arg]
                                      ELSE Absent
  <2>1. r = [d EXCEPT ![own] = new]
    <3>1. r = DbExpire(d, own, c.arg, time)
      BY <1>6 DEF Run, Effect
    <3>2. CASE Alive(e, time)
      <4>1. RemoveIfExpired(d, own, time) = d
        <5>1. IsLive(d, own, time)
          BY <3>2, <2>0, EntryFacts
        <5> QED BY <5>1 DEF IsLive, RemoveIfExpired
      <4>2. d[own] # Absent /\ d[own] = [value |-> d[own].value, expireAt |-> d[own].expireAt]
        BY <3>2, <2>0, EntryFacts DEF Alive
      <4>3. DbExpire(d, own, c.arg, time) = [d EXCEPT ![own].expireAt = time + Second * c.arg]
        BY <4>1, <4>2 DEF DbExpire
      <4>4. [d[own] EXCEPT !.expireAt = time + Second * c.arg] = new
        BY <3>2, <4>2
      <4> HIDE DEF new, own
      <4> QED BY <3>1, <4>3, <4>4
    <3>3. CASE ~Alive(e, time)
      <4>1. RemoveIfExpired(d, own, time) = [d EXCEPT ![own] = Absent]
        BY <3>3, <2>0, EntryFacts
      <4>2. [d EXCEPT ![own] = Absent][own] = Absent
        BY <2>0 DEF Data
      <4>3. DbExpire(d, own, c.arg, time) = [d EXCEPT ![own] = Absent]
        BY <4>1, <4>2 DEF DbExpire
      <4> QED BY <3>1, <3>3, <4>3
    <3> QED BY <3>2, <3>3
  <2>2. new \in Entry \cup {Absent}
    <3>1. CASE Alive(e, time)
      <4>1. c.arg \in Nat
        BY <1>6, <2>0, <3>1, EntryFacts DEF Overflows
      <4>2. Second * c.arg \in Nat
        BY <4>1, DatabaseAssumption
      <4>3. e.value \in Value
        BY <2>0, <3>1, EntryFacts DEF Alive
      <4> QED BY <3>1, <4>2, <4>3 DEF Entry
    <3> QED BY <3>1
  <2>3. \A k \in Key : f[k] = IF k = own THEN new ELSE d[k]
    BY <1>6 DEF EntryAfter
  <2> HIDE DEF new, f, r, own, e
  <2>4. r = [k \in Key |-> IF k = own THEN new ELSE d[k]]
    BY <2>1 DEF Data
  <2>5. r = f
    BY <2>3, <2>4 DEF f
  <2> QED BY <2>1, <2>2, <2>5 DEF Data, r, f
<1>7. CASE c.op = "EXPIREAT"
  <2>0. own \in Key /\ c.arg \in Nat
    BY <1>7, WriteFields
  <2> DEFINE e == d[own]
             new == IF Alive(e, time) /\ c.arg > time THEN [value |-> e.value, expireAt |-> c.arg]
                                                      ELSE Absent
  <2>1. r = [d EXCEPT ![own] = new]
    <3>1. r = DbExpireAt(d, own, c.arg, time)
      BY <1>7 DEF Run, Effect
    <3>2. CASE Alive(e, time)
      <4>1. RemoveIfExpired(d, own, time) = d
        <5>1. IsLive(d, own, time)
          BY <3>2, <2>0, EntryFacts
        <5> QED BY <5>1 DEF IsLive, RemoveIfExpired
      <4>2. d[own] # Absent /\ d[own] = [value |-> d[own].value, expireAt |-> d[own].expireAt]
        BY <3>2, <2>0, EntryFacts DEF Alive
      <4>3. DbExpireAt(d, own, c.arg, time)
              = IF c.arg <= time THEN [d EXCEPT ![own] = Absent] ELSE [d EXCEPT ![own].expireAt = c.arg]
        BY <2>0, <4>1, <4>2 DEF DbExpireAt
      <4>4. c.arg > time => [d[own] EXCEPT !.expireAt = c.arg] = new
        BY <3>2, <4>2
      <4>5. c.arg <= time => new = Absent
        BY <2>0
      <4> HIDE DEF new, own
      <4>6. CASE c.arg <= time
        BY <3>1, <4>3, <4>5, <4>6
      <4>7. CASE ~(c.arg <= time)
        <5>1. c.arg > time
          BY <2>0, <4>7
        <5> QED BY <3>1, <4>3, <4>4, <4>7, <5>1
      <4> QED BY <4>6, <4>7
    <3>3. CASE ~Alive(e, time)
      <4>1. RemoveIfExpired(d, own, time) = [d EXCEPT ![own] = Absent]
        BY <3>3, <2>0, EntryFacts
      <4>2. /\ [d EXCEPT ![own] = Absent][own] = Absent
            /\ [[d EXCEPT ![own] = Absent] EXCEPT ![own] = Absent] = [d EXCEPT ![own] = Absent]
        BY <2>0 DEF Data
      <4>3. DbExpireAt(d, own, c.arg, time) = [d EXCEPT ![own] = Absent]
        BY <2>0, <4>1, <4>2 DEF DbExpireAt
      <4> QED BY <3>1, <3>3, <4>3
    <3> QED BY <3>2, <3>3
  <2>2. new \in Entry \cup {Absent}
    <3>1. CASE Alive(e, time)
      <4>3. e.value \in Value
        BY <2>0, <3>1, EntryFacts DEF Alive
      <4> QED BY <2>0, <3>1, <4>3 DEF Entry
    <3> QED BY <3>1
  <2>3. \A k \in Key : f[k] = IF k = own THEN new ELSE d[k]
    BY <1>7 DEF EntryAfter
  <2> HIDE DEF new, f, r, own, e
  <2>4. r = [k \in Key |-> IF k = own THEN new ELSE d[k]]
    BY <2>1 DEF Data
  <2>5. r = f
    BY <2>3, <2>4 DEF f
  <2> QED BY <2>1, <2>2, <2>5 DEF Data, r, f
<1> QED BY <1>2, <1>3, <1>4, <1>5, <1>6, <1>7 DEF WriteOp

-----------------------------------------------------------------------------
(***************************************************************************)
(* The commands a log holds, and what they mean at every later time.       *)
(***************************************************************************)

\* A log holds no relative expiry.
Frame == {c \in Command : c.op \in WriteOp \ {"EXPIRE"} /\ (c.op = "SET" => c.arg = Never)}

\* command_to_resp_bytes only changes the form of the expiry.
LEMMA LoggedFacts ==
  ASSUME NEW c \in Command, c.op \in WriteOp, NEW time \in Nat
  PROVE  /\ Logged(c, time) \in Frame
         /\ Logged(c, time).keys = c.keys
         /\ Logged(c, time).value = c.value
         /\ c.op = "SET" /\ c.arg # Never =>
              /\ Logged(c, time).op = "SETAT"
              /\ Logged(c, time).arg = ExpireAtFromNow(c.arg, time)
         /\ c.op = "EXPIRE" =>
              /\ Logged(c, time).op = "EXPIREAT"
              /\ c.arg # TooLong => Logged(c, time).arg = time + Second * c.arg
         /\ c.op # "EXPIRE" /\ ~(c.op = "SET" /\ c.arg # Never) => Logged(c, time) = c
<1> USE AofAssumption, DatabaseAssumption
<1>1. /\ c = [op |-> c.op, keys |-> c.keys, value |-> c.value, arg |-> c.arg]
      /\ c.op \in WriteOp /\ c.keys \in Seq(Key) /\ c.value \in Value \cup {Absent}
      /\ c.op # "FLUSHDB" => c.keys # << >>
      /\ c.op \in {"SET", "SETAT", "EXPIRE", "EXPIREAT"} => Len(c.keys) = 1
  BY DEF Command, KeyedOp, WholeOp, WriteOp
<1>2. CASE c.op = "SET" /\ c.arg # Never
  <2>1. Logged(c, time) = [op |-> "SETAT", keys |-> c.keys, value |-> c.value,
                           arg |-> ExpireAtFromNow(c.arg, time)]
    BY <1>1, <1>2 DEF Logged
  <2>2. ExpireAtFromNow(c.arg, time) \in Nat
    BY <1>2, WriteFields DEF ExpireAtFromNow
  <2>3. c.value \in Value
    BY <1>2, WriteFields
  <2> HIDE DEF WriteOp
  <2> QED BY <1>1, <1>2, <2>1, <2>2, <2>3 DEF Frame, Command, KeyedOp, WholeOp, WriteOp
<1>3. CASE c.op = "EXPIRE"
  <2> DEFINE at == ExpireAtFromNow(IF c.arg = TooLong THEN c.arg ELSE Second * c.arg, time)
  <2>1. Logged(c, time) = [op |-> "EXPIREAT", keys |-> c.keys, value |-> c.value, arg |-> at]
    BY <1>1, <1>3 DEF Logged
  <2>2. c.arg # TooLong => Second * c.arg \in Nat
    BY <1>3, WriteFields
  <2>3. at \in Nat /\ (c.arg # TooLong => at = time + Second * c.arg)
    BY <2>2 DEF ExpireAtFromNow
  <2> HIDE DEF at
  <2> QED BY <1>1, <1>3, <2>1, <2>3 DEF Frame, Command, KeyedOp, WholeOp, WriteOp
<1>4. CASE c.op # "EXPIRE" /\ ~(c.op = "SET" /\ c.arg # Never)
  BY <1>4 DEF Logged, Frame, WriteOp
<1> QED BY <1>2, <1>3, <1>4

\* Frames are commands that replay without a panic.
LEMMA FrameFacts ==
  ASSUME NEW c \in Frame
  PROVE  /\ c \in Command /\ c.op \in WriteOp
         /\ c.arg # TooLong
         /\ \A d, time : ~Overflows(d, c, time)
         /\ \A time \in Nat : Logged(c, time) = c
<1>1. c \in Command /\ c.op \in WriteOp \ {"EXPIRE"} /\ (c.op = "SET" => c.arg = Never)
  BY DEF Frame
<1>2. c.arg # TooLong
  BY <1>1, WriteFields, DatabaseAssumption DEF WriteOp
<1>3. \A time \in Nat : Logged(c, time) = c
  BY <1>1, LoggedFacts
<1> QED BY <1>1, <1>2, <1>3 DEF Overflows

\* What an entry loaded from the log may be, next to the entry in memory.
Matches(loaded, stored, time) ==
  /\ Alive(loaded, time) =>
       /\ Alive(stored, time)
       /\ stored.value = loaded.value
       /\ stored.expireAt = Never <=> loaded.expireAt = Never
       /\ loaded.expireAt # Never => loaded.expireAt <= stored.expireAt
  /\ stored # Absent /\ stored.expireAt = Never => loaded = stored

Agrees(loaded, stored, time) == \A k \in Key : Matches(loaded[k], stored[k], time)

\* A command logged at one moment and executed at a later one keeps the two
\* entries of a key in step at every time after that.
LEMMA MatchesAfter ==
  ASSUME NEW a \in Entry \cup {Absent}, NEW b \in Entry \cup {Absent},
         NEW c \in Command, c.op \in WriteOp, NEW k \in Key,
         NEW then \in Nat, NEW moment \in Nat, NEW time \in Nat, then <= moment, moment <= time,
         c.arg = TooLong => c.op # "SET" /\ (k = c.keys[1] => ~Alive(b, moment)),
         Matches(a, b, time)
  PROVE  Matches(EntryAfter(a, Logged(c, then), k, time), EntryAfter(b, c, k, moment), time)
<1> DEFINE l == Logged(c, then)
           a2 == EntryAfter(a, l, k, time)
           b2 == EntryAfter(b, c, k, moment)
           own == k = c.keys[1]
<1> SUFFICES Matches(a2, b2, time)
  OBVIOUS
<1> USE DatabaseAssumption
<1>1. /\ a # Absent => a.value \in Value /\ a.expireAt \in Nat \cup {Never}
      /\ b # Absent => b.value \in Value /\ b.expireAt \in Nat \cup {Never}
      /\ \A v, t : [value |-> v, expireAt |-> t] # Absent \/ v \notin Value \/ t \notin Nat \cup {Never}
  BY DEF Entry
<1>2. Alive(b, time) => Alive(b, moment)
  BY <1>1 DEF Alive
<1>3. l.keys = c.keys /\ l.value = c.value
  BY LoggedFacts
<1>k. Matches(IF Alive(a, time) THEN a ELSE Absent, IF Alive(b, moment) THEN b ELSE Absent, time)
  BY <1>1, <1>2 DEF Matches, Alive
<1>n. ASSUME NEW x PROVE Matches(Absent, x, time) <=> ~(x # Absent /\ x.expireAt = Never)
  BY DEF Matches, Alive
<1>4. CASE c.op = "FLUSHDB"
  <2>1. a2 = Absent /\ b2 = Absent
    BY <1>4, LoggedFacts DEF EntryAfter
  <2> QED BY <2>1 DEF Matches, Alive
<1>5. CASE c.op = "DEL"
  <2>1. l = c  BY <1>5, LoggedFacts
  <2>2. /\ a2 = IF k \in ToSet(c.keys) THEN Absent ELSE a
        /\ b2 = IF k \in ToSet(c.keys) THEN Absent ELSE b
    BY <1>5, <2>1 DEF EntryAfter
  <2> HIDE DEF a2, b2
  <2> QED BY <2>2 DEF Matches, Alive
<1>6. CASE c.op = "SET"
  <2>1. c.arg \in Nat \cup {Never} /\ c.value \in Value
    BY <1>6, WriteFields
  <2>2. b2 = IF own THEN [value |-> c.value, expireAt |-> Deadline(c.arg, moment)]
                    ELSE IF Alive(b, moment) THEN b ELSE Absent
    BY <1>6 DEF EntryAfter
  <2>3. CASE c.arg = Never
    <3>1. l = c  BY <1>6, <2>3, LoggedFacts
    <3>2. a2 = IF own THEN [value |-> c.value, expireAt |-> Never]
                      ELSE IF Alive(a, time) THEN a ELSE Absent
      BY <1>6, <2>3, <3>1 DEF EntryAfter, Deadline
    <3>3. b2 = IF own THEN [value |-> c.value, expireAt |-> Never]
                      ELSE IF Alive(b, moment) THEN b ELSE Absent
      BY <2>2, <2>3 DEF Deadline
    <3>4. CASE own
      <4> HIDE DEF a2, b2, own
      <4>1. a2 = b2 /\ b2.expireAt = Never  BY <3>2, <3>3, <3>4
      <4> QED BY <4>1 DEF Matches
    <3>5. CASE ~own
      <4> HIDE DEF a2, b2, own
      <4> QED BY <1>k, <3>2, <3>3, <3>5
    <3> QED BY <3>4, <3>5
  <2>4. CASE c.arg # Never
    <3>1. c.arg \in Nat /\ c.arg # TooLong
      BY <2>1, <2>4, <1>6
    <3>2. l.op = "SETAT" /\ l.arg = then + c.arg
      BY <1>6, <2>4, <3>1, LoggedFacts DEF ExpireAtFromNow
    <3>3. a2 = IF own THEN IF then + c.arg <= time THEN Absent
                                                   ELSE [value |-> c.value, expireAt |-> then + c.arg]
                      ELSE IF Alive(a, time) THEN a ELSE Absent
      BY <1>3, <3>2 DEF EntryAfter
    <3>4. b2 = IF own THEN [value |-> c.value, expireAt |-> moment + c.arg]
                      ELSE IF Alive(b, moment) THEN b ELSE Absent
      BY <2>2, <2>4 DEF Deadline
    <3>5. CASE ~own
      <4> HIDE DEF a2, b2, own
      <4> QED BY <1>k, <3>3, <3>4, <3>5
    <3>6. CASE own
      <4>1. b2 # Absent /\ b2.value = c.value /\ b2.expireAt = moment + c.arg
        BY <1>1, <2>1, <3>1, <3>4, <3>6
      <4>2. CASE then + c.arg <= time
        <5>1. a2 = Absent  BY <3>3, <3>6, <4>2
        <5> HIDE DEF a2, b2
        <5> QED BY <1>n, <3>1, <4>1, <5>1
      <4>3. CASE ~(then + c.arg <= time)
        <5>1. a2 # Absent /\ a2.value = c.value /\ a2.expireAt = then + c.arg
          BY <1>1, <2>1, <3>1, <3>3, <3>6, <4>3
        <5> HIDE DEF a2, b2
        <5> QED BY <3>1, <4>1, <4>3, <5>1 DEF Matches, Alive
      <4> QED BY <4>2, <4>3
    <3> QED BY <3>5, <3>6
  <2> QED BY <2>3, <2>4
<1>7. CASE c.op = "SETAT"
  <2>1. c.arg \in Nat /\ c.value \in Value
    BY <1>7, WriteFields
  <2>2. l = c  BY <1>7, LoggedFacts
  <2>3. a2 = IF own THEN IF c.arg <= time THEN Absent ELSE [value |-> c.value, expireAt |-> c.arg]
                    ELSE IF Alive(a, time) THEN a ELSE Absent
    BY <1>7, <2>2 DEF EntryAfter
  <2>4. b2 = IF own THEN IF c.arg <= moment THEN Absent ELSE [value |-> c.value, expireAt |-> c.arg]
                    ELSE IF Alive(b, moment) THEN b ELSE Absent
    BY <1>7 DEF EntryAfter
  <2>5. CASE ~own
    <3> HIDE DEF a2, b2, own
    <3> QED BY <1>k, <2>3, <2>4, <2>5
  <2>6. CASE own
    <3> DEFINE n == [value |-> c.value, expireAt |-> c.arg]
    <3>1. n # Absent /\ n.value = c.value /\ n.expireAt = c.arg
      BY <1>1, <2>1
    <3>2. /\ a2 = IF c.arg <= time THEN Absent ELSE n
          /\ b2 = IF c.arg <= moment THEN Absent ELSE n
      BY <2>3, <2>4, <2>6
    <3> HIDE DEF a2, b2, n
    <3> QED BY <2>1, <3>1, <3>2 DEF Matches, Alive
  <2> QED BY <2>5, <2>6
<1>8. CASE c.op = "EXPIRE"
  <2>1. c.arg \in Nat \cup {TooLong}
    BY <1>8, WriteFields
  <2>2. l \in Command /\ l.op = "EXPIREAT" /\ l.arg \in Nat
    BY <1>8, LoggedFacts, WriteFields DEF Frame, WriteOp
  <2>3. a2 = IF own THEN IF Alive(a, time) /\ l.arg > time
                           THEN [value |-> a.value, expireAt |-> l.arg] ELSE Absent
                    ELSE a
    BY <1>3, <2>2 DEF EntryAfter
  <2>4. b2 = IF own THEN IF Alive(b, moment)
                           THEN [value |-> b.value, expireAt |-> moment + Second * c.arg] ELSE Absent
                    ELSE b
    BY <1>8 DEF EntryAfter
  <2>5. CASE ~own
    <3> HIDE DEF a2, b2, own
    <3> QED BY <2>3, <2>4, <2>5
  <2>6. CASE own /\ ~Alive(b, moment)
    <3>1. ~Alive(a, time)
      BY <1>2, <2>6 DEF Matches
    <3>2. a2 = Absent /\ b2 = Absent
      BY <2>3, <2>4, <2>6, <3>1
    <3> QED BY <3>2 DEF Matches, Alive
  <2>7. CASE own /\ Alive(b, moment)
    <3>1. c.arg \in Nat /\ l.arg = then + Second * c.arg
      BY <1>8, <2>1, <2>7, LoggedFacts
    <3> DEFINE e == Second * c.arg
    <3>2. e \in Nat
      BY <3>1
    <3>3. b # Absent /\ b.value \in Value
      BY <1>1, <2>7 DEF Alive
    <3>4. b2 # Absent /\ b2.value = b.value /\ b2.expireAt = moment + e
      <4>1. b2 = [value |-> b.value, expireAt |-> moment + e]
        BY <2>4, <2>7
      <4>2. moment + e \in Nat
        BY <3>2
      <4> HIDE DEF b2, e
      <4> QED BY <1>1, <3>3, <4>1, <4>2
    <3>5. l.arg = then + e
      BY <3>1
    <3> HIDE DEF e
    <3>6. moment + e # Never
      BY <3>2
    <3>7. CASE Alive(a, time) /\ l.arg > time
      <4>1. a # Absent /\ a.value \in Value /\ b.value = a.value
        BY <1>1, <3>7 DEF Alive, Matches
      <4>2. a2 = [value |-> a.value, expireAt |-> l.arg]
        BY <2>3, <2>7, <3>7
      <4> HIDE DEF a2
      <4>3. a2 # Absent /\ a2.value = a.value /\ a2.expireAt = l.arg
        BY <1>1, <2>2, <4>1, <4>2
      <4>4. l.arg <= moment + e /\ moment + e > time /\ l.arg # Never
        BY <2>2, <3>2, <3>5, <3>7
      <4> HIDE DEF b2, l
      <4> QED BY <3>4, <3>6, <4>1, <4>3, <4>4 DEF Matches, Alive
    <3>8. CASE ~(Alive(a, time) /\ l.arg > time)
      <4>1. a2 = Absent
        BY <2>3, <2>7, <3>8
      <4> HIDE DEF a2, b2
      <4> QED BY <1>n, <3>4, <3>6, <4>1
    <3> QED BY <3>7, <3>8
  <2> QED BY <2>5, <2>6, <2>7
<1>9. CASE c.op = "EXPIREAT"
  <2>1. c.arg \in Nat
    BY <1>9, WriteFields
  <2>2. l = c  BY <1>9, LoggedFacts
  <2>3. a2 = IF own THEN IF Alive(a, time) /\ c.arg > time
                           THEN [value |-> a.value, expireAt |-> c.arg] ELSE Absent
                    ELSE a
    BY <1>9, <2>2 DEF EntryAfter
  <2>4. b2 = IF own THEN IF Alive(b, moment) /\ c.arg > moment
                           THEN [value |-> b.value, expireAt |-> c.arg] ELSE Absent
                    ELSE b
    BY <1>9 DEF EntryAfter
  <2>5. CASE ~own
    <3> HIDE DEF a2, b2, own
    <3> QED BY <2>3, <2>4, <2>5
  <2>6. CASE own /\ Alive(a, time) /\ c.arg > time
    <3>1. /\ Alive(b, moment) /\ c.arg > moment /\ a.value = b.value /\ a.value \in Value
      BY <1>1, <1>2, <2>1, <2>6 DEF Matches, Alive
    <3>2. a2 = b2 /\ b2 = [value |-> b.value, expireAt |-> c.arg]
      BY <2>3, <2>4, <2>6, <3>1
    <3> HIDE DEF a2, b2
    <3>3. b2 # Absent /\ b2.value = b.value /\ b2.expireAt = c.arg
      BY <1>1, <2>1, <3>1, <3>2
    <3> QED BY <2>1, <2>6, <3>2, <3>3 DEF Matches, Alive
  <2>7. CASE own /\ ~(Alive(a, time) /\ c.arg > time)
    <3>1. a2 = Absent
      BY <2>3, <2>7
    <3>2. ~(b2 # Absent /\ b2.expireAt = Never)
      <4>1. b2 = Absent \/ b2 = [value |-> b.value, expireAt |-> c.arg]
        BY <2>4, <2>7
      <4> HIDE DEF b2
      <4> QED BY <2>1, <4>1
    <3> HIDE DEF a2, b2
    <3> QED BY <1>n, <3>1, <3>2
  <2> QED BY <2>5, <2>6, <2>7
<1> QED BY <1>4, <1>5, <1>6, <1>7, <1>8, <1>9 DEF WriteOp

\* The same for whole stores.
LEMMA AgreesAfter ==
  ASSUME NEW r \in Data, NEW e \in Data, NEW c \in Command, c.op \in WriteOp,
         NEW then \in Nat, NEW moment \in Nat, NEW time \in Nat, then <= moment, moment <= time,
         ~Overflows(e, c, moment),
         Agrees(r, e, time)
  PROVE  Agrees(Run(r, Logged(c, then), time), Run(e, c, moment), time)
<1>1. /\ Logged(c, then) \in Command /\ Logged(c, then).op \in WriteOp
      /\ ~Overflows(r, Logged(c, then), time)
  BY LoggedFacts, FrameFacts
<1>2. /\ Run(r, Logged(c, then), time) = [k \in Key |-> EntryAfter(r[k], Logged(c, then), k, time)]
      /\ Run(e, c, moment) = [k \in Key |-> EntryAfter(e[k], c, k, moment)]
  BY <1>1, RunByKey
<1>3. ASSUME NEW k \in Key
      PROVE  Matches(EntryAfter(r[k], Logged(c, then), k, time), EntryAfter(e[k], c, k, moment), time)
  <2>1. r[k] \in Entry \cup {Absent} /\ e[k] \in Entry \cup {Absent}
    BY DEF Data
  <2>2. Matches(r[k], e[k], time)
    BY DEF Agrees
  <2>3. c.arg = TooLong => c.op # "SET" /\ (k = c.keys[1] => ~Alive(e[k], moment))
    BY EntryFacts DEF Overflows
  <2> QED BY <2>1, <2>2, <2>3, MatchesAfter
<1> QED BY <1>2, <1>3 DEF Agrees

\* An entry in memory that is not among the loaded ones had a deadline that lapsed.
Excused(loaded, stored, lapsed, time) == stored # Absent /\ ~Alive(loaded, time) => lapsed

\* One more command, logged at one moment and executed at a later one, loses nothing
\* else: what lapses is what lapsed before or what the frame itself lets lapse.
LEMMA ExcusedAfter ==
  ASSUME NEW a \in Entry \cup {Absent}, NEW b \in Entry \cup {Absent},
         NEW c \in Command, c.op \in WriteOp, NEW k \in Key,
         NEW then \in Nat, NEW moment \in Nat, NEW time \in Nat, then <= moment, moment <= time,
         c.arg = TooLong => c.op # "SET" /\ (k = c.keys[1] => ~Alive(b, moment)),
         NEW before, NEW after,
         Dated(Logged(c, then), k, time) \/ (before /\ ~Replaces(Logged(c, then), k)) => after,
         Excused(a, b, before, time)
  PROVE  Excused(EntryAfter(a, Logged(c, then), k, time), EntryAfter(b, c, k, moment), after, time)
<1> DEFINE l == Logged(c, then)
           a2 == EntryAfter(a, l, k, time)
           b2 == EntryAfter(b, c, k, moment)
           own == k = c.keys[1]
<1> SUFFICES ASSUME b2 # Absent, ~Alive(a2, time) PROVE after
  BY DEF Excused
<1> USE DatabaseAssumption
<1>1. /\ a # Absent => a.value \in Value /\ a.expireAt \in Nat \cup {Never}
      /\ \A v, t : [value |-> v, expireAt |-> t] # Absent \/ v \notin Value \/ t \notin Nat \cup {Never}
  BY DEF Entry
<1>2. l \in Frame /\ l \in Command /\ l.keys = c.keys /\ l.value = c.value /\ l.op \in WriteOp
  BY LoggedFacts, FrameFacts
<1>3. c.op # "FLUSHDB" => c.keys \in Seq(Key) /\ c.keys # << >>
  BY WriteFields
<1>4. c.op # "FLUSHDB" /\ own => k \in ToSet(l.keys)
  <2> SUFFICES ASSUME c.op # "FLUSHDB", own PROVE k \in ToSet(c.keys)
    BY <1>2
  <2>1. 1 \in DOMAIN c.keys
    BY <1>3
  <2> QED BY <2>1 DEF ToSet
<1>5. c.op \in {"SET", "SETAT", "EXPIRE", "EXPIREAT"} /\ ~own => k \notin ToSet(l.keys)
  <2> SUFFICES ASSUME c.op \in {"SET", "SETAT", "EXPIRE", "EXPIREAT"}, k \in ToSet(c.keys) PROVE own
    BY <1>2
  <2>1. Len(c.keys) = 1 /\ c.keys \in Seq(Key)
    BY DEF Command, KeyedOp, WholeOp
  <2>2. DOMAIN c.keys = {1}
    BY <2>1
  <2> QED BY <2>2 DEF ToSet
<1>l. /\ c.op = "SET" => l.op \in {"SET", "SETAT"}
      /\ c.op = "EXPIRE" => l.op = "EXPIREAT"
      /\ c.op \notin {"SET", "EXPIRE"} => l.op = c.op
  BY LoggedFacts DEF WriteOp
<1>6. c.op # "FLUSHDB"
  BY DEF EntryAfter
<1>7. ASSUME ~Alive(a, time), b # Absent, ~Replaces(l, k) PROVE after
  BY <1>7 DEF Excused
<1>8. CASE c.op = "DEL"
  <2>1. l.op = "DEL" /\ b2 = (IF k \in ToSet(c.keys) THEN Absent ELSE b)
    BY <1>l, <1>8 DEF EntryAfter
  <2>2. k \notin ToSet(c.keys) /\ b # Absent
    BY <2>1
  <2>3. a2 = a
    BY <1>2, <2>1, <2>2 DEF EntryAfter
  <2> QED BY <1>2, <1>7, <2>1, <2>2, <2>3 DEF Replaces
<1>9. CASE c.op \in {"SET", "SETAT"} /\ ~own
  <2>1. b # Absent
    BY <1>9 DEF EntryAfter
  <2>2. a2 = IF Alive(a, time) THEN a ELSE Absent
    BY <1>2, <1>l, <1>9 DEF EntryAfter
  <2>3. ~Alive(a, time)
    BY <2>2
  <2> QED BY <1>5, <1>7, <1>9, <1>l, <2>1, <2>3 DEF Replaces
<1>10. CASE c.op \in {"SET", "SETAT"} /\ own
  <2>1. l.value \in Value
    BY <1>2, <1>10, WriteFields
  <2>2. CASE l.op = "SET"
    <3>1. l.arg = Never
      BY <1>2, <2>2 DEF Frame
    <3>2. a2 = [value |-> l.value, expireAt |-> Never]
      BY <1>2, <1>10, <2>2, <3>1 DEF EntryAfter, Deadline
    <3>3. a2 # Absent /\ a2.expireAt = Never
      BY <1>1, <2>1, <3>2
    <3> QED BY <3>3 DEF Alive
  <2>3. CASE l.op = "SETAT"
    <3>1. l.arg \in Nat
      BY <1>2, <2>3, WriteFields
    <3>2. a2 = IF l.arg <= time THEN Absent ELSE [value |-> l.value, expireAt |-> l.arg]
      BY <1>2, <1>10, <2>3 DEF EntryAfter
    <3>3. ASSUME ~(l.arg <= time) PROVE FALSE
      <4>1. a2 = [value |-> l.value, expireAt |-> l.arg]
        BY <3>2, <3>3
      <4>2. a2 # Absent /\ a2.expireAt = l.arg
        BY <1>1, <2>1, <3>1, <4>1
      <4> HIDE DEF a2, l
      <4> QED BY <3>1, <3>3, <4>2 DEF Alive
    <3>4. Dated(l, k, time)
      BY <1>4, <1>6, <1>10, <2>3, <3>3 DEF Dated
    <3> QED BY <3>4
  <2> QED BY <1>l, <1>10, <2>2, <2>3
<1>11. CASE c.op \in {"EXPIRE", "EXPIREAT"}
  <2>1. l.op = "EXPIREAT" /\ ~Replaces(l, k)
    BY <1>l, <1>11 DEF Replaces
  <2>2. b # Absent
    BY <1>11 DEF EntryAfter, Alive
  <2>3. CASE ~own
    <3>1. a2 = a
      BY <1>2, <2>1, <2>3 DEF EntryAfter
    <3> QED BY <1>7, <2>1, <2>2, <3>1
  <2>4. CASE own
    <3>1. l.arg \in Nat
      BY <1>2, <2>1, WriteFields
    <3>2. a2 = IF Alive(a, time) /\ l.arg > time
                 THEN [value |-> a.value, expireAt |-> l.arg] ELSE Absent
      BY <1>2, <2>1, <2>4 DEF EntryAfter
    <3>3. ASSUME Alive(a, time), l.arg > time PROVE FALSE
      <4>1. a2 = [value |-> a.value, expireAt |-> l.arg] /\ a.value \in Value
        BY <1>1, <3>2, <3>3 DEF Alive
      <4>2. a2 # Absent /\ a2.expireAt = l.arg
        BY <1>1, <3>1, <4>1
      <4> HIDE DEF a2, l
      <4> QED BY <3>1, <3>3, <4>2 DEF Alive
    <3>4. CASE ~Alive(a, time)
      BY <1>7, <2>1, <2>2, <3>4
    <3>5. CASE ~(l.arg > time)
      <4>1. l.arg <= time
        BY <3>1, <3>5
      <4> QED BY <1>4, <1>6, <2>1, <2>4, <4>1 DEF Dated
    <3> QED BY <3>3, <3>4, <3>5
  <2> QED BY <2>3, <2>4
<1> QED BY <1>6, <1>8, <1>9, <1>10, <1>11 DEF WriteOp

-----------------------------------------------------------------------------
(***************************************************************************)
(* Replaying a log: one more frame, a later clock, a snapshot.             *)
(***************************************************************************)

\* A file that is there is a sequence of frames, replayed to its end.
LEMMA FileFacts ==
  ASSUME NEW file \in Seq(Frame)
  PROVE  /\ file # Missing
         /\ Len(file) \in Nat
         /\ \A i \in 1 .. Len(file) : file[i] \in Frame
         /\ \A time : Replay(file, time) = Replayed(file, time, Len(file))
<1>1. file \in Seq(Command \cup {TornFrame})
  BY DEF Frame
<1> QED BY <1>1, AofAssumption DEF Replay

\* Every store a replay goes through is well typed.
LEMMA ReplayedType ==
  ASSUME NEW file \in Seq(Frame), NEW time \in Nat
  PROVE  \A i \in 0 .. Len(file) : Replayed(file, time, i) \in Data
<1> DEFINE S == {i \in 0 .. Len(file) : Replayed(file, time, i) \in Data}
<1>1. Len(file) \in Nat
  BY FileFacts
<1>2. 0 \in S
  BY <1>1, ReplayedSteps DEF EmptyData, Data
<1>3. ASSUME NEW i \in 0 .. Len(file), i \in S, i < Len(file) PROVE i + 1 \in S
  <2>1. i + 1 \in 1 .. Len(file) /\ (i + 1) - 1 = i
    BY <1>1, <1>3
  <2>2. Replayed(file, time, i + 1) = Run(Replayed(file, time, i), file[i + 1], time)
    BY <1>1, <2>1, ReplayedSteps
  <2>3. file[i + 1] \in Frame
    BY <2>1, FileFacts
  <2>4. Run(Replayed(file, time, i), file[i + 1], time) \in Data
    BY <1>3, <2>3, FrameFacts, RunByKey
  <2> QED BY <2>1, <2>2, <2>4
<1> HIDE DEF S
<1>4. \A i \in 0 .. Len(file) : i \in S
  BY <1>1, <1>2, <1>3, UpTo
<1> QED BY <1>4 DEF S

\* A replay of a whole file gives a store.
LEMMA ReplayType ==
  ASSUME NEW file \in Seq(Frame), NEW time \in Nat
  PROVE  Replay(file, time) \in Data
BY FileFacts, ReplayedType

\* The empty log is the empty store.
LEMMA ReplayEmpty ==
  ASSUME NEW time
  PROVE  Replay(<< >>, time) = EmptyData
<1>1. << >> \in Seq(Frame) /\ Len(<< >>) = 0
  OBVIOUS
<1>2. Replay(<< >>, time) = Replayed(<< >>, time, 0)
  BY <1>1, FileFacts
<1> QED BY <1>1, <1>2, ReplayedSteps

\* Replaying one frame more runs it on the store replayed so far.
LEMMA ReplayAppend ==
  ASSUME NEW file \in Seq(Frame), NEW c \in Frame, NEW time \in Nat
  PROVE  /\ Append(file, c) \in Seq(Frame)
         /\ Replay(Append(file, c), time) = Run(Replay(file, time), c, time)
<1> DEFINE longer == Append(file, c)
           N == Len(file)
           S == {i \in 0 .. N : Replayed(longer, time, i) = Replayed(file, time, i)}
<1>1. /\ N \in Nat /\ longer \in Seq(Frame) /\ Len(longer) = N + 1 /\ Len(longer) \in Nat
      /\ \A i \in 1 .. N : longer[i] = file[i]
      /\ longer[N + 1] = c
  BY FileFacts
<1> HIDE DEF longer, N
<1>2. 0 \in S
  BY <1>1, ReplayedSteps DEF N
<1>3. ASSUME NEW i \in 0 .. N, i \in S, i < N PROVE i + 1 \in S
  <2>1. i + 1 \in 1 .. N /\ i + 1 \in 1 .. Len(longer) /\ (i + 1) - 1 = i
    BY <1>1, <1>3
  <2>2. Replayed(file, time, i + 1) = Run(Replayed(file, time, i), file[i + 1], time)
    BY <1>1, <2>1, ReplayedSteps DEF N
  <2>3. Replayed(longer, time, i + 1) = Run(Replayed(longer, time, i), longer[i + 1], time)
    <3>1. \A j \in 1 .. Len(longer) :
            Replayed(longer, time, j) = Run(Replayed(longer, time, j - 1), longer[j], time)
      BY <1>1, ReplayedSteps
    <3> QED BY <2>1, <3>1
  <2> QED BY <1>1, <1>3, <2>1, <2>2, <2>3
<1>4. Replayed(longer, time, N) = Replayed(file, time, N)
  <2> HIDE DEF S
  <2>1. \A i \in 0 .. N : i \in S
    BY <1>1, <1>2, <1>3, UpTo
  <2> QED BY <1>1, <2>1 DEF S
<1>5. Replayed(longer, time, N + 1) = Run(Replayed(longer, time, N), c, time)
  <2>1. N + 1 \in 1 .. Len(longer) /\ (N + 1) - 1 = N
    BY <1>1
  <2>2. \A j \in 1 .. Len(longer) :
          Replayed(longer, time, j) = Run(Replayed(longer, time, j - 1), longer[j], time)
    BY <1>1, ReplayedSteps
  <2> QED BY <1>1, <2>1, <2>2
<1>6. Replay(longer, time) = Replayed(longer, time, N + 1) /\ Replay(file, time) = Replayed(file, time, N)
  BY <1>1, FileFacts DEF N
<1> QED BY <1>1, <1>4, <1>5, <1>6 DEF longer

\* What one frame more lets lapse, and what it leaves lapsed.
LEMMA LapsedAppend ==
  ASSUME NEW file \in Seq(Frame), NEW c \in Frame, NEW k \in Key, NEW time \in Nat,
         Dated(c, k, time) \/ (Lapsed(file, k, time) /\ ~Replaces(c, k))
  PROVE  Lapsed(Append(file, c), k, time)
<1> DEFINE longer == Append(file, c)
           N == Len(file)
<1>1. /\ N \in Nat /\ Len(longer) = N + 1
      /\ \A i \in 1 .. N : longer[i] = file[i]
      /\ longer[N + 1] = c
  BY FileFacts
<1> HIDE DEF longer, N
<1>2. CASE Dated(c, k, time)
  <2>1. N + 1 \in 1 .. Len(longer) /\ Dated(longer[N + 1], k, time)
    BY <1>1, <1>2
  <2>2. \A j \in (N + 1) + 1 .. Len(longer) : FALSE
    BY <1>1
  <2> QED BY <2>1, <2>2 DEF Lapsed, longer
<1>3. CASE Lapsed(file, k, time) /\ ~Replaces(c, k)
  <2>1. PICK i \in 1 .. N :
          Dated(file[i], k, time) /\ \A j \in i + 1 .. N : ~Replaces(file[j], k)
    BY <1>3 DEF Lapsed, N
  <2>2. i \in 1 .. Len(longer) /\ Dated(longer[i], k, time)
    BY <1>1, <2>1
  <2>3. ASSUME NEW j \in i + 1 .. Len(longer) PROVE ~Replaces(longer[j], k)
    <3>1. CASE j = N + 1
      BY <1>1, <1>3, <3>1
    <3>2. CASE j # N + 1
      <4>1. j \in i + 1 .. N /\ j \in 1 .. N
        BY <1>1, <3>2
      <4> QED BY <1>1, <2>1, <4>1
    <3> QED BY <3>1, <3>2
  <2> QED BY <2>2, <2>3 DEF Lapsed, longer
<1> QED BY <1>2, <1>3

\* Nothing of a store is missing from what a file replays to but what lapsed.
Spares(file, stored, time) ==
  \A k \in Key : Excused(Replay(file, time)[k], stored[k], Lapsed(file, k, time), time)

\* The empty log is the log of the empty store.
LEMMA SparesNothing ==
  ASSUME NEW file, NEW time
  PROVE  Spares(file, EmptyData, time)
BY DEF Spares, Excused, EmptyData

\* A command is logged and then executed.
LEMMA SparesAfter ==
  ASSUME NEW file \in Seq(Frame), NEW e \in Data, NEW c \in Command, c.op \in WriteOp,
         NEW then \in Nat, NEW moment \in Nat, NEW time \in Nat, then <= moment, moment <= time,
         ~Overflows(e, c, moment),
         Spares(file, e, time)
  PROVE  Spares(Append(file, Logged(c, then)), Run(e, c, moment), time)
<1>1. /\ Logged(c, then) \in Frame
      /\ Logged(c, then) \in Command /\ Logged(c, then).op \in WriteOp
      /\ Replay(file, time) \in Data
  BY LoggedFacts, FrameFacts, ReplayType
<1> DEFINE r == Replay(file, time)
           longer == Append(file, Logged(c, then))
<1>2. ~Overflows(r, Logged(c, then), time)
  BY <1>1, FrameFacts
<1>3. /\ Replay(longer, time) = [k \in Key |-> EntryAfter(r[k], Logged(c, then), k, time)]
      /\ Run(e, c, moment) = [k \in Key |-> EntryAfter(e[k], c, k, moment)]
  BY <1>1, <1>2, ReplayAppend, RunByKey
<1> HIDE DEF longer
<1>4. ASSUME NEW k \in Key
      PROVE  Excused(EntryAfter(r[k], Logged(c, then), k, time), EntryAfter(e[k], c, k, moment),
                     Lapsed(longer, k, time), time)
  <2>1. r[k] \in Entry \cup {Absent} /\ e[k] \in Entry \cup {Absent}
    BY <1>1 DEF Data
  <2>2. Excused(r[k], e[k], Lapsed(file, k, time), time)
    BY DEF Spares
  <2>3. c.arg = TooLong => c.op # "SET" /\ (k = c.keys[1] => ~Alive(e[k], moment))
    BY EntryFacts DEF Overflows
  <2>4. Dated(Logged(c, then), k, time) \/ (Lapsed(file, k, time) /\ ~Replaces(Logged(c, then), k))
          => Lapsed(longer, k, time)
    BY <1>1, LapsedAppend DEF longer
  <2> HIDE DEF r
  <2> QED BY <2>1, <2>2, <2>3, <2>4, ExcusedAfter
<1> QED BY <1>3, <1>4 DEF Spares, longer

\* A log replayed later misses nothing of what it once was replayed to but what
\* lapsed meanwhile.
LEMMA SparesLater ==
  ASSUME NEW file \in Seq(Frame), NEW moment \in Nat, NEW time \in Nat, moment <= time
  PROVE  Spares(file, Replay(file, moment), time)
<1> DEFINE N == Len(file)
           pre(i) == SubSeq(file, 1, i)
           S == {i \in 0 .. N : Spares(pre(i), Replay(pre(i), moment), time)}
<1>1. N \in Nat /\ \A i \in 1 .. N : file[i] \in Frame
  BY FileFacts
<1>2. 0 \in S
  <2>1. pre(0) = << >>
    OBVIOUS
  <2>2. Replay(pre(0), moment) = EmptyData
    BY <2>1, ReplayEmpty
  <2> HIDE DEF pre
  <2> QED BY <1>1, <2>2, SparesNothing
<1>3. ASSUME NEW i \in 0 .. N, i \in S, i < N PROVE i + 1 \in S
  <2>1. i + 1 \in 1 .. N /\ file[i + 1] \in Frame
    BY <1>1, <1>3
  <2> DEFINE c == file[i + 1]
  <2>2. pre(i) \in Seq(Frame) /\ pre(i + 1) = Append(pre(i), c)
    BY <1>1, <2>1
  <2>3. c \in Command /\ c.op \in WriteOp /\ Logged(c, moment) = c
    BY <2>1, FrameFacts
  <2>4. Replay(pre(i), moment) \in Data /\ ~Overflows(Replay(pre(i), moment), c, moment)
    BY <2>1, <2>2, ReplayType, FrameFacts
  <2>5. Spares(pre(i), Replay(pre(i), moment), time)
    BY <1>3
  <2>6. c \in Frame
    BY <2>1
  <2>7. i + 1 \in 0 .. N
    BY <1>1, <2>1
  <2>8. Spares(pre(i + 1), Replay(pre(i + 1), moment), time)
    <3> HIDE DEF c, pre, S, N
    <3>1. Replay(pre(i + 1), moment) = Run(Replay(pre(i), moment), c, moment)
      BY <2>2, <2>6, ReplayAppend
    <3>2. Spares(Append(pre(i), Logged(c, moment)), Run(Replay(pre(i), moment), c, moment), time)
      BY <2>2, <2>3, <2>4, <2>5, SparesAfter
    <3> QED BY <2>2, <2>3, <3>1, <3>2
  <2> HIDE DEF c, pre, N
  <2> QED BY <2>7, <2>8 DEF S
<1>4. N \in S
  <2> HIDE DEF S, N, pre
  <2>1. \A i \in 0 .. N : i \in S
    BY <1>1, <1>2, <1>3, UpTo
  <2> QED BY <1>1, <2>1
<1>5. pre(N) = file
  BY <1>1
<1> HIDE DEF pre
<1> QED BY <1>4, <1>5

\* A log replayed later agrees with the store it once was replayed to.
LEMMA ReplayLater ==
  ASSUME NEW file \in Seq(Frame), NEW moment \in Nat, NEW time \in Nat, moment <= time
  PROVE  Agrees(Replay(file, time), Replay(file, moment), time)
<1> DEFINE N == Len(file)
           S == {i \in 0 .. N : Agrees(Replayed(file, time, i), Replayed(file, moment, i), time)}
<1>1. N \in Nat
  BY FileFacts
<1>2. 0 \in S
  <2>1. Replayed(file, time, 0) = EmptyData /\ Replayed(file, moment, 0) = EmptyData
    BY <1>1, ReplayedSteps
  <2>2. Agrees(EmptyData, EmptyData, time)
    BY DEF Agrees, Matches, Alive, EmptyData
  <2> QED BY <1>1, <2>1, <2>2
<1>3. ASSUME NEW i \in 0 .. N, i \in S, i < N PROVE i + 1 \in S
  <2>1. i + 1 \in 1 .. N /\ (i + 1) - 1 = i
    BY <1>1, <1>3
  <2>2. /\ Replayed(file, time, i + 1) = Run(Replayed(file, time, i), file[i + 1], time)
        /\ Replayed(file, moment, i + 1) = Run(Replayed(file, moment, i), file[i + 1], moment)
    BY <1>1, <2>1, ReplayedSteps
  <2>3. file[i + 1] \in Frame
    BY <2>1, FileFacts
  <2>4. Replayed(file, time, i) \in Data /\ Replayed(file, moment, i) \in Data
    BY ReplayedType
  <2>5. /\ file[i + 1] \in Command /\ file[i + 1].op \in WriteOp
        /\ Logged(file[i + 1], moment) = file[i + 1]
        /\ ~Overflows(Replayed(file, moment, i), file[i + 1], moment)
    BY <2>3, FrameFacts
  <2>6. Agrees(Replayed(file, time, i), Replayed(file, moment, i), time)
    BY <1>3
  <2>7. Agrees(Run(Replayed(file, time, i), Logged(file[i + 1], moment), time),
               Run(Replayed(file, moment, i), file[i + 1], moment), time)
    BY <2>4, <2>5, <2>6, AgreesAfter
  <2> QED BY <2>1, <2>2, <2>5, <2>7
<1>4. N \in S
  <2> HIDE DEF S, N
  <2>1. \A i \in 0 .. N : i \in S
    BY <1>1, <1>2, <1>3, UpTo
  <2> QED BY <1>1, <2>1
<1> QED BY <1>4, FileFacts

\* The frame a snapshot holds for one stored key.
EntryFrame(d, k) ==
  [op    |-> IF d[k].expireAt = Never THEN "SET" ELSE "SETAT",
   keys  |-> <<k>>, value |-> d[k].value, arg |-> d[k].expireAt]

\* The frame that the rewrite writes for an entry names the entry's key.
LEMMA EntryFrameFacts ==
  ASSUME NEW d \in Data, NEW k \in Stored(d)
  PROVE  /\ EntryFrame(d, k) \in Frame
         /\ EntryFrame(d, k).keys[1] = k
<1>1. k \in Key /\ d[k] # Absent
  BY DEF Stored
<1>2. d[k].value \in Value /\ d[k].expireAt \in Nat \cup {Never}
  BY <1>1, EntryFacts, DatabaseAssumption
<1>3. <<k>> \in Seq(Key) /\ Len(<<k>>) = 1 /\ <<k>> # << >> /\ <<k>>[1] = k
  BY <1>1
<1> DEFINE x == EntryFrame(d, k)
<1>4. x \in [op : KeyedOp \cup WholeOp, keys : Seq(Key), value : Value \cup {Absent},
             arg : Nat \cup {Never, TooLong}]
  BY <1>2, <1>3 DEF EntryFrame, KeyedOp, WholeOp
<1>5. /\ x.keys = <<k>> /\ x.value \in Value
      /\ \/ x.op = "SET" /\ x.arg = Never
         \/ x.op = "SETAT" /\ x.arg \in Nat
  BY <1>2 DEF EntryFrame
<1> HIDE DEF x
<1>6. x \in Command
  BY <1>3, <1>4, <1>5 DEF Command, KeyedOp, WholeOp
<1>7. x \in Frame /\ x.keys[1] = k
  BY <1>3, <1>5, <1>6 DEF Frame, WriteOp
<1> QED BY <1>7 DEF x

\* A snapshot holds one frame for every stored key, and no others.
LEMMA SnapshotFile ==
  ASSUME NEW d \in Data
  PROVE  /\ SnapshotFrames(d) \in Seq(Frame)
         /\ \A i \in 1 .. Len(SnapshotFrames(d)) :
              \E k \in Stored(d) : SnapshotFrames(d)[i] = EntryFrame(d, k)
         /\ \A k \in Stored(d) :
              \E i \in 1 .. Len(SnapshotFrames(d)) : SnapshotFrames(d)[i] = EntryFrame(d, k)
         /\ \A i, j \in 1 .. Len(SnapshotFrames(d)) :
              SnapshotFrames(d)[i] = SnapshotFrames(d)[j] => i = j
<1> DEFINE F == {EntryFrame(d, k) : k \in Stored(d)}
           n == Cardinality(F)
           f == SnapshotFrames(d)
<1>1. IsFiniteSet(F)
  <2> DEFINE g == [k \in Stored(d) |-> EntryFrame(d, k)]
  <2>1. IsFiniteSet(Stored(d))
    BY DatabaseAssumption, FS_Subset DEF Stored
  <2>2. g \in Surjection(Stored(d), F)
    BY DEF Surjection
  <2> HIDE DEF g, F
  <2> QED BY <2>1, <2>2, FS_Surjection
<1>2. n \in Nat /\ ExistsBijection(1 .. n, F)
  <2> HIDE DEF F
  <2> QED BY <1>1, FS_CardinalityType
<1>3. f = SetToSeq(F)
  BY DEF SnapshotFrames, EntryFrame
<1> HIDE DEF F, n, f
<1>4. f \in [1 .. n -> F] /\ IsInjective(f)
  <2>1. PICK g : g \in Bijection(1 .. n, F)
    BY <1>2 DEF ExistsBijection
  <2>2. g \in [1 .. n -> F] /\ IsInjective(g)
    BY <2>1 DEF Bijection, Injection, IsInjective
  <2>3. f = CHOOSE h \in [1 .. n -> F] : IsInjective(h)
    BY <1>3 DEF SetToSeq, n
  <2> QED BY <2>2, <2>3
<1>5. f \in Surjection(1 .. n, F)
  <2>1. f \in Injection(1 .. n, F)
    BY <1>4 DEF Injection, IsInjective
  <2>2. Cardinality(1 .. n) = n
    <3>1. n \in Int /\ 1 \in Int
      BY <1>2
    <3>2. Cardinality(1 .. n) = IF 1 > n THEN 0 ELSE n - 1 + 1
      BY <3>1, FS_Interval
    <3> QED BY <1>2, <3>2
  <2>3. Cardinality(1 .. n) = Cardinality(F)
    BY <2>2 DEF n
  <2> QED BY <1>1, <2>1, <2>3, FS_Injection
<1>6. \A x \in F : \E i \in 1 .. n : f[i] = x
  BY <1>5 DEF Surjection
<1>7. F \subseteq Frame
  BY EntryFrameFacts DEF F
<1>8. f \in Seq(Frame) /\ Len(f) = n
  BY <1>2, <1>4, <1>7
<1>9. \A i, j \in 1 .. Len(f) : f[i] = f[j] => i = j
  BY <1>4, <1>8 DEF IsInjective
<1> QED BY <1>4, <1>6, <1>8, <1>9 DEF F, f

\* Replaying a snapshot gives the entries of the store that are still alive.
LEMMA SnapshotReplay ==
  ASSUME NEW d \in Data, NEW time \in Nat
  PROVE  Replay(SnapshotFrames(d), time) = LiveView(d, time)
<1> DEFINE f == SnapshotFrames(d)
           N == Len(f)
           Loaded(i, k) == \E j \in 1 .. i : f[j].keys[1] = k
           Part(i) == [k \in Key |-> IF Loaded(i, k) /\ Alive(d[k], time) THEN d[k] ELSE Absent]
           S == {i \in 0 .. N : Replayed(f, time, i) = Part(i)}
<1>1. f \in Seq(Frame) /\ N \in Nat
  BY SnapshotFile, FileFacts
<1>2. 0 \in S
  <2>1. Part(0) = EmptyData
    BY DEF EmptyData
  <2> HIDE DEF Part, f
  <2> QED BY <1>1, <2>1, ReplayedSteps
<1>3. ASSUME NEW i \in 0 .. N, i \in S, i < N PROVE i + 1 \in S
  <2>1. i + 1 \in 1 .. N /\ i + 1 \in 0 .. N /\ (i + 1) - 1 = i
    BY <1>1, <1>3
  <2>2. PICK own \in Stored(d) : f[i + 1] = EntryFrame(d, own)
    BY <2>1, SnapshotFile
  <2>3. own \in Key /\ d[own] # Absent
    BY DEF Stored
  <2>4. f[i + 1].keys[1] = own /\ f[i + 1] \in Frame
    BY <2>2, EntryFrameFacts
  <2>5. ASSUME NEW k PROVE Loaded(i + 1, k) <=> Loaded(i, k) \/ k = own
    <3> HIDE DEF f, N
    <3> QED BY <2>1, <2>4
  <2> HIDE DEF f, N, Loaded
  <2>6. Replayed(f, time, i + 1) = Run(Part(i), f[i + 1], time)
    <3>1. \A j \in 1 .. N : Replayed(f, time, j) = Run(Replayed(f, time, j - 1), f[j], time)
      BY <1>1, ReplayedSteps DEF N
    <3> HIDE DEF Part
    <3> QED BY <1>3, <2>1, <3>1
  <2>7. Part(i) \in Data /\ \A k \in Key : Part(i)[k] = Absent \/ Alive(Part(i)[k], time)
    BY DEF Data
  <2>8. Run(Part(i), f[i + 1], time) = [k \in Key |-> EntryAfter(Part(i)[k], f[i + 1], k, time)]
    <3> HIDE DEF Part
    <3> QED BY <2>4, <2>7, FrameFacts, RunByKey
  <2>9. ASSUME NEW k \in Key
        PROVE  EntryAfter(Part(i)[k], f[i + 1], k, time) = Part(i + 1)[k]
    <3> DEFINE e == Part(i)[k]
               c == f[i + 1]
    <3> SUFFICES EntryAfter(e, c, k, time) = Part(i + 1)[k]
      OBVIOUS
    <3>1. e = IF Alive(e, time) THEN e ELSE Absent
      BY <2>7
    <3>2. d[own] = [value |-> d[own].value, expireAt |-> d[own].expireAt]
          /\ d[own].expireAt \in Nat \cup {Never}
      BY <2>3, EntryFacts, DatabaseAssumption
    <3>3. CASE d[own].expireAt = Never
      <4>1. c.op = "SET" /\ c.arg = Never /\ c.value = d[own].value /\ c.keys[1] = own
        BY <2>2, <2>4, <3>3 DEF EntryFrame
      <4>2. EntryAfter(e, c, k, time)
              = IF k = own THEN [value |-> d[own].value, expireAt |-> Never]
                           ELSE IF Alive(e, time) THEN e ELSE Absent
        <5> HIDE DEF e, c
        <5> QED BY <4>1 DEF EntryAfter, Deadline
      <4>3. Alive(d[own], time)
        BY <2>3, <3>3 DEF Alive
      <4>4. CASE k = own
        BY <2>5, <3>2, <3>3, <4>2, <4>3, <4>4
      <4>5. CASE k # own
        <5>1. Part(i + 1)[k] = e
          BY <2>5, <4>5
        <5> HIDE DEF e, c, Part
        <5> QED BY <3>1, <4>2, <4>5, <5>1
      <4> QED BY <4>4, <4>5
    <3>4. CASE d[own].expireAt # Never
      <4>1. c.op = "SETAT" /\ c.arg = d[own].expireAt /\ c.value = d[own].value /\ c.keys[1] = own
        BY <2>2, <2>4, <3>4 DEF EntryFrame
      <4>2. EntryAfter(e, c, k, time)
              = IF k = own THEN IF d[own].expireAt <= time THEN Absent ELSE d[own]
                           ELSE IF Alive(e, time) THEN e ELSE Absent
        <5> HIDE DEF e, c
        <5> QED BY <3>2, <4>1 DEF EntryAfter
      <4>3. Alive(d[own], time) <=> ~(d[own].expireAt <= time)
        BY <2>3, <3>2, <3>4 DEF Alive
      <4>4. CASE k = own
        <5>1. Part(i + 1)[k] = IF Alive(d[own], time) THEN d[own] ELSE Absent
          BY <2>5, <4>4
        <5> HIDE DEF Part, e, c
        <5> QED BY <4>2, <4>3, <4>4, <5>1
      <4>5. CASE k # own
        <5>1. Part(i + 1)[k] = e
          BY <2>5, <4>5
        <5> HIDE DEF e, c, Part
        <5> QED BY <3>1, <4>2, <4>5, <5>1
      <4> QED BY <4>4, <4>5
    <3> QED BY <3>3, <3>4
  <2>10. Run(Part(i), f[i + 1], time) = Part(i + 1)
    BY <2>8, <2>9
  <2> HIDE DEF Part
  <2> QED BY <2>1, <2>6, <2>10
<1>4. Replay(f, time) = Part(N)
  <2> HIDE DEF S, N, f, Part
  <2>1. N \in S
    <3>1. \A i \in 0 .. N : i \in S
      BY <1>1, <1>2, <1>3, UpTo
    <3> QED BY <1>1, <3>1
  <2>2. Replay(f, time) = Replayed(f, time, N)
    BY <1>1, FileFacts DEF N
  <2> QED BY <2>1, <2>2 DEF S
<1>5. ASSUME NEW k \in Key PROVE Part(N)[k] = LiveView(d, time)[k]
  <2>1. d[k] # Absent => Loaded(N, k)
    <3>1. d[k] # Absent => k \in Stored(d)
      BY DEF Stored
    <3>2. k \in Stored(d) => \E j \in 1 .. N : f[j] = EntryFrame(d, k)
      BY SnapshotFile
    <3>3. k \in Stored(d) => EntryFrame(d, k).keys[1] = k
      BY EntryFrameFacts
    <3> HIDE DEF f, N
    <3> QED BY <3>1, <3>2, <3>3
  <2>2. LiveView(d, time)[k] = IF Alive(d[k], time) THEN d[k] ELSE Absent
    BY EntryFacts
  <2> HIDE DEF Loaded, f, N
  <2> QED BY <2>1, <2>2 DEF Alive
<1>6. Part(N) = LiveView(d, time)
  <2> HIDE DEF Loaded, N
  <2> QED BY <1>5 DEF LiveView
<1> QED BY <1>4, <1>6

\* A snapshot loses nothing but what lapses: its frames carry the deadlines.
LEMMA SparesSnapshot ==
  ASSUME NEW d \in Data, NEW e \in Data, NEW time \in Nat,
         \A k \in Key : e[k] # Absent => e[k] = d[k]
  PROVE  Spares(SnapshotFrames(d), e, time)
<1> DEFINE f == SnapshotFrames(d)
<1>1. ASSUME NEW k \in Key, e[k] # Absent, ~Alive(Replay(f, time)[k], time)
      PROVE  Lapsed(f, k, time)
  <2>1. e[k] = d[k] /\ d[k] # Absent
    BY <1>1
  <2>2. Replay(f, time)[k] = IF Alive(d[k], time) THEN d[k] ELSE Absent
    <3>1. Replay(f, time) = LiveView(d, time)
      BY SnapshotReplay
    <3>2. LiveView(d, time)[k] = IF Alive(d[k], time) THEN d[k] ELSE Absent
      BY EntryFacts
    <3> QED BY <3>1, <3>2
  <2>3. ~Alive(d[k], time)
    <3> HIDE DEF f
    <3> QED BY <1>1, <2>2
  <2>4. d[k].expireAt \in Nat /\ d[k].expireAt <= time
    <3>1. d[k].expireAt \in Nat \cup {Never}
      BY <2>1, EntryFacts
    <3> QED BY <2>1, <2>3, <3>1 DEF Alive
  <2>5. k \in Stored(d)
    BY <2>1 DEF Stored
  <2>6. PICK i \in 1 .. Len(f) : f[i] = EntryFrame(d, k)
    BY <2>5, SnapshotFile
  <2>7. Dated(f[i], k, time)
    <3>1. EntryFrame(d, k).op = "SETAT" /\ EntryFrame(d, k).keys = <<k>> /\ EntryFrame(d, k).arg = d[k].expireAt
      BY <2>4, DatabaseAssumption DEF EntryFrame
    <3>2. k \in ToSet(<<k>>)
      BY DEF ToSet
    <3> HIDE DEF f
    <3> QED BY <2>4, <2>6, <3>1, <3>2 DEF Dated
  <2>8. ASSUME NEW j \in i + 1 .. Len(f) PROVE ~Replaces(f[j], k)
    <3>1. Len(f) \in Nat
      BY SnapshotFile, FileFacts
    <3> HIDE DEF f
    <3>2. j \in 1 .. Len(f) /\ j # i
      BY <3>1
    <3>3. PICK other \in Stored(d) : f[j] = EntryFrame(d, other)
      BY <3>2, SnapshotFile DEF f
    <3>4. f[i] # f[j]
      BY <3>2, SnapshotFile DEF f
    <3>5. other # k
      BY <2>6, <3>3, <3>4
    <3>6. f[j].keys = <<other>> /\ f[j].op # "FLUSHDB"
      BY <3>3 DEF EntryFrame
    <3>7. ToSet(<<other>>) = {other}
      BY DEF ToSet
    <3> QED BY <3>5, <3>6, <3>7 DEF Replaces
  <2> HIDE DEF f
  <2> QED BY <2>7, <2>8 DEF Lapsed
<1> QED BY <1>1 DEF Spares, Excused

-----------------------------------------------------------------------------
(***************************************************************************)
(* The inductive invariant.                                                *)
(***************************************************************************)

\* Stages of a client that has the barrier for reading, of a rewrite that has
\* it for writing, and of either when it has the engine.
Reading == {"engine", "append", "sync", "execute", "respond"}
Rewriting == RewriteStage \ {"idle", "size", "barrier"}
Engaged == {"append", "sync", "execute", "respond"} \cup (Rewriting \ {"snapshot", "engine"})

\* A client between log and store.
Pending == {"sync", "execute"}

\* A rewrite that will still write or promote its snapshot, one that has
\* written it, and one that has taken the handle.
Snapped == {"engine", "temp", "flush", "unbackup", "backup", "promote"}
Written == {"flush", "unbackup", "backup", "promote"}
Taken == {"unbackup", "backup", "promote", "restore", "cleanup", "reopen"}

StagesOK ==
  /\ \A t \in Client : pc[t] \in ClientStage /\ (pc[t] # "idle" => cmd[t] \in Writes)
  /\ pc[R] \in RewriteStage
  /\ status # "up" => \A t \in Task : pc[t] = "idle"

LocksOK ==
  /\ \A t \in Client : pc[t] \in Reading => t \in barrier.readers
  /\ pc[R] \in Rewriting => R \in barrier.writers
  /\ barrier.writers = {} \/ barrier.readers = {}
  /\ \A t \in Task : pc[t] \in Engaged => t \in engine.writers
  /\ \A t, u \in engine.writers : t = u

LogFile == Seq(Frame \cup {TornFrame}) \cup {Missing}

FilesOK ==
  /\ path \in LogFile /\ temp \in LogFile /\ backup \in LogFile
  /\ handle = "open" => path # Missing
  /\ pc[R] \in Taken => handle = "closed"
  /\ pc[R] \in {"unbackup", "backup"} => path # Missing
  /\ InWindow => backup # Missing
  /\ pc[R] \in Written => temp = SnapshotFrames(snapshot)

\* A store is what the file replays to at that time, but for what lapsed in the file.
FileAgrees(file, stored, time) == Agrees(Replay(file, time), stored, time) /\ Spares(file, stored, time)

\* The store is what the file replays to, now and at every later moment.
AgreesFromNow(file) ==
  \A time \in Nat : now <= time => FileAgrees(file, db, time)

\* A snapshot's live entries are the store's, which holds no others.
SnapshotAgrees(shot, stored, time) ==
  /\ Agrees(LiveView(shot, time), stored, time)
  /\ \A k \in Key : stored[k] # Absent => stored[k] = shot[k]

Readable(file) == file # Missing /\ TornFrame \notin ToSet(file)

Covers(file) == status = "up" /\ ~damaged /\ Readable(file) => AgreesFromNow(file)

\* The log covers the store, short of the one frame whose command is not
\* executed yet.
LogCovers ==
  /\ (\A t \in Client : pc[t] \notin Pending) => Covers(path)
  /\ \A t \in Client : pc[t] \in Pending =>
       \E base \in Seq(Frame \cup {TornFrame}), then \in 0 .. now :
         path = Append(base, Logged(cmd[t], then)) /\ Covers(base)

\* So do the snapshot on its way to the disk and, in the window, the backup.
RewriteCovers ==
  /\ pc[R] \in Snapped =>
       \A time \in Nat : now <= time => SnapshotAgrees(snapshot, db, time)
  /\ InWindow => Covers(backup)

\* After a crash the log replays to what was promised, whenever it is replayed.
PromisesLogged ==
  status = "down" /\ ~damaged /\ Readable(path) =>
    \A time \in Nat, k \in Key :
      now <= time /\ promised[k] # Absent => Replay(path, time)[k] = promised[k]

IInv ==
  /\ TypeOK
  /\ StagesOK
  /\ LocksOK
  /\ FilesOK
  /\ LogCovers
  /\ RewriteCovers
  /\ PromisesLogged

-----------------------------------------------------------------------------
(***************************************************************************)
(* Facts about files, entries and locks that the steps need.               *)
(***************************************************************************)

\* Every log file is a file of the model; an intact one replays.
LEMMA LogFileFacts ==
  ASSUME NEW file \in LogFile
  PROVE  /\ file \in File
         /\ Readable(file) => file \in Seq(Frame)
         /\ file # Missing => file \in Seq(Frame \cup {TornFrame})
<1>1. Seq(Frame \cup {TornFrame}) \subseteq Seq(Command \cup {TornFrame})
  BY DEF Frame
<1>2. ASSUME Readable(file) PROVE file \in Seq(Frame)
  <2>1. file \in Seq(Frame \cup {TornFrame}) /\ \A i \in DOMAIN file : file[i] # TornFrame
    BY <1>2 DEF Readable, LogFile, ToSet
  <2>2. DOMAIN file = 1 .. Len(file) /\ Len(file) \in Nat
    BY <2>1
  <2>3. \A i \in 1 .. Len(file) : file[i] \in Frame
    BY <2>1, <2>2
  <2> QED BY <2>1, <2>2, <2>3
<1> QED BY <1>1, <1>2 DEF LogFile, File

\* Neither a frame nor a file with one more frame is a special value.
LEMMA AppendFacts ==
  ASSUME NEW file \in Seq(Frame \cup {TornFrame}), NEW c \in Frame \cup {TornFrame}
  PROVE  /\ Append(file, c) \in LogFile
         /\ Append(file, c) # Missing
         /\ Front(Append(file, c)) = file
         /\ Readable(Append(file, c)) => Readable(file) /\ c # TornFrame
<1>1. Append(file, c) \in Seq(Frame \cup {TornFrame})
  OBVIOUS
<1>2. \A f \in Seq(Frame \cup {TornFrame}) : f # Missing
  <2>1. Seq(Frame \cup {TornFrame}) \subseteq Seq(Command \cup {TornFrame})
    BY DEF Frame
  <2> QED BY <2>1, AofAssumption
<1>3. Front(Append(file, c)) = file
  <2>1. /\ Len(Append(file, c)) = Len(file) + 1 /\ Len(file) \in Nat
        /\ \A i \in 1 .. Len(file) : Append(file, c)[i] = file[i]
    OBVIOUS
  <2>2. Front(Append(file, c)) = SubSeq(Append(file, c), 1, Len(file))
    BY <2>1 DEF Front
  <2>3. SubSeq(Append(file, c), 1, Len(file)) = [i \in 1 .. Len(file) |-> Append(file, c)[i]]
    BY <2>1
  <2>4. file = [i \in 1 .. Len(file) |-> file[i]]
    OBVIOUS
  <2> QED BY <2>1, <2>2, <2>3, <2>4
<1>4. ASSUME Readable(Append(file, c)) PROVE Readable(file) /\ c # TornFrame
  <2>1. /\ Len(Append(file, c)) = Len(file) + 1 /\ Len(file) \in Nat
        /\ DOMAIN file = 1 .. Len(file)
        /\ DOMAIN Append(file, c) = 1 .. Len(file) + 1
        /\ \A i \in 1 .. Len(file) : Append(file, c)[i] = file[i]
        /\ Append(file, c)[Len(file) + 1] = c
    OBVIOUS
  <2>2. \A i \in 1 .. Len(file) + 1 : Append(file, c)[i] # TornFrame
    BY <1>4, <2>1 DEF Readable, ToSet
  <2>3. \A i \in 1 .. Len(file) : file[i] # TornFrame
    BY <2>1, <2>2
  <2>4. c # TornFrame
    BY <2>1, <2>2
  <2> QED BY <1>2, <2>1, <2>3, <2>4 DEF Readable, ToSet
<1> QED BY <1>1, <1>2, <1>3, <1>4 DEF LogFile

\* A store agrees with itself, and keeps agreeing with what is loaded when its
\* expired entries are removed.
LEMMA AgreesSwept ==
  ASSUME NEW r, NEW d \in Data, NEW moment \in Nat, NEW time \in Nat, moment <= time,
         Agrees(r, d, time)
  PROVE  Agrees(r, LiveView(d, moment), time)
<1>1. ASSUME NEW k \in Key PROVE Matches(r[k], LiveView(d, moment)[k], time)
  <2>1. Matches(r[k], d[k], time)
    BY DEF Agrees
  <2>2. LiveView(d, moment)[k] = IF Alive(d[k], moment) THEN d[k] ELSE Absent
    BY EntryFacts
  <2>3. Alive(d[k], time) => Alive(d[k], moment)
    <3>1. d[k] # Absent => d[k].expireAt \in Nat \cup {Never}
      BY EntryFacts
    <3> QED BY <3>1 DEF Alive
  <2>4. d[k] # Absent /\ d[k].expireAt = Never => Alive(d[k], moment)
    BY DEF Alive
  <2> QED BY <2>1, <2>2, <2>3, <2>4 DEF Matches, Alive
<1> QED BY <1>1 DEF Agrees

\* What is removed as expired was alive in no replay, and needs no excuse.
LEMMA FileAgreesSwept ==
  ASSUME NEW file, NEW d \in Data, NEW moment \in Nat, NEW time \in Nat, moment <= time,
         FileAgrees(file, d, time)
  PROVE  FileAgrees(file, LiveView(d, moment), time)
<1>1. \A k \in Key : LiveView(d, moment)[k] = IF Alive(d[k], moment) THEN d[k] ELSE Absent
  BY EntryFacts
<1>2. Spares(file, LiveView(d, moment), time)
  BY <1>1 DEF FileAgrees, Spares, Excused
<1>3. Agrees(Replay(file, time), LiveView(d, moment), time)
  <2>1. PICK r : r = Replay(file, time)
    OBVIOUS
  <2>2. Agrees(r, d, time)
    BY <2>1 DEF FileAgrees
  <2> QED BY <2>1, <2>2, AgreesSwept
<1> QED BY <1>2, <1>3 DEF FileAgrees

\* Nor does a sweep remove what a snapshot holds alive.
LEMMA SnapshotAgreesSwept ==
  ASSUME NEW shot, NEW d \in Data, NEW moment \in Nat, NEW time \in Nat, moment <= time,
         SnapshotAgrees(shot, d, time)
  PROVE  SnapshotAgrees(shot, LiveView(d, moment), time)
<1>1. \A k \in Key : LiveView(d, moment)[k] = IF Alive(d[k], moment) THEN d[k] ELSE Absent
  BY EntryFacts
<1>2. Agrees(LiveView(shot, time), LiveView(d, moment), time)
  <2>1. PICK r : r = LiveView(shot, time)
    OBVIOUS
  <2>2. Agrees(r, d, time)
    BY <2>1 DEF SnapshotAgrees
  <2> QED BY <2>1, <2>2, AgreesSwept
<1> QED BY <1>1, <1>2 DEF SnapshotAgrees

\* A snapshot agrees with the store it was taken of.
LEMMA AgreesWithItself ==
  ASSUME NEW d \in Data, NEW time \in Nat
  PROVE  SnapshotAgrees(d, d, time)
<1>1. ASSUME NEW k \in Key PROVE Matches(LiveView(d, time)[k], d[k], time)
  <2>1. LiveView(d, time)[k] = IF Alive(d[k], time) THEN d[k] ELSE Absent
    BY EntryFacts
  <2>2. d[k] # Absent => d[k].expireAt \in Nat \cup {Never}
    BY EntryFacts
  <2> QED BY <2>1, <2>2, DatabaseAssumption DEF Matches, Alive
<1> QED BY <1>1 DEF SnapshotAgrees, Agrees

\* LiveView keeps the type of a store.
LEMMA LiveViewType ==
  ASSUME NEW d \in Data, NEW time
  PROVE  LiveView(d, time) \in Data
BY DEF LiveView, Data

\* A permanent entry of a key that a logged command does not name is still
\* there when the command is replayed.
LEMMA PermanentKept ==
  ASSUME NEW d \in Data, NEW c \in Command, c.op \in WriteOp, NEW then \in Nat, NEW time \in Nat,
         NEW k \in Key, c.op # "FLUSHDB", k \notin ToSet(c.keys),
         d[k] # Absent, d[k].expireAt = Never
  PROVE  Run(d, Logged(c, then), time)[k] = d[k]
<1> DEFINE l == Logged(c, then)
<1>1. /\ l \in Frame /\ l.keys = c.keys
      /\ l.op # "FLUSHDB"
  BY LoggedFacts
<1>2. c.keys # << >> /\ c.keys \in Seq(Key)
  BY WriteFields
<1>3. k # c.keys[1]
  <2>1. 1 \in DOMAIN c.keys
    BY <1>2
  <2> QED BY <2>1 DEF ToSet
<1>4. l \in Command /\ l.op \in WriteOp /\ ~Overflows(d, l, time)
  BY <1>1, FrameFacts
<1>5. Run(d, l, time)[k] = EntryAfter(d[k], l, k, time)
  BY <1>4, RunByKey
<1>6. Alive(d[k], time)
  BY DEF Alive
<1> HIDE DEF l
<1>7. EntryAfter(d[k], l, k, time) = d[k]
  BY <1>1, <1>3, <1>4, <1>6 DEF EntryAfter, WriteOp
<1> QED BY <1>5, <1>7 DEF l

\* What waiting for a lock, being granted it and dropping it change.
LEMMA LockFacts ==
  ASSUME NEW lock \in Lock, NEW t \in Task
  PROVE  /\ Wait(lock, t) \in Lock
         /\ Wait(lock, t).readers = lock.readers
         /\ Wait(lock, t).writers = lock.writers
         /\ Unlock(lock, t) \in Lock
         /\ Unlock(lock, t).readers = lock.readers \ {t}
         /\ Unlock(lock, t).writers = lock.writers \ {t}
         /\ First(lock, t) => /\ ReadLock(lock, t) \in Lock
                              /\ ReadLock(lock, t).readers = lock.readers \cup {t}
                              /\ ReadLock(lock, t).writers = lock.writers
                              /\ WriteLock(lock, t) \in Lock
                              /\ WriteLock(lock, t).readers = lock.readers
                              /\ WriteLock(lock, t).writers = lock.writers \cup {t}
<1>1. /\ lock.readers \in SUBSET Task /\ lock.writers \in SUBSET Task /\ lock.queue \in Seq(Task)
  BY DEF Lock
<1>2. Append(lock.queue, t) \in Seq(Task) /\ (First(lock, t) => Tail(lock.queue) \in Seq(Task))
  BY <1>1 DEF First
<1>3. /\ lock.readers \cup {t} \in SUBSET Task /\ lock.writers \cup {t} \in SUBSET Task
      /\ lock.readers \ {t} \in SUBSET Task /\ lock.writers \ {t} \in SUBSET Task
  BY <1>1
<1>4. Wait(lock, t) = [readers |-> lock.readers, writers |-> lock.writers, queue |-> Append(lock.queue, t)]
  BY DEF Wait, Lock
<1> QED BY <1>1, <1>2, <1>3, <1>4 DEF Lock, Unlock, ReadLock, WriteLock

\* Nobody else holds the engine beside its holder, and no client is past the
\* barrier while a rewrite is.
LEMMA Exclusion ==
  ASSUME LocksOK
  PROVE  /\ \A t, u \in Task : pc[t] \in Engaged /\ pc[u] \in Engaged => t = u
         /\ pc[R] \in Rewriting => \A t \in Client : pc[t] \notin Reading
BY DEF LocksOK

-----------------------------------------------------------------------------
(***************************************************************************)
(* Steps that leave the store, the log and the clock alone.                *)
(***************************************************************************)

\* Moving task t to another stage while it keeps the locks it has.
LEMMA LocksKept ==
  ASSUME TypeOK, LocksOK, NEW t \in Task, NEW stage,
         pc' = [pc EXCEPT ![t] = stage],
         barrier'.readers = barrier.readers, barrier'.writers = barrier.writers,
         engine'.writers = engine.writers,
         t # R /\ stage \in Reading => pc[t] \in Reading,
         t = R /\ stage \in Rewriting => pc[t] \in Rewriting,
         stage \in Engaged => pc[t] \in Engaged
  PROVE  LocksOK'
<1>1. \A u \in Task : pc'[u] = IF u = t THEN stage ELSE pc[u]
  BY DEF TypeOK
<1>2. R \in Task /\ R' = R
  BY AofAssumption DEF R
<1>3. \A u \in Client : u \in Task /\ u # R
  BY DEF Client, R
<1> QED BY <1>1, <1>2, <1>3 DEF LocksOK

\* Dropping both guards and going idle.
LEMMA LocksDropped ==
  ASSUME TypeOK, LocksOK, NEW t \in Task,
         pc' = [pc EXCEPT ![t] = "idle"],
         barrier' = Unlock(barrier, t), engine' = Unlock(engine, t)
  PROVE  LocksOK'
<1>1. \A u \in Task : pc'[u] = IF u = t THEN "idle" ELSE pc[u]
  BY DEF TypeOK
<1>2. R \in Task /\ R' = R
  BY AofAssumption DEF R
<1>3. \A u \in Client : u \in Task
  BY DEF Client
<1>4. barrier \in Lock /\ engine \in Lock
  BY DEF TypeOK
<1>5. /\ barrier'.readers = barrier.readers \ {t} /\ barrier'.writers = barrier.writers \ {t}
      /\ engine'.writers = engine.writers \ {t}
  BY <1>4, LockFacts
<1>6. "idle" \notin Reading /\ "idle" \notin Rewriting /\ "idle" \notin Engaged
  BY DEF Reading, Rewriting, Engaged
<1>7. \A u \in Client : pc'[u] \in Reading => u \in barrier'.readers
  BY <1>1, <1>3, <1>5, <1>6 DEF LocksOK
<1>8. pc'[R] \in Rewriting => R \in barrier'.writers
  BY <1>1, <1>2, <1>5, <1>6 DEF LocksOK
<1>9. \A u \in Task : pc'[u] \in Engaged => u \in engine'.writers
  BY <1>1, <1>5, <1>6 DEF LocksOK
<1> QED BY <1>2, <1>5, <1>7, <1>8, <1>9 DEF LocksOK

\* What the log, the snapshot, the backup and the promises cover, after a step
\* that changes none of them nor the store.
LEMMA CoversKept ==
  ASSUME LogCovers, RewriteCovers, PromisesLogged,
         UNCHANGED <<now, status, db, path, promised, damaged>>,
         \A t \in Client : pc'[t] \in Pending <=> pc[t] \in Pending,
         \A t \in Client : pc[t] \in Pending => cmd'[t] = cmd[t],
         pc'[R] \in Snapped => pc[R] \in Snapped /\ snapshot' = snapshot,
         InWindow' => InWindow /\ backup' = backup
  PROVE  LogCovers' /\ RewriteCovers' /\ PromisesLogged'
<1>1. R' = R /\ Client' = Client
  BY DEF R, Client
<1>2. \A f : AgreesFromNow(f)' <=> AgreesFromNow(f)
  BY DEF AgreesFromNow
<1>3. ASSUME NEW f PROVE Covers(f)' <=> Covers(f)
  BY <1>2 DEF Covers
<1>4. LogCovers'
  <2>1. ASSUME \A t \in Client : pc'[t] \notin Pending PROVE Covers(path)'
    BY <1>3, <2>1 DEF LogCovers, Covers, AgreesFromNow
  <2>2. ASSUME NEW t \in Client, pc'[t] \in Pending
        PROVE  \E base \in Seq(Frame \cup {TornFrame}), then \in 0 .. now' :
                 path' = Append(base, Logged(cmd'[t], then)) /\ Covers(base)'
    BY <1>3, <2>2 DEF LogCovers
  <2> QED BY <2>1, <2>2 DEF LogCovers
<1>5. RewriteCovers'
  <2>1. pc'[R] \in Snapped =>
          \A time \in Nat : now' <= time => SnapshotAgrees(snapshot', db', time)
    BY DEF RewriteCovers
  <2>2. InWindow' => Covers(backup)'
    BY DEF RewriteCovers, Covers, AgreesFromNow
  <2> QED BY <1>1, <2>1, <2>2 DEF RewriteCovers
<1>6. PromisesLogged'
  BY DEF PromisesLogged
<1> QED BY <1>4, <1>5, <1>6

\* The stage of every task, after task t moves.
LEMMA StagesMoved ==
  ASSUME TypeOK, StagesOK, NEW t \in Task, NEW stage,
         pc' = [pc EXCEPT ![t] = stage], status' = status, status = "up" \/ stage = "idle",
         IF t = R THEN stage \in RewriteStage ELSE stage \in ClientStage,
         \A u \in Client : u # t => cmd'[u] = cmd[u],
         t \in Client /\ stage # "idle" => cmd'[t] \in Writes
  PROVE  StagesOK' /\ pc' \in [Task -> ClientStage \cup RewriteStage]
<1>1. \A u \in Task : pc'[u] = IF u = t THEN stage ELSE pc[u]
  BY DEF TypeOK
<1>2. R \in Task /\ R' = R /\ Client' = Client
  BY AofAssumption DEF R, Client
<1>3. \A u \in Client : u \in Task /\ u # R
  BY DEF Client, R
<1>4. stage \in ClientStage \cup RewriteStage
  OBVIOUS
<1>5. pc' \in [Task -> ClientStage \cup RewriteStage]
  BY <1>4 DEF TypeOK
<1>6. ASSUME NEW u \in Client PROVE pc'[u] \in ClientStage /\ (pc'[u] # "idle" => cmd'[u] \in Writes)
  BY <1>1, <1>3 DEF StagesOK
<1>7. pc'[R] \in RewriteStage
  BY <1>1, <1>2 DEF StagesOK
<1>8. status' # "up" => \A u \in Task : pc'[u] = "idle"
  BY <1>1 DEF StagesOK
<1> QED BY <1>2, <1>5, <1>6, <1>7, <1>8 DEF StagesOK

\* The stages of the other tasks, and of the rewrite, when task t moves.
LEMMA PcMoved ==
  ASSUME TypeOK, NEW t \in Task, NEW stage, pc' = [pc EXCEPT ![t] = stage]
  PROVE  /\ pc'[t] = stage
         /\ \A u \in Task : u # t => pc'[u] = pc[u]
         /\ \A u \in Client : u \in Task /\ u # R
         /\ R \in Task
BY AofAssumption DEF TypeOK, Client, R

\* Spending from the budget keeps its type.
LEMMA BudgetSpent ==
  ASSUME TypeOK
  PROVE  LET Budget == [writes : 0 .. MaxWrites, crashes : 0 .. MaxCrashes,
                        faults : 0 .. MaxFaults, tears : 0 .. MaxTears]
         IN  /\ budget.writes > 0 => [budget EXCEPT !.writes = @ - 1] \in Budget
             /\ budget.faults > 0 => [budget EXCEPT !.faults = @ - 1] \in Budget
             /\ budget.crashes > 0 => [budget EXCEPT !.crashes = @ - 1] \in Budget
             /\ budget.crashes > 0 /\ budget.tears > 0
                  => [budget EXCEPT !.crashes = @ - 1, !.tears = @ - 1] \in Budget
<1>1. /\ MaxWrites \in Nat /\ MaxCrashes \in Nat /\ MaxFaults \in Nat /\ MaxTears \in Nat
      /\ budget = [writes |-> budget.writes, crashes |-> budget.crashes,
                   faults |-> budget.faults, tears |-> budget.tears]
      /\ budget.writes \in 0 .. MaxWrites /\ budget.crashes \in 0 .. MaxCrashes
      /\ budget.faults \in 0 .. MaxFaults /\ budget.tears \in 0 .. MaxTears
  BY AofAssumption DEF TypeOK
<1>2. /\ budget.writes > 0 => budget.writes - 1 \in 0 .. MaxWrites
      /\ budget.crashes > 0 => budget.crashes - 1 \in 0 .. MaxCrashes
      /\ budget.faults > 0 => budget.faults - 1 \in 0 .. MaxFaults
      /\ budget.tears > 0 => budget.tears - 1 \in 0 .. MaxTears
  BY <1>1
<1> QED BY <1>1, <1>2

-----------------------------------------------------------------------------
(***************************************************************************)
(* The steps of a client.                                                  *)
(***************************************************************************)

\* A client hands in a command: no file, lock or store changes.
LEMMA SendOK ==
  ASSUME IInv, NEW t \in Client, NEW c \in Writes, Send(t, c)
  PROVE  IInv'
<1> USE DEF Send, Goto
<1>0. t \in Task /\ t # R /\ TypeOK /\ pc[t] = "idle"
  BY DEF IInv, Client, R
<1>1. /\ pc'[t] = "barrier" /\ pc'[R] = pc[R]
      /\ \A u \in Client : u # t => pc'[u] = pc[u]
  BY <1>0, PcMoved
<1>2. /\ barrier' \in Lock /\ barrier'.readers = barrier.readers /\ barrier'.writers = barrier.writers
  BY <1>0, LockFacts DEF TypeOK
<1>3. StagesOK' /\ pc' \in [Task -> ClientStage \cup RewriteStage]
  <2>1. \A u \in Client : u # t => cmd'[u] = cmd[u]
    BY <1>0 DEF TypeOK, Client
  <2>2. cmd'[t] \in Writes /\ "barrier" \in ClientStage
    BY <1>0 DEF TypeOK, ClientStage
  <2>3. status' = status /\ status = "up" /\ pc' = [pc EXCEPT ![t] = "barrier"] /\ StagesOK
    BY DEF IInv
  <2> HIDE DEF Send, Goto
  <2> QED BY <1>0, <2>1, <2>2, <2>3, StagesMoved
<1>4. TypeOK'
  <2>1. cmd' \in [Task -> Writes \cup {NoCommand}]
    BY <1>0 DEF TypeOK
  <2>2. budget' \in [writes : 0 .. MaxWrites, crashes : 0 .. MaxCrashes,
                     faults : 0 .. MaxFaults, tears : 0 .. MaxTears]
    BY <1>0, BudgetSpent
  <2> QED BY <1>0, <1>2, <1>3, <2>1, <2>2 DEF TypeOK, files, ghosts
<1>5. LocksOK'
  BY <1>0, <1>2, LocksKept DEF IInv, Reading, Engaged, Rewriting
<1>6. FilesOK'
  BY <1>1 DEF IInv, FilesOK, InWindow, files, R
<1>7. LogCovers' /\ RewriteCovers' /\ PromisesLogged'
  <2>1. \A u \in Client : pc'[u] \in Pending <=> pc[u] \in Pending
    BY <1>0, <1>1 DEF Pending
  <2>2. \A u \in Client : pc[u] \in Pending => cmd'[u] = cmd[u]
    BY <1>0 DEF TypeOK, Client, Pending
  <2> QED BY <1>1, <2>1, <2>2, CoversKept DEF IInv, InWindow, R, files, ghosts
<1> QED BY <1>3, <1>4, <1>5, <1>6, <1>7 DEF IInv

\* A writer passes the rewrite barrier: the rewrite worker is outside of it.
LEMMA ReadBarrierOK ==
  ASSUME IInv, NEW t \in Client, ReadBarrier(t)
  PROVE  IInv'
<1> USE DEF ReadBarrier, Goto
<1>0. t \in Task /\ t # R /\ TypeOK /\ pc[t] = "barrier" /\ First(barrier, t) /\ barrier.writers = {}
  BY DEF IInv, Client, R, CanRead
<1>1. /\ pc'[t] = "engine" /\ pc'[R] = pc[R]
      /\ \A u \in Client : u # t => pc'[u] = pc[u]
      /\ \A u \in Client : u \in Task /\ u # R
  BY <1>0, PcMoved
<1>2. /\ barrier' \in Lock /\ barrier'.readers = barrier.readers \cup {t} /\ barrier'.writers = {}
      /\ engine' \in Lock /\ engine'.writers = engine.writers
  BY <1>0, LockFacts DEF TypeOK
<1>3. StagesOK' /\ pc' \in [Task -> ClientStage \cup RewriteStage]
  BY <1>0, StagesMoved DEF IInv, StagesOK, ClientStage
<1>4. TypeOK'
  BY <1>0, <1>2, <1>3 DEF TypeOK, files, ghosts
<1>5. LocksOK'
  <2>1. "engine" \in Reading /\ "engine" \notin Engaged
    BY DEF Reading, Engaged, Rewriting
  <2>2. \A u \in Client : pc'[u] \in Reading => u \in barrier'.readers
    BY <1>1, <1>2 DEF IInv, LocksOK
  <2>3. pc'[R] \notin Rewriting
    BY <1>0, <1>1 DEF IInv, LocksOK
  <2>4. \A u \in Task : pc'[u] \in Engaged => u \in engine'.writers
    BY <1>0, <1>1, <1>2, <2>1, PcMoved DEF IInv, LocksOK
  <2> QED BY <1>2, <2>2, <2>3, <2>4 DEF IInv, LocksOK, R
<1>6. FilesOK'
  BY <1>1 DEF IInv, FilesOK, InWindow, files, R
<1>7. LogCovers' /\ RewriteCovers' /\ PromisesLogged'
  <2>1. \A u \in Client : pc'[u] \in Pending <=> pc[u] \in Pending
    BY <1>0, <1>1 DEF Pending
  <2> QED BY <1>1, <2>1, CoversKept DEF IInv, InWindow, R, files, ghosts
<1> QED BY <1>3, <1>4, <1>5, <1>6, <1>7 DEF IInv

\* A writer or the rewrite worker gets the engine: nobody else has it.
LEMMA LockEngineOK ==
  ASSUME IInv, NEW t \in Task, LockEngine(t)
  PROVE  IInv'
<1> USE DEF LockEngine, Goto
<1>0. t \in Task /\ TypeOK /\ pc[t] = "engine" /\ First(engine, t) /\ engine.writers = {}
  BY DEF IInv, CanWrite
<1>s. R = Rewriter /\ R \in Task /\ (t # R => t \in Client) /\ (t = R => t \notin Client)
  BY AofAssumption DEF R, Client
<1> DEFINE stage == IF t = Rewriter THEN "temp" ELSE "append"
<1>1. /\ pc'[t] = stage
      /\ \A u \in Task : u # t => pc'[u] = pc[u]
      /\ \A u \in Client : u \in Task /\ u # R
  BY <1>0, PcMoved
<1>2. engine' \in Lock /\ engine'.writers = {t}
  BY <1>0, LockFacts DEF TypeOK
<1>3. StagesOK' /\ pc' \in [Task -> ClientStage \cup RewriteStage]
  BY <1>0, <1>s, StagesMoved DEF IInv, StagesOK, ClientStage, RewriteStage
<1>4. TypeOK'
  BY <1>0, <1>2, <1>3 DEF TypeOK, files, ghosts
<1>5. LocksOK'
  <2>1. "engine" \in Reading /\ "engine" \in Rewriting
    BY DEF Reading, Rewriting, RewriteStage
  <2>2. \A u \in Client : pc'[u] \in Reading => u \in barrier'.readers
    BY <1>0, <1>1, <2>1 DEF IInv, LocksOK
  <2>3. pc'[R] \in Rewriting => R \in barrier'.writers
    BY <1>0, <1>1, <1>s, <2>1 DEF IInv, LocksOK
  <2>4. \A u \in Task : pc'[u] \in Engaged => u \in engine'.writers
    BY <1>0, <1>1, <1>2 DEF IInv, LocksOK
  <2> QED BY <1>2, <2>2, <2>3, <2>4 DEF IInv, LocksOK, R
<1>6. FilesOK'
  <2>1. pc'[R] = pc[R] \/ pc'[R] = "temp"
    BY <1>1, <1>s
  <2> QED BY <2>1 DEF IInv, FilesOK, InWindow, files, R, Taken, Written
<1>7. LogCovers' /\ RewriteCovers' /\ PromisesLogged'
  <2>1. \A u \in Client : pc'[u] \in Pending <=> pc[u] \in Pending
    BY <1>0, <1>1, <1>s DEF Pending
  <2>2. pc'[R] \in Snapped => pc[R] \in Snapped
    BY <1>0, <1>1, <1>s DEF Snapped
  <2>3. InWindow' => InWindow
    BY <1>1, <1>s DEF InWindow, R
  <2> QED BY <1>1, <2>1, <2>2, <2>3, CoversKept DEF IInv, R, files, ghosts
<1> QED BY <1>3, <1>4, <1>5, <1>6, <1>7 DEF IInv

\* A writer answers and gives its guards back.
LEMMA RespondOK ==
  ASSUME IInv, NEW t \in Client, Respond(t)
  PROVE  IInv'
<1> USE DEF Respond, Goto
<1>0. t \in Task /\ t # R /\ TypeOK /\ pc[t] = "respond"
  BY DEF IInv, Client, R
<1>1. /\ pc'[t] = "idle" /\ pc'[R] = pc[R]
      /\ \A u \in Client : u # t => pc'[u] = pc[u]
      /\ \A u \in Client : u \in Task /\ u # R
  BY <1>0, PcMoved
<1>2. barrier' \in Lock /\ engine' \in Lock
  BY <1>0, LockFacts DEF TypeOK
<1>c. /\ \A u \in Task : u # t => cmd'[u] = cmd[u]
      /\ cmd' \in [Task -> Writes \cup {NoCommand}]
  BY <1>0 DEF TypeOK
<1>3. StagesOK' /\ pc' \in [Task -> ClientStage \cup RewriteStage]
  BY <1>0, <1>1, <1>c, StagesMoved DEF IInv, ClientStage
<1>4. TypeOK'
  BY <1>0, <1>2, <1>c, <1>3 DEF TypeOK, files, ghosts
<1>5. LocksOK'
  BY <1>0, LocksDropped DEF IInv
<1>6. FilesOK'
  BY <1>1 DEF IInv, FilesOK, InWindow, files, R
<1>7. LogCovers' /\ RewriteCovers' /\ PromisesLogged'
  <2>1. \A u \in Client : pc'[u] \in Pending <=> pc[u] \in Pending
    BY <1>0, <1>1 DEF Pending
  <2>2. \A u \in Client : pc[u] \in Pending => cmd'[u] = cmd[u]
    BY <1>0, <1>1, <1>c DEF Pending
  <2> QED BY <1>1, <2>1, <2>2, CoversKept DEF IInv, InWindow, R, files, ghosts
<1> QED BY <1>3, <1>4, <1>5, <1>6, <1>7 DEF IInv

\* A client that has the engine is the only one between log and store, and no
\* rewrite is past the barrier.
LEMMA Alone ==
  ASSUME IInv, NEW t \in Client, pc[t] \in {"append", "sync", "execute", "respond"}
  PROVE  /\ t \in Task /\ t # R /\ TypeOK /\ status = "up"
         /\ cmd[t] \in Writes /\ cmd[t] \in Command /\ cmd[t].op \in WriteOp
         /\ \A u \in Client : u # t => pc[u] \notin Pending
         /\ pc[R] \in {"idle", "size", "barrier"}
         /\ now \in Nat /\ db \in Data
<1>1. t \in Task /\ t # R /\ R \in Task /\ TypeOK
  BY AofAssumption DEF IInv, Client, R
<1>2. pc[t] \in Engaged /\ pc[t] \in Reading /\ Pending \subseteq Engaged
  BY DEF Engaged, Reading, Pending
<1>3. \A u \in Client : u # t => pc[u] \notin Pending
  BY <1>1, <1>2, Exclusion DEF IInv, Client
<1>4. pc[R] \in {"idle", "size", "barrier"}
  BY <1>2, Exclusion DEF IInv, Rewriting, StagesOK
<1>5. status = "up" /\ cmd[t] \in Writes
  BY <1>1 DEF IInv, StagesOK
<1>6. cmd[t] \in Command /\ cmd[t].op \in WriteOp
  BY <1>5, AofAssumption DEF WriteOp
<1>7. now \in Nat /\ db \in Data
  BY <1>1, AofAssumption DEF TypeOK
<1> QED BY <1>1, <1>3, <1>4, <1>5, <1>6, <1>7

\* With no rewrite past the barrier only the log itself matters.
LEMMA OnlyTheLog ==
  ASSUME pc'[R] \in {"idle", "size", "barrier"}, status' = "up"
  PROVE  RewriteCovers' /\ PromisesLogged' /\ ~InWindow' /\ pc'[R] \notin Taken /\ pc'[R] \notin Written
BY DEF RewriteCovers, PromisesLogged, InWindow, Snapped, Taken, Written, R

\* Writing a frame: log and store differ by exactly the command being written.
LEMMA AppendFrameOK ==
  ASSUME IInv, NEW t \in Client, AppendFrame(t)
  PROVE  IInv'
<1> USE DEF AppendFrame, Goto
<1>0. /\ pc[t] = "append" /\ t \in Task /\ t # R /\ TypeOK /\ status = "up" /\ now \in Nat
      /\ cmd[t] \in Writes /\ cmd[t] \in Command /\ cmd[t].op \in WriteOp
      /\ \A u \in Client : u # t => pc[u] \notin Pending
      /\ pc[R] \in {"idle", "size", "barrier"}
  BY Alone
<1>u. /\ UNCHANGED <<now, status, db, temp, backup, handle, locks, cmd, snapshot, promised>>
      /\ damaged' \in BOOLEAN
      /\ damaged => damaged'
  BY <1>0 DEF TypeOK, Fault
<1>t. Covers(path)
  BY <1>0 DEF IInv, LogCovers, Pending
<1>1. PICK stage \in {"sync", "respond"} : pc' = [pc EXCEPT ![t] = stage]
  OBVIOUS
<1>2. /\ pc'[t] = stage /\ pc'[R] = pc[R]
      /\ \A u \in Client : u # t => pc'[u] = pc[u]
      /\ \A u \in Client : u \in Task /\ u # R
  BY <1>0, <1>1, PcMoved
<1>b. budget' \in [writes : 0 .. MaxWrites, crashes : 0 .. MaxCrashes,
                   faults : 0 .. MaxFaults, tears : 0 .. MaxTears]
  BY <1>0, BudgetSpent DEF Fault, TypeOK
<1>3. StagesOK' /\ pc' \in [Task -> ClientStage \cup RewriteStage]
  BY <1>0, <1>1, <1>u, StagesMoved DEF IInv, ClientStage
<1>4. LocksOK'
  BY <1>0, <1>1, <1>u, LocksKept DEF IInv, Reading, Engaged, Rewriting, locks
<1>5. RewriteCovers' /\ PromisesLogged' /\ ~InWindow' /\ pc'[R] \notin Taken /\ pc'[R] \notin Written
  BY <1>0, <1>2, <1>u, OnlyTheLog
<1>6. CASE handle = "open"
  <2>1. path \in Seq(Frame \cup {TornFrame})
    BY <1>6, LogFileFacts DEF IInv, FilesOK
  <2>2. Logged(cmd[t], now) \in Frame
    BY <1>0, LoggedFacts
  <2>3. path' \in LogFile /\ path' # Missing
    BY <1>6, <2>1, <2>2, AppendFacts DEF IInv, FilesOK
  <2>4. FilesOK'
    BY <1>5, <1>u, <1>2, <2>3 DEF IInv, FilesOK, R
  <2>5. TypeOK'
    BY <1>0, <1>u, <1>b, <1>3, <2>3, LogFileFacts DEF TypeOK, locks
  <2>6. CASE stage = "sync"
    <3>1. path' = Append(path, Logged(cmd[t], now)) /\ damaged' = damaged
      BY <1>1, <1>2, <1>0, <2>6 DEF TypeOK
    <3>2. Covers(path)' \/ TRUE
      OBVIOUS
    <3>3. \A f : Covers(f) => Covers(f)'
      BY <1>u, <3>1 DEF Covers, AgreesFromNow
    <3>4. pc'[t] \in Pending /\ \A u \in Client : u # t => pc'[u] \notin Pending
      BY <1>0, <1>2, <2>6 DEF Pending
    <3>5. LogCovers'
      BY <1>0, <1>t, <1>u, <2>1, <3>1, <3>3, <3>4 DEF LogCovers
    <3> QED BY <1>3, <1>4, <1>5, <2>4, <2>5, <3>5 DEF IInv
  <2>7. CASE stage = "respond"
    <3>1. path' = path \/ damaged'
      BY <1>0, <1>1, <1>2, <1>6, <2>7 DEF TypeOK
    <3>2. Covers(path)'
      BY <1>t, <1>u, <3>1 DEF Covers, AgreesFromNow
    <3>3. \A u \in Client : pc'[u] \notin Pending
      BY <1>0, <1>2, <2>7 DEF Pending
    <3>4. LogCovers'
      BY <3>2, <3>3 DEF LogCovers
    <3> QED BY <1>3, <1>4, <1>5, <2>4, <2>5, <3>4 DEF IInv
  <2> QED BY <2>6, <2>7
<1>7. CASE handle # "open"
  <2>1. UNCHANGED <<path, budget, damaged>> /\ stage = "respond"
    BY <1>0, <1>1, <1>2, <1>7
  <2>2. FilesOK'
    BY <1>5, <1>u, <1>2, <2>1 DEF IInv, FilesOK, R
  <2>3. TypeOK'
    BY <1>0, <1>u, <1>3, <2>1 DEF TypeOK, locks
  <2>4. Covers(path)'
    BY <1>t, <1>u, <2>1 DEF Covers, AgreesFromNow
  <2>5. \A u \in Client : pc'[u] \notin Pending
    BY <1>0, <1>2, <2>1 DEF Pending
  <2>6. LogCovers'
    BY <2>4, <2>5 DEF LogCovers
  <2> QED BY <1>3, <1>4, <1>5, <2>2, <2>3, <2>6 DEF IInv
<1> QED BY <1>6, <1>7

\* Syncing the file: nothing that a replay reads changes.
LEMMA SyncOK ==
  ASSUME IInv, NEW t \in Client, Sync(t)
  PROVE  IInv'
<1> USE DEF Sync, Goto
<1>0. /\ pc[t] = "sync" /\ t \in Task /\ t # R /\ TypeOK /\ status = "up"
      /\ \A u \in Client : u # t => pc[u] \notin Pending
      /\ pc[R] \in {"idle", "size", "barrier"}
  BY Alone
<1>u. UNCHANGED <<now, status, db, files, locks, cmd, snapshot, promised>>
  OBVIOUS
<1>1. PICK stage \in {"execute", "respond"} : pc' = [pc EXCEPT ![t] = stage]
  OBVIOUS
<1>2. /\ pc'[t] = stage /\ pc'[R] = pc[R]
      /\ \A u \in Client : u # t => pc'[u] = pc[u]
      /\ \A u \in Client : u \in Task /\ u # R
  BY <1>0, <1>1, PcMoved
<1>3. StagesOK' /\ pc' \in [Task -> ClientStage \cup RewriteStage]
  BY <1>0, <1>1, <1>u, StagesMoved DEF IInv, StagesOK, ClientStage
<1>4. LocksOK'
  BY <1>0, <1>1, <1>u, LocksKept DEF IInv, Reading, Engaged, Rewriting, locks
<1>5. RewriteCovers' /\ PromisesLogged' /\ ~InWindow' /\ pc'[R] \notin Taken /\ pc'[R] \notin Written
  BY <1>0, <1>2, <1>u, OnlyTheLog
<1>6. FilesOK'
  BY <1>5, <1>u, <1>2 DEF IInv, FilesOK, R, files
<1>7. /\ budget' \in [writes : 0 .. MaxWrites, crashes : 0 .. MaxCrashes,
                      faults : 0 .. MaxFaults, tears : 0 .. MaxTears]
      /\ damaged' \in BOOLEAN
  BY <1>0, BudgetSpent DEF Fault, TypeOK
<1>8. TypeOK'
  BY <1>0, <1>u, <1>3, <1>7 DEF TypeOK, locks, files
<1>9. LogCovers'
  <2>1. CASE stage = "execute"
    <3>1. damaged' = damaged
      BY <1>0, <1>1, <1>2, <2>1
    <3>2. \A u \in Client : pc'[u] \in Pending <=> pc[u] \in Pending
      BY <1>0, <1>2, <2>1 DEF Pending
    <3> QED BY <1>2, <1>5, <1>u, <3>1, <3>2, <1>0, CoversKept DEF IInv, files, InWindow, Snapped
  <2>2. CASE stage = "respond"
    <3>1. damaged'
      BY <1>0, <1>1, <1>2, <2>2
    <3>2. \A u \in Client : pc'[u] \notin Pending
      BY <1>0, <1>2, <2>2 DEF Pending
    <3> QED BY <3>1, <3>2 DEF LogCovers, Covers
  <2> QED BY <2>1, <2>2
<1> QED BY <1>3, <1>4, <1>5, <1>6, <1>8, <1>9 DEF IInv

\* Executing the command just logged brings store and log together again.
LEMMA ExecuteOK ==
  ASSUME IInv, NEW t \in Client, Execute(t)
  PROVE  IInv'
<1> USE DEF Execute, Goto
<1>0. /\ pc[t] = "execute" /\ t \in Task /\ t # R /\ TypeOK /\ status = "up" /\ now \in Nat
      /\ cmd[t] \in Writes /\ cmd[t] \in Command /\ cmd[t].op \in WriteOp /\ db \in Data
      /\ \A u \in Client : u # t => pc[u] \notin Pending
      /\ pc[R] \in {"idle", "size", "barrier"}
  BY Alone
<1>u. UNCHANGED <<now, status, files, locks, cmd, snapshot, budget, ghosts>>
  OBVIOUS
<1>1. pc' = [pc EXCEPT ![t] = "respond"]
  OBVIOUS
<1>2. /\ pc'[t] = "respond" /\ pc'[R] = pc[R]
      /\ \A u \in Client : u # t => pc'[u] = pc[u]
      /\ \A u \in Client : u \in Task /\ u # R
  BY <1>0, <1>1, PcMoved
<1>3. StagesOK' /\ pc' \in [Task -> ClientStage \cup RewriteStage]
  BY <1>0, <1>1, <1>u, StagesMoved DEF IInv, ClientStage
<1>4. LocksOK'
  BY <1>0, <1>1, <1>u, LocksKept DEF IInv, Reading, Engaged, Rewriting, locks
<1>5. RewriteCovers' /\ PromisesLogged' /\ ~InWindow' /\ pc'[R] \notin Taken /\ pc'[R] \notin Written
  BY <1>0, <1>2, <1>u, OnlyTheLog
<1>6. FilesOK'
  BY <1>5, <1>u, <1>2 DEF IInv, FilesOK, R, files
<1>7. ~Overflows(db, cmd[t], now)
  BY DEF Panics, Overflows
<1>8. db' = Run(db, cmd[t], now) /\ db' \in Data
  BY <1>0, <1>7, RunByKey
<1>9. TypeOK'
  BY <1>0, <1>u, <1>3, <1>8 DEF TypeOK, locks, files, ghosts
<1>10. Covers(path)'
  <2>1. PICK base \in Seq(Frame \cup {TornFrame}), then \in 0 .. now :
          path = Append(base, Logged(cmd[t], then)) /\ Covers(base)
    BY <1>0 DEF IInv, LogCovers, Pending
  <2>2. SUFFICES ASSUME ~damaged, Readable(path), NEW time \in Nat, now <= time
                 PROVE  FileAgrees(path, db', time)
    BY <1>u DEF Covers, AgreesFromNow, Readable, files, ghosts
  <2>3. then \in Nat /\ then <= now /\ Logged(cmd[t], then) \in Frame
    BY <1>0, LoggedFacts
  <2>4. Readable(base)
    BY <2>1, <2>2, <2>3, AppendFacts
  <2>5. base \in Seq(Frame)
    BY <2>4, LogFileFacts DEF LogFile
  <2>6. /\ Agrees(Replay(base, time), db, time) /\ Spares(base, db, time)
        /\ Replay(base, time) \in Data
    BY <1>0, <2>1, <2>2, <2>4, <2>5, ReplayType DEF Covers, AgreesFromNow, FileAgrees
  <2>7. Replay(path, time) = Run(Replay(base, time), Logged(cmd[t], then), time)
    BY <2>1, <2>3, <2>5, ReplayAppend
  <2>8. Agrees(Replay(path, time), db', time)
    BY <1>0, <1>7, <1>8, <2>2, <2>3, <2>6, <2>7, AgreesAfter
  <2>9. Spares(path, db', time)
    BY <1>0, <1>7, <1>8, <2>1, <2>2, <2>3, <2>5, <2>6, SparesAfter
  <2> QED BY <2>8, <2>9 DEF FileAgrees
<1>11. LogCovers'
  <2>1. \A u \in Client : pc'[u] \notin Pending
    BY <1>0, <1>2 DEF Pending
  <2> QED BY <1>10, <2>1 DEF LogCovers
<1> QED BY <1>3, <1>4, <1>5, <1>6, <1>9, <1>11 DEF IInv

\* A command that panics stays in the log and leaves the store.
LEMMA PanicOK ==
  ASSUME IInv, NEW t \in Client, Panic(t)
  PROVE  IInv'
<1> USE DEF Panic, Goto
<1>0. /\ pc[t] = "execute" /\ t \in Task /\ t # R /\ TypeOK /\ status = "up" /\ db \in Data
      /\ \A u \in Client : u # t => pc[u] \notin Pending
      /\ pc[R] \in {"idle", "size", "barrier"}
  BY Alone
<1>u. UNCHANGED <<now, status, files, snapshot, budget, promised>> /\ damaged'
  OBVIOUS
<1>1. pc' = [pc EXCEPT ![t] = "idle"]
  OBVIOUS
<1>2. /\ pc'[t] = "idle" /\ pc'[R] = pc[R]
      /\ \A u \in Client : u # t => pc'[u] = pc[u]
      /\ \A u \in Client : u \in Task /\ u # R
  BY <1>0, <1>1, PcMoved
<1>c. /\ \A u \in Task : u # t => cmd'[u] = cmd[u]
      /\ cmd' \in [Task -> Writes \cup {NoCommand}]
  BY <1>0 DEF TypeOK
<1>3. StagesOK' /\ pc' \in [Task -> ClientStage \cup RewriteStage]
  BY <1>0, <1>1, <1>2, <1>c, <1>u, StagesMoved DEF IInv, ClientStage
<1>4. LocksOK'
  BY <1>0, <1>1, LocksDropped DEF IInv
<1>5. RewriteCovers' /\ PromisesLogged' /\ ~InWindow' /\ pc'[R] \notin Taken /\ pc'[R] \notin Written
  BY <1>0, <1>2, <1>u, OnlyTheLog
<1>6. FilesOK'
  BY <1>5, <1>u, <1>2 DEF IInv, FilesOK, R, files
<1>7. db' \in Data /\ barrier' \in Lock /\ engine' \in Lock
  BY <1>0, LiveViewType, LockFacts DEF TypeOK
<1>8. TypeOK'
  BY <1>0, <1>u, <1>c, <1>3, <1>7 DEF TypeOK, files
<1>9. LogCovers'
  <2>1. \A u \in Client : pc'[u] \notin Pending
    BY <1>0, <1>2 DEF Pending
  <2> QED BY <1>u, <2>1 DEF LogCovers, Covers
<1> QED BY <1>3, <1>4, <1>5, <1>6, <1>8, <1>9 DEF IInv

-----------------------------------------------------------------------------
(***************************************************************************)
(* The steps of a rewrite.                                                 *)
(***************************************************************************)

\* While a rewrite is past the barrier no client is between log and store.
LEMMA RewriterAlone ==
  ASSUME IInv, pc[R] \in Rewriting
  PROVE  /\ R \in Task /\ TypeOK /\ status = "up"
         /\ \A u \in Client : u \in Task /\ u # R /\ pc[u] \notin Pending
         /\ now \in Nat /\ db \in Data /\ snapshot \in Data
         /\ Covers(path)
<1>1. R \in Task /\ TypeOK /\ \A u \in Client : u \in Task /\ u # R
  BY AofAssumption DEF IInv, Client, R
<1>2. \A u \in Client : pc[u] \notin Pending
  BY Exclusion DEF IInv, Reading, Pending
<1>3. status = "up"
  BY <1>1 DEF IInv, StagesOK, Rewriting
<1>4. now \in Nat /\ db \in Data /\ snapshot \in Data
  BY <1>1, AofAssumption DEF TypeOK
<1>5. Covers(path)
  BY <1>2 DEF IInv, LogCovers
<1> QED BY <1>1, <1>2, <1>3, <1>4, <1>5

\* A rewrite that has both locks moves on and keeps them.
LEMMA RewriteMoves ==
  ASSUME IInv, pc[R] \in Rewriting \cap Engaged,
         NEW stage \in Rewriting \cap Engaged, Goto(R, stage),
         UNCHANGED <<now, status, db, cmd, locks, snapshot, promised>>,
         budget' = budget \/ Fault, damaged' \in BOOLEAN, handle' \in {"open", "closed"},
         FilesOK', Covers(path)',
         stage \in Snapped => pc[R] \in Snapped,
         stage \in {"promote", "restore"} => Covers(backup)'
  PROVE  IInv'
<1>0. /\ R \in Task /\ TypeOK /\ status = "up"
      /\ \A u \in Client : u \in Task /\ u # R /\ pc[u] \notin Pending
  BY RewriterAlone
<1>1. pc' = [pc EXCEPT ![R] = stage]
  BY DEF Goto
<1>2. pc'[R] = stage /\ \A u \in Client : pc'[u] = pc[u]
  BY <1>0, <1>1, PcMoved
<1>3. StagesOK' /\ pc' \in [Task -> ClientStage \cup RewriteStage]
  BY <1>0, <1>1, StagesMoved DEF IInv, Rewriting
<1>4. LocksOK'
  BY <1>0, <1>1, LocksKept DEF IInv, locks
<1>5. budget' \in [writes : 0 .. MaxWrites, crashes : 0 .. MaxCrashes,
                   faults : 0 .. MaxFaults, tears : 0 .. MaxTears]
  BY <1>0, BudgetSpent DEF Fault, TypeOK
<1>6. path' \in File /\ temp' \in File /\ backup' \in File
  BY LogFileFacts DEF FilesOK
<1>7. TypeOK'
  BY <1>0, <1>3, <1>5, <1>6 DEF TypeOK, locks
<1>8. LogCovers'
  BY <1>0, <1>2 DEF LogCovers, Client
<1>9. RewriteCovers'
  BY <1>2 DEF IInv, RewriteCovers, InWindow, R
<1>10. PromisesLogged'
  BY <1>0 DEF PromisesLogged
<1> QED BY <1>3, <1>4, <1>7, <1>8, <1>9, <1>10 DEF IInv

\* A rewrite that gives up, or ends, drops both.
LEMMA RewriteEnds ==
  ASSUME IInv, pc[R] \in Rewriting, GiveUp,
         UNCHANGED <<now, status, db, cmd, promised>>,
         budget' = budget \/ Fault, damaged' \in BOOLEAN, handle' \in {"open", "closed"},
         path' \in LogFile, temp' \in LogFile, backup' \in LogFile,
         handle' = "open" => path' # Missing, Covers(path)'
  PROVE  IInv'
<1>0. /\ R \in Task /\ TypeOK /\ status = "up"
      /\ \A u \in Client : u \in Task /\ u # R /\ pc[u] \notin Pending
  BY RewriterAlone
<1>1. pc' = [pc EXCEPT ![R] = "idle"] /\ snapshot' = EmptyData
  BY DEF Goto, GiveUp
<1>2. pc'[R] = "idle" /\ \A u \in Client : pc'[u] = pc[u]
  BY <1>0, <1>1, PcMoved
<1>3. StagesOK' /\ pc' \in [Task -> ClientStage \cup RewriteStage]
  BY <1>0, <1>1, StagesMoved DEF IInv, RewriteStage
<1>4. LocksOK'
  BY <1>0, <1>1, LocksDropped DEF IInv, GiveUp
<1>5. /\ budget' \in [writes : 0 .. MaxWrites, crashes : 0 .. MaxCrashes,
                      faults : 0 .. MaxFaults, tears : 0 .. MaxTears]
      /\ barrier' \in Lock /\ engine' \in Lock /\ snapshot' \in Data
  BY <1>0, <1>1, BudgetSpent, LockFacts DEF Fault, TypeOK, GiveUp, EmptyData, Data
<1>6. path' \in File /\ temp' \in File /\ backup' \in File
  BY LogFileFacts
<1>7. TypeOK'
  BY <1>0, <1>3, <1>5, <1>6 DEF TypeOK
<1>8. FilesOK'
  BY <1>2 DEF FilesOK, InWindow, Taken, Written, R
<1>9. LogCovers'
  BY <1>0, <1>2 DEF LogCovers, Client
<1>10. RewriteCovers' /\ PromisesLogged'
  BY <1>0, <1>2 DEF RewriteCovers, InWindow, R, Snapped, PromisesLogged
<1> QED BY <1>3, <1>4, <1>7, <1>8, <1>9, <1>10 DEF IInv

\* The rewrite interval fires: file_size is asked for under the engine's lock.
LEMMA StartRewriteOK ==
  ASSUME IInv, StartRewrite
  PROVE  IInv'
<1> USE DEF StartRewrite, Goto
<1>0. R \in Task /\ TypeOK /\ pc[R] = "idle"
  BY AofAssumption DEF IInv, R
<1>1. /\ pc'[R] = "size"
      /\ \A u \in Client : u \in Task /\ pc'[u] = pc[u]
  BY <1>0, PcMoved
<1>2. engine' \in Lock /\ engine'.writers = engine.writers
  BY <1>0, LockFacts DEF TypeOK
<1>3. StagesOK' /\ pc' \in [Task -> ClientStage \cup RewriteStage]
  BY <1>0, StagesMoved DEF IInv, RewriteStage, Client, R
<1>4. TypeOK'
  BY <1>0, <1>2, <1>3 DEF TypeOK, files, ghosts
<1>5. LocksOK'
  BY <1>0, <1>2, LocksKept DEF IInv, Reading, Rewriting, Engaged
<1>6. FilesOK'
  BY <1>1 DEF IInv, FilesOK, InWindow, files, R, Taken, Written
<1>7. LogCovers' /\ RewriteCovers' /\ PromisesLogged'
  BY <1>1, CoversKept DEF IInv, InWindow, R, files, ghosts, Snapped
<1> QED BY <1>3, <1>4, <1>5, <1>6, <1>7 DEF IInv

\* The size is large enough and the barrier asked for, or it is not, or not known.
LEMMA CheckSizeOK ==
  ASSUME IInv, CheckSize
  PROVE  IInv'
<1> USE DEF CheckSize, Goto
<1>0. R \in Task /\ TypeOK /\ pc[R] = "size" /\ First(engine, R) /\ engine.writers = {}
  BY AofAssumption DEF IInv, R, CanWrite
<1>a. PICK stage \in {"idle", "barrier"} : pc' = [pc EXCEPT ![R] = stage]
  OBVIOUS
<1>b. UNCHANGED <<now, status, db, files, cmd, snapshot, ghosts>>
  OBVIOUS
<1>c. barrier' = barrier \/ barrier' = Wait(barrier, R)
  OBVIOUS
<1>d. budget' \in [writes : 0 .. MaxWrites, crashes : 0 .. MaxCrashes,
                   faults : 0 .. MaxFaults, tears : 0 .. MaxTears]
  BY <1>0, BudgetSpent DEF Fault, TypeOK
<1>e. engine' \in Lock /\ engine'.writers = engine.writers
  <2>1. engine \in Lock
    BY <1>0 DEF TypeOK
  <2>2. WriteLock(engine, R) \in Lock /\ WriteLock(engine, R).writers = {R}
    BY <1>0, <2>1, LockFacts
  <2>3. engine' = Unlock(WriteLock(engine, R), R)
    OBVIOUS
  <2> QED BY <1>0, <2>2, <2>3, LockFacts
<1>f. barrier' \in Lock /\ barrier'.readers = barrier.readers /\ barrier'.writers = barrier.writers
  BY <1>0, <1>c, LockFacts DEF TypeOK
<1> HIDE DEF CheckSize, Goto
<1>1. /\ pc'[R] = stage
      /\ \A u \in Client : u \in Task /\ pc'[u] = pc[u]
  BY <1>0, <1>a, PcMoved
<1>2. status = "up"
  BY <1>0 DEF IInv, StagesOK
<1>3. StagesOK' /\ pc' \in [Task -> ClientStage \cup RewriteStage]
  BY <1>0, <1>a, <1>b, <1>2, StagesMoved DEF IInv, RewriteStage, Client, R
<1>4. TypeOK'
  BY <1>0, <1>b, <1>d, <1>e, <1>f, <1>3 DEF TypeOK, files, ghosts
<1>5. LocksOK'
  BY <1>0, <1>a, <1>e, <1>f, LocksKept DEF IInv, Reading, Rewriting, Engaged
<1>6. FilesOK'
  BY <1>1, <1>b DEF IInv, FilesOK, InWindow, files, R, Taken, Written
<1>7. LogCovers' /\ RewriteCovers' /\ PromisesLogged'
  BY <1>1, <1>b, CoversKept DEF IInv, InWindow, R, files, ghosts, Snapped
<1> QED BY <1>3, <1>4, <1>5, <1>6, <1>7 DEF IInv

\* rewrite_barrier.write(): granted when no client is past the barrier.
LEMMA WriteBarrierOK ==
  ASSUME IInv, WriteBarrier
  PROVE  IInv'
<1> USE DEF WriteBarrier, Goto
<1>0. /\ R \in Task /\ TypeOK /\ pc[R] = "barrier" /\ status = "up"
      /\ First(barrier, R) /\ barrier.readers = {} /\ barrier.writers = {}
  BY AofAssumption DEF IInv, R, CanWrite, StagesOK
<1>1. /\ pc'[R] = "snapshot"
      /\ \A u \in Client : u \in Task /\ u # R /\ pc'[u] = pc[u]
      /\ \A u \in Task : u # R => pc'[u] = pc[u]
  BY <1>0, PcMoved
<1>2. barrier' \in Lock /\ barrier'.writers = {R} /\ barrier'.readers = {}
  <2>1. barrier \in Lock /\ barrier' = WriteLock(barrier, R)
    BY <1>0 DEF TypeOK
  <2>2. /\ WriteLock(barrier, R) \in Lock
        /\ WriteLock(barrier, R).readers = barrier.readers
        /\ WriteLock(barrier, R).writers = barrier.writers \cup {R}
    BY <1>0, <2>1, LockFacts
  <2> QED BY <1>0, <2>1, <2>2
<1>3. StagesOK' /\ pc' \in [Task -> ClientStage \cup RewriteStage]
  BY <1>0, StagesMoved DEF IInv, RewriteStage, Client, R
<1>4. TypeOK'
  BY <1>0, <1>2, <1>3 DEF TypeOK, files, ghosts
<1>5. LocksOK'
  <2>1. "snapshot" \notin Engaged
    BY DEF Engaged
  <2>2. \A u \in Client : pc'[u] \notin Reading
    BY <1>0, <1>1 DEF IInv, LocksOK
  <2>3. \A u \in Task : pc'[u] \in Engaged => u \in engine'.writers
    BY <1>0, <1>1, <2>1 DEF IInv, LocksOK
  <2> QED BY <1>2, <2>2, <2>3 DEF IInv, LocksOK, R, Client
<1>6. FilesOK'
  BY <1>1 DEF IInv, FilesOK, InWindow, files, R, Taken, Written
<1>7. LogCovers' /\ RewriteCovers' /\ PromisesLogged'
  BY <1>1, CoversKept DEF IInv, InWindow, R, files, ghosts, Snapped
<1> QED BY <1>3, <1>4, <1>5, <1>6, <1>7 DEF IInv

\* What a file covers it still covers when the store loses its expired entries.
LEMMA CoversSwept ==
  ASSUME TypeOK, UNCHANGED <<now, status, damaged>>, db' = LiveView(db, now),
         NEW f, Covers(f)
  PROVE  status' = "up" /\ ~damaged' /\ Readable(f) =>
           \A time \in Nat : now' <= time => FileAgrees(f, db', time)
BY AofAssumption, FileAgreesSwept DEF TypeOK, Covers, AgreesFromNow

\* snapshot_entries purges the store and takes all that is left.
LEMMA TakeSnapshotOK ==
  ASSUME IInv, TakeSnapshot
  PROVE  IInv'
<1> USE DEF TakeSnapshot, Goto
<1>0. /\ R \in Task /\ TypeOK /\ pc[R] = "snapshot" /\ status = "up"
      /\ \A u \in Client : u \in Task /\ u # R /\ pc[u] \notin Pending
      /\ now \in Nat /\ db \in Data /\ Covers(path)
  BY RewriterAlone DEF Rewriting, RewriteStage
<1>1. pc'[R] = "engine" /\ \A u \in Client : pc'[u] = pc[u]
  BY <1>0, PcMoved
<1>2. engine' \in Lock /\ engine'.writers = engine.writers /\ LiveView(db, now) \in Data
  BY <1>0, LockFacts, LiveViewType DEF TypeOK
<1>3. StagesOK' /\ pc' \in [Task -> ClientStage \cup RewriteStage]
  BY <1>0, StagesMoved DEF IInv, RewriteStage, Client, R
<1>4. TypeOK'
  BY <1>0, <1>2, <1>3 DEF TypeOK, files, ghosts
<1>5. LocksOK'
  BY <1>0, <1>2, LocksKept DEF IInv, Reading, Rewriting, RewriteStage, Engaged
<1>6. FilesOK'
  BY <1>1 DEF IInv, FilesOK, InWindow, files, R, Taken, Written
<1>7. LogCovers'
  <2>1. Covers(path)'
    BY <1>0, CoversSwept DEF Covers, AgreesFromNow, Readable, files, ghosts
  <2> QED BY <1>0, <1>1, <2>1 DEF LogCovers, Client
<1>8. RewriteCovers'
  <2>1. \A time \in Nat : SnapshotAgrees(snapshot', db', time)
    BY <1>2, AgreesWithItself
  <2> QED BY <1>1, <2>1 DEF RewriteCovers, InWindow, R
<1>9. PromisesLogged'
  BY <1>0 DEF PromisesLogged
<1> QED BY <1>3, <1>4, <1>5, <1>6, <1>7, <1>8, <1>9 DEF IInv

\* The snapshot is written to the temp file, or the rewrite gives up before
\* the handle is taken.
LEMMA WriteTempOK ==
  ASSUME IInv, WriteTemp
  PROVE  IInv'
<1>0. /\ pc[R] = "temp" /\ pc[R] \in Rewriting \cap Engaged /\ TypeOK /\ snapshot \in Data
      /\ Covers(path)
  <2>1. pc[R] = "temp" /\ pc[R] \in Rewriting \cap Engaged
    BY DEF WriteTemp, Rewriting, RewriteStage, Engaged
  <2> QED BY <2>1, RewriterAlone
<1>1. SnapshotFrames(snapshot) \in LogFile /\ Missing \in LogFile /\ <<TornFrame>> \in LogFile
  <2>1. SnapshotFrames(snapshot) \in Seq(Frame)
    BY <1>0, SnapshotFile
  <2>2. Seq(Frame) \subseteq Seq(Frame \cup {TornFrame})
    OBVIOUS
  <2>3. <<TornFrame>> \in Seq(Frame \cup {TornFrame})
    OBVIOUS
  <2> QED BY <2>1, <2>2, <2>3 DEF LogFile
<1>2. UNCHANGED <<now, status, db, path, backup, handle, cmd, ghosts>>
  BY DEF WriteTemp
<1>3. Covers(path)'
  BY <1>0, <1>2 DEF Covers, AgreesFromNow, ghosts
<1>4. CASE /\ temp' = SnapshotFrames(snapshot)
           /\ Goto(R, "flush")
           /\ UNCHANGED <<budget, locks, snapshot>>
  <2>1. pc'[R] = "flush"
    BY <1>0, <1>4, PcMoved, AofAssumption DEF Goto, R
  <2>2. "flush" \in Rewriting \cap Engaged /\ "flush" \in Snapped /\ "temp" \in Snapped
    BY DEF Rewriting, RewriteStage, Engaged, Snapped
  <2>3. FilesOK'
    BY <1>1, <1>2, <1>4, <2>1 DEF IInv, FilesOK, InWindow, Taken, R
  <2>4. damaged' \in BOOLEAN /\ handle' \in {"open", "closed"} /\ promised' = promised
    BY <1>0, <1>2 DEF TypeOK, ghosts
  <2> QED BY <1>0, <1>2, <1>3, <1>4, <2>2, <2>3, <2>4, RewriteMoves
<1>5. CASE /\ Fault
           /\ temp' \in {temp, Missing, <<TornFrame>>}
           /\ GiveUp
  <2>1. temp' \in LogFile /\ path' \in LogFile /\ backup' \in LogFile
    BY <1>1, <1>2, <1>5 DEF IInv, FilesOK
  <2>2. damaged' \in BOOLEAN /\ handle' \in {"open", "closed"} /\ promised' = promised
    BY <1>0, <1>2 DEF TypeOK, ghosts
  <2>3. handle' = "open" => path' # Missing
    BY <1>2 DEF IInv, FilesOK
  <2> QED BY <1>0, <1>2, <1>3, <1>5, <2>1, <2>2, <2>3, RewriteEnds
<1> QED BY <1>4, <1>5 DEF WriteTemp

\* The handle is taken, or the rewrite gives up.
LEMMA FlushAndTakeOK ==
  ASSUME IInv, FlushAndTake
  PROVE  IInv'
<1>0. /\ pc[R] = "flush" /\ pc[R] \in Rewriting \cap Engaged /\ TypeOK /\ Covers(path)
  <2>1. pc[R] = "flush" /\ pc[R] \in Rewriting \cap Engaged
    BY DEF FlushAndTake, Rewriting, RewriteStage, Engaged
  <2> QED BY <2>1, RewriterAlone
<1>2. UNCHANGED <<now, status, db, path, temp, backup, cmd, ghosts>>
  BY DEF FlushAndTake
<1>3. Covers(path)'
  BY <1>0, <1>2 DEF Covers, AgreesFromNow, ghosts
<1>4. CASE /\ handle = "open"
           /\ handle' = "closed"
           /\ Goto(R, "unbackup")
           /\ UNCHANGED <<budget, locks, snapshot>>
  <2>1. pc'[R] = "unbackup"
    BY <1>0, <1>4, PcMoved, AofAssumption DEF Goto, R
  <2>2. "unbackup" \in Rewriting \cap Engaged /\ "flush" \in Snapped /\ "flush" \in Written
    BY DEF Rewriting, RewriteStage, Engaged, Snapped, Written
  <2>3. FilesOK'
    BY <1>0, <1>2, <1>4, <2>1, <2>2 DEF IInv, FilesOK, InWindow, R
  <2>4. damaged' \in BOOLEAN /\ handle' \in {"open", "closed"} /\ promised' = promised
    BY <1>0, <1>2, <1>4 DEF TypeOK, ghosts
  <2> QED BY <1>0, <1>2, <1>3, <1>4, <2>2, <2>3, <2>4, RewriteMoves
<1>5. CASE GiveUp /\ (budget' = budget \/ Fault) /\ handle' = handle
  <2>1. temp' \in LogFile /\ path' \in LogFile /\ backup' \in LogFile
    BY <1>2 DEF IInv, FilesOK
  <2>2. damaged' \in BOOLEAN /\ handle' \in {"open", "closed"} /\ promised' = promised
    BY <1>0, <1>2, <1>5 DEF TypeOK, ghosts
  <2>3. handle' = "open" => path' # Missing
    BY <1>2, <1>5 DEF IInv, FilesOK
  <2> QED BY <1>0, <1>2, <1>3, <1>5, <2>1, <2>2, <2>3, RewriteEnds
<1> QED BY <1>4, <1>5 DEF FlushAndTake

\* A step of replace_aof_file: what FilesOK and the coverage of the log and of
\* the backup say after it is what there is to show.
LEMMA ReplaceMoves ==
  ASSUME IInv, pc[R] \in Taken, NEW stage \in Taken, Goto(R, stage),
         UNCHANGED <<now, status, db, handle, locks, cmd, snapshot, promised>>,
         budget' = budget \/ Fault, damaged' \in BOOLEAN,
         path' \in LogFile, temp' \in LogFile, backup' \in LogFile,
         stage \in {"unbackup", "backup"} => path' # Missing,
         stage \in {"promote", "restore"} => backup' # Missing /\ Covers(backup)',
         stage \in Snapped => pc[R] \in Snapped /\ temp' = temp,
         Covers(path)'
  PROVE  IInv'
<1>0. TypeOK /\ Taken \subseteq Rewriting \cap Engaged
  BY DEF IInv, Taken, Rewriting, RewriteStage, Engaged
<1>1. pc'[R] = stage
  BY <1>0, PcMoved, AofAssumption DEF Goto, R
<1>2. handle' = "closed" /\ handle' \in {"open", "closed"}
  BY DEF IInv, FilesOK
<1>3. stage \in Written => temp' = SnapshotFrames(snapshot')
  BY DEF IInv, FilesOK, Written, Snapped, Taken
<1>4. FilesOK'
  BY <1>1, <1>2, <1>3 DEF FilesOK, InWindow, R
<1> QED BY <1>0, <1>2, <1>4, RewriteMoves

\* What is left of an earlier rewrite is removed before the log is moved.
LEMMA RemoveOldBackupOK ==
  ASSUME IInv, RemoveOldBackup
  PROVE  IInv'
<1>0. /\ pc[R] = "unbackup" /\ pc[R] \in Taken /\ TypeOK /\ Covers(path)
  <2>1. pc[R] = "unbackup" /\ pc[R] \in Taken /\ pc[R] \in Rewriting
    BY DEF RemoveOldBackup, Rewriting, RewriteStage, Taken
  <2> QED BY <2>1, RewriterAlone
<1>1. PICK stage \in {"backup", "reopen"} : Goto(R, stage)
  BY DEF RemoveOldBackup
<1>2. UNCHANGED <<now, status, db, path, temp, handle, locks, cmd, snapshot, ghosts>>
  BY DEF RemoveOldBackup
<1>3. Covers(path)'
  BY <1>0, <1>2 DEF Covers, AgreesFromNow, ghosts
<1>4. /\ path' \in LogFile /\ temp' \in LogFile /\ backup' \in LogFile
      /\ path' # Missing
  BY <1>0, <1>2 DEF IInv, FilesOK, LogFile, RemoveOldBackup
<1>5. damaged' \in BOOLEAN /\ promised' = promised /\ (budget' = budget \/ Fault)
  BY <1>0, <1>2 DEF TypeOK, ghosts, RemoveOldBackup
<1>6. stage \in Taken /\ stage \notin {"promote", "restore"} /\ pc[R] \in Snapped
  BY <1>0, <1>1 DEF Taken, Snapped
<1> QED BY <1>0, <1>1, <1>2, <1>3, <1>4, <1>5, <1>6, ReplaceMoves

\* The log becomes the backup, and covers the store in its place.
LEMMA RenameToBackupOK ==
  ASSUME IInv, RenameToBackup
  PROVE  IInv'
<1>0. /\ pc[R] = "backup" /\ pc[R] \in Taken /\ pc[R] \in Snapped /\ TypeOK /\ Covers(path)
      /\ path # Missing
  <2>1. pc[R] = "backup" /\ pc[R] \in Taken /\ pc[R] \in Rewriting /\ pc[R] \in Snapped
    BY DEF RenameToBackup, Rewriting, RewriteStage, Taken, Snapped
  <2> QED BY <2>1, RewriterAlone DEF IInv, FilesOK
<1>2. UNCHANGED <<now, status, db, temp, handle, locks, cmd, snapshot, ghosts>>
  BY DEF RenameToBackup
<1>3. path \in LogFile /\ temp \in LogFile /\ backup \in LogFile /\ Missing \in LogFile
  BY DEF IInv, FilesOK, LogFile
<1>4. damaged' \in BOOLEAN /\ promised' = promised
  BY <1>0, <1>2 DEF TypeOK, ghosts
<1>5. CASE backup' = path /\ path' = Missing /\ Goto(R, "promote") /\ UNCHANGED budget
  <2>1. Covers(path)' /\ Covers(backup)'
    BY <1>0, <1>2, <1>5 DEF Covers, AgreesFromNow, Readable, ghosts
  <2>2. "promote" \in Taken
    BY DEF Taken
  <2> QED BY <1>0, <1>2, <1>3, <1>4, <1>5, <2>1, <2>2, ReplaceMoves
<1>6. CASE Fault /\ Goto(R, "reopen") /\ UNCHANGED <<path, backup>>
  <2>1. Covers(path)'
    BY <1>0, <1>2, <1>6 DEF Covers, AgreesFromNow, ghosts
  <2>2. "reopen" \in Taken /\ "reopen" \notin Snapped
    BY DEF Taken, Snapped
  <2> QED BY <1>0, <1>2, <1>3, <1>4, <1>6, <2>1, <2>2, ReplaceMoves
<1> QED BY <1>5, <1>6 DEF RenameToBackup

\* The snapshot becomes the log: it replays to the store as it is by now.
LEMMA PromoteOK ==
  ASSUME IInv, Promote
  PROVE  IInv'
<1>0. /\ pc[R] = "promote" /\ pc[R] \in Taken /\ TypeOK /\ Covers(path) /\ snapshot \in Data
      /\ pc[R] \in Snapped /\ pc[R] \in Written
  <2>1. /\ pc[R] = "promote" /\ pc[R] \in Taken /\ pc[R] \in Rewriting /\ pc[R] \in Snapped
        /\ pc[R] \in Written
    BY DEF Promote, Rewriting, RewriteStage, Taken, Snapped, Written
  <2> QED BY <2>1, RewriterAlone
<1>2. UNCHANGED <<now, status, db, backup, handle, locks, cmd, snapshot, promised>>
  BY DEF Promote
<1>3. path \in LogFile /\ temp \in LogFile /\ backup \in LogFile /\ Missing \in LogFile
  BY DEF IInv, FilesOK, LogFile
<1>4. InWindow /\ backup # Missing /\ Covers(backup)
  BY <1>0 DEF IInv, FilesOK, RewriteCovers, InWindow
<1>5. CASE /\ path' = temp
           /\ temp' = Missing
           /\ damaged' = FALSE
           /\ Goto(R, IF backup = Missing THEN "reopen" ELSE "cleanup")
           /\ UNCHANGED budget
  <2>1. temp = SnapshotFrames(snapshot)
    BY <1>0 DEF IInv, FilesOK
  <2>2. \A time \in Nat : now <= time => FileAgrees(temp, db, time)
    BY <1>0, <2>1, SnapshotReplay, SparesSnapshot DEF IInv, RewriteCovers, FileAgrees, SnapshotAgrees, TypeOK
  <2>3. Covers(path)'
    BY <1>2, <1>5, <2>2 DEF Covers, AgreesFromNow
  <2>4. "cleanup" \in Taken /\ "cleanup" \notin Snapped /\ Goto(R, "cleanup")
    BY <1>4, <1>5 DEF Taken, Snapped
  <2> QED BY <1>0, <1>2, <1>3, <1>5, <2>3, <2>4, ReplaceMoves
<1>6. CASE /\ Fault
           /\ Goto(R, IF backup = Missing THEN "reopen" ELSE "restore")
           /\ UNCHANGED <<path, temp, damaged>>
  <2>1. Covers(path)' /\ Covers(backup)'
    BY <1>0, <1>2, <1>4, <1>6 DEF Covers, AgreesFromNow
  <2>2. /\ "restore" \in Taken /\ "restore" \notin Snapped /\ Goto(R, "restore")
        /\ damaged' \in BOOLEAN
    BY <1>0, <1>4, <1>6 DEF Taken, Snapped, TypeOK
  <2> QED BY <1>0, <1>2, <1>3, <1>4, <1>6, <2>1, <2>2, ReplaceMoves
<1> QED BY <1>5, <1>6 DEF Promote

\* The backup becomes the log again, or there is none.
LEMMA RestoreBackupOK ==
  ASSUME IInv, RestoreBackup
  PROVE  IInv'
<1>0. /\ pc[R] = "restore" /\ pc[R] \in Taken /\ TypeOK /\ Covers(path)
  <2>1. pc[R] = "restore" /\ pc[R] \in Taken /\ pc[R] \in Rewriting
    BY DEF RestoreBackup, Rewriting, RewriteStage, Taken
  <2> QED BY <2>1, RewriterAlone
<1>2. /\ UNCHANGED <<now, status, db, temp, handle, locks, cmd, snapshot, ghosts>>
      /\ Goto(R, "reopen") /\ (budget' = budget \/ Fault)
      /\ \/ path' = backup /\ backup' = Missing
         \/ path' = path /\ backup' = backup
  BY Zenon DEF RestoreBackup
<1>3. path \in LogFile /\ temp \in LogFile /\ backup \in LogFile /\ Missing \in LogFile
  BY DEF IInv, FilesOK, LogFile
<1>4. Covers(backup)
  BY <1>0 DEF IInv, RewriteCovers, InWindow
<1>5. Covers(path)'
  BY <1>0, <1>2, <1>4 DEF Covers, AgreesFromNow, ghosts
<1>6. "reopen" \in Taken /\ "reopen" \notin Snapped /\ damaged' \in BOOLEAN /\ promised' = promised
  BY <1>0, <1>2 DEF Taken, Snapped, TypeOK, ghosts
<1> QED BY <1>0, <1>2, <1>3, <1>5, <1>6, ReplaceMoves

\* After the promotion the backup is not needed.
LEMMA RemoveBackupOK ==
  ASSUME IInv, RemoveBackup
  PROVE  IInv'
<1>0. /\ pc[R] = "cleanup" /\ pc[R] \in Taken /\ TypeOK /\ Covers(path)
  <2>1. pc[R] = "cleanup" /\ pc[R] \in Taken /\ pc[R] \in Rewriting
    BY DEF RemoveBackup, Rewriting, RewriteStage, Taken
  <2> QED BY <2>1, RewriterAlone
<1>2. /\ UNCHANGED <<now, status, db, path, temp, handle, locks, cmd, snapshot, ghosts>>
      /\ Goto(R, "reopen") /\ (budget' = budget \/ Fault)
      /\ (backup' = Missing \/ backup' = backup)
  BY DEF RemoveBackup
<1>3. path \in LogFile /\ temp \in LogFile /\ backup \in LogFile /\ Missing \in LogFile
  BY DEF IInv, FilesOK, LogFile
<1>5. Covers(path)'
  BY <1>0, <1>2 DEF Covers, AgreesFromNow, ghosts
<1>6. "reopen" \in Taken /\ "reopen" \notin Snapped /\ damaged' \in BOOLEAN /\ promised' = promised
  BY <1>0, <1>2 DEF Taken, Snapped, TypeOK, ghosts
<1> QED BY <1>0, <1>2, <1>3, <1>5, <1>6, ReplaceMoves

\* The log is opened again, and created if it was lost on the way.
LEMMA ReopenOK ==
  ASSUME IInv, Reopen
  PROVE  IInv'
<1>0. /\ pc[R] = "reopen" /\ pc[R] \in Rewriting /\ TypeOK /\ Covers(path)
  <2>1. pc[R] = "reopen" /\ pc[R] \in Rewriting
    BY DEF Reopen, Rewriting, RewriteStage
  <2> QED BY <2>1, RewriterAlone
<1>1. handle = "closed"
  BY <1>0 DEF IInv, FilesOK, Taken
<1>2. /\ UNCHANGED <<now, status, db, temp, backup, cmd, promised>>
      /\ GiveUp /\ (budget' = budget \/ Fault)
      /\ \/ /\ handle' = "open"
            /\ path' = IF path = Missing THEN << >> ELSE path
            /\ damaged' = (damaged \/ path = Missing)
         \/ UNCHANGED <<handle, path, damaged>>
  BY DEF Reopen
<1>3. path \in LogFile /\ temp \in LogFile /\ backup \in LogFile /\ << >> \in LogFile
  BY DEF IInv, FilesOK, LogFile
<1>4. << >> # Missing
  <2>1. << >> \in Seq(Command \cup {TornFrame})
    OBVIOUS
  <2> QED BY <2>1, AofAssumption
<1>5. Covers(path)'
  <2>1. damaged \in BOOLEAN
    BY <1>0 DEF TypeOK
  <2>2. ~damaged' /\ path # Missing => path' = path /\ ~damaged
    BY <1>2, <2>1
  <2>3. path = Missing => damaged' \/ path' = Missing
    BY <1>2, <2>1
  <2> QED BY <1>0, <1>2, <2>2, <2>3 DEF Covers, AgreesFromNow, Readable
<1>6. /\ damaged' \in BOOLEAN /\ handle' \in {"open", "closed"}
      /\ handle' = "open" => path' # Missing
  BY <1>0, <1>1, <1>2, <1>4 DEF TypeOK
<1> QED BY <1>0, <1>2, <1>3, <1>5, <1>6, RewriteEnds

-----------------------------------------------------------------------------
(***************************************************************************)
(* The TTL worker, the clock, crashes and restarts.                        *)
(***************************************************************************)

\* The sweep only removes what the log no longer replays either.
LEMMA SweepOK ==
  ASSUME IInv, Sweep
  PROVE  IInv'
<1> USE DEF Sweep
<1>0. TypeOK /\ now \in Nat /\ db \in Data /\ status = "up" /\ R' = R /\ Client' = Client
  BY AofAssumption DEF IInv, TypeOK, R, Client
<1>1. UNCHANGED <<now, status, files, locks, pc, cmd, snapshot, budget, ghosts>>
      /\ db' = LiveView(db, now) /\ db' \in Data
  BY <1>0, LiveViewType
<1> HIDE DEF Sweep
<1>2. TypeOK'
  BY <1>0, <1>1 DEF TypeOK, files, locks, ghosts
<1>3. StagesOK' /\ LocksOK' /\ FilesOK'
  BY <1>0, <1>1 DEF IInv, StagesOK, LocksOK, FilesOK, InWindow, files, locks
<1>4. ASSUME NEW f, Covers(f)
      PROVE  status' = "up" /\ ~damaged' /\ Readable(f) =>
               \A time \in Nat : now' <= time => FileAgrees(f, db', time)
  BY <1>0, <1>1, <1>4, CoversSwept DEF ghosts
<1>5. \A f : Covers(f) => Covers(f)'
  BY <1>4 DEF Covers, AgreesFromNow
<1>6. LogCovers'
  <2>1. ASSUME \A t \in Client : pc'[t] \notin Pending PROVE Covers(path)'
    <3>1. Covers(path)
      BY <1>1, <2>1 DEF IInv, LogCovers
    <3> QED BY <1>1, <1>4, <3>1 DEF Covers, AgreesFromNow, files
  <2>2. ASSUME NEW t \in Client, pc'[t] \in Pending
        PROVE  \E base \in Seq(Frame \cup {TornFrame}), then \in 0 .. now' :
                 path' = Append(base, Logged(cmd'[t], then)) /\ Covers(base)'
    BY <1>1, <1>5, <2>2 DEF IInv, LogCovers, files
  <2> QED BY <1>0, <2>1, <2>2 DEF LogCovers
<1>7. RewriteCovers'
  <2>1. ASSUME pc[R] \in Snapped, NEW time \in Nat, now <= time
        PROVE  SnapshotAgrees(snapshot, db', time)
    <3>1. SnapshotAgrees(snapshot, db, time)
      BY <2>1 DEF IInv, RewriteCovers
    <3> QED BY <1>0, <1>1, <2>1, <3>1, SnapshotAgreesSwept
  <2>2. InWindow' => Covers(backup)'
    <3>1. InWindow => Covers(backup)
      BY DEF IInv, RewriteCovers
    <3> QED BY <1>0, <1>1, <1>4, <3>1 DEF Covers, AgreesFromNow, InWindow, files
  <2> QED BY <1>0, <1>1, <2>1, <2>2 DEF RewriteCovers
<1>8. PromisesLogged'
  BY <1>0, <1>1 DEF PromisesLogged
<1> QED BY <1>2, <1>3, <1>6, <1>7, <1>8 DEF IInv

\* The clock moves, and what holds from now on holds from then on.
LEMMA TickOK ==
  ASSUME IInv, Tick
  PROVE  IInv'
<1>0. /\ TypeOK /\ now \in Nat /\ MaxTime \in Nat /\ R' = R /\ Client' = Client
      /\ now < MaxTime /\ now' = now + 1
      /\ UNCHANGED <<status, db, files, locks, pc, cmd, snapshot, budget, ghosts>>
  BY AofAssumption DEF IInv, TypeOK, R, Client, Tick
<1>1. now' \in 0 .. MaxTime /\ now' \in Nat /\ \A time \in Nat : now' <= time => now <= time
  BY <1>0
<1>2. TypeOK'
  BY <1>0, <1>1 DEF TypeOK, files, locks, ghosts
<1>3. StagesOK' /\ LocksOK' /\ FilesOK'
  BY <1>0 DEF IInv, StagesOK, LocksOK, FilesOK, InWindow, files, locks
<1>4. \A f : Covers(f) => Covers(f)'
  BY <1>0, <1>1 DEF Covers, AgreesFromNow, ghosts
<1>5. LogCovers'
  <2>1. ASSUME \A t \in Client : pc'[t] \notin Pending PROVE Covers(path)'
    <3>1. Covers(path)
      BY <1>0, <2>1 DEF IInv, LogCovers
    <3> QED BY <1>0, <1>1, <3>1 DEF Covers, AgreesFromNow, files, ghosts
  <2>2. ASSUME NEW t \in Client, pc'[t] \in Pending
        PROVE  \E base \in Seq(Frame \cup {TornFrame}), then \in 0 .. now' :
                 path' = Append(base, Logged(cmd'[t], then)) /\ Covers(base)'
    <3>1. PICK base \in Seq(Frame \cup {TornFrame}), then \in 0 .. now :
            path = Append(base, Logged(cmd[t], then)) /\ Covers(base)
      BY <1>0, <2>2 DEF IInv, LogCovers
    <3>2. then \in 0 .. now' /\ Covers(base)'
      BY <1>0, <1>1, <1>4, <3>1
    <3> QED BY <1>0, <3>1, <3>2 DEF files
  <2> QED BY <1>0, <2>1, <2>2 DEF LogCovers
<1>6. RewriteCovers'
  <2>1. pc'[R] \in Snapped =>
          \A time \in Nat : now' <= time => SnapshotAgrees(snapshot', db', time)
    BY <1>0, <1>1 DEF IInv, RewriteCovers
  <2>2. InWindow' => Covers(backup)'
    <3>1. InWindow => Covers(backup)
      BY DEF IInv, RewriteCovers
    <3> QED BY <1>0, <1>1, <3>1 DEF Covers, AgreesFromNow, InWindow, files, ghosts
  <2> QED BY <1>0, <2>1, <2>2 DEF RewriteCovers
<1>7. PromisesLogged'
  BY <1>0, <1>1 DEF IInv, PromisesLogged, files, ghosts
<1> QED BY <1>2, <1>3, <1>5, <1>6, <1>7 DEF IInv

\* Every permanent entry is in what a covering log replays to.
LEMMA PermanentReplayed ==
  ASSUME NEW file, AgreesFromNow(file), NEW time \in Nat, now <= time,
         NEW k \in Key, db[k] # Absent, db[k].expireAt = Never
  PROVE  Replay(file, time)[k] = db[k]
BY DEF AgreesFromNow, FileAgrees, Agrees, Matches

\* So it is with one more frame, of a command that does not name its key.
LEMMA PermanentReplayedPast ==
  ASSUME NEW file \in Seq(Frame), AgreesFromNow(file), NEW time \in Nat, now <= time,
         NEW c \in Command, c.op \in WriteOp, NEW then \in Nat,
         NEW k \in Key, db[k] # Absent, db[k].expireAt = Never,
         c.op # "FLUSHDB", k \notin ToSet(c.keys)
  PROVE  Replay(Append(file, Logged(c, then)), time)[k] = db[k]
<1>1. Logged(c, then) \in Frame /\ Replay(file, time) \in Data
  BY LoggedFacts, ReplayType
<1>2. Replay(file, time)[k] = db[k]
  BY PermanentReplayed
<1>3. Replay(Append(file, Logged(c, then)), time) = Run(Replay(file, time), Logged(c, then), time)
  BY <1>1, ReplayAppend
<1> QED BY <1>1, <1>2, <1>3, PermanentKept

\* What a crash leaves: the log as it is, with all or part of the frame being
\* written, or without all or part of the one not yet synced.
LEMMA CrashCases ==
  ASSUME NEW file \in AfterCrash
  PROVE  \/ file = path
         \/ \E t \in Client : /\ pc[t] = "append" /\ handle = "open"
                              /\ file \in {Append(path, Logged(cmd[t], now)), Append(path, TornFrame)}
         \/ \E t \in Client : /\ pc[t] = "sync"
                              /\ file \in {Front(path), Append(Front(path), TornFrame)}
<1> DEFINE W == UNION {{Append(path, Logged(cmd[t], now)), Append(path, TornFrame)} :
                         t \in {t \in Client : pc[t] = "append" /\ handle = "open"}}
           S == IF \E t \in Client : pc[t] = "sync"
                  THEN {Front(path), Append(Front(path), TornFrame)} ELSE {}
<1>1. AfterCrash = {path} \cup W \cup S
  BY DEF AfterCrash
<1>2. file \in W => \E t \in Client :
        /\ pc[t] = "append" /\ handle = "open"
        /\ file \in {Append(path, Logged(cmd[t], now)), Append(path, TornFrame)}
  BY Zenon
<1>3. file \in S => \E t \in Client :
        /\ pc[t] = "sync"
        /\ file \in {Front(path), Append(Front(path), TornFrame)}
  BY Zenon
<1> HIDE DEF W, S
<1> QED BY <1>1, <1>2, <1>3

\* Whatever a crash leaves of the log replays to the permanent entries nobody
\* was writing.
LEMMA CrashLeaves ==
  ASSUME IInv, status = "up", NEW file \in AfterCrash
  PROVE  /\ file \in LogFile
         /\ ~damaged /\ Readable(file) =>
              \A time \in Nat, k \in Key :
                now <= time /\ db[k] # Absent /\ db[k].expireAt = Never /\ k \notin InDoubt
                  => Replay(file, time)[k] = db[k]
<1> DEFINE Kept(f) == ~damaged /\ Readable(f) =>
              \A time \in Nat, k \in Key :
                now <= time /\ db[k] # Absent /\ db[k].expireAt = Never /\ k \notin InDoubt
                  => Replay(f, time)[k] = db[k]
<1> SUFFICES file \in LogFile /\ Kept(file)
  OBVIOUS
<1>0. TypeOK /\ now \in Nat /\ path \in LogFile
  BY AofAssumption DEF IInv, TypeOK, FilesOK
<1>1. ASSUME NEW f, Covers(f) PROVE Kept(f)
  <2>1. ~damaged /\ Readable(f) => AgreesFromNow(f)
    BY <1>1 DEF Covers
  <2> QED BY <2>1, PermanentReplayed
<1>2. ASSUME NEW f \in Seq(Frame \cup {TornFrame}), Covers(f),
             NEW t \in Client, pc[t] \in {"append", "sync", "execute"}, NEW then \in Nat
      PROVE  Kept(Append(f, Logged(cmd[t], then)))
  <2>1. cmd[t] \in Command /\ cmd[t].op \in WriteOp
    BY <1>2, Alone
  <2>2. Logged(cmd[t], then) \in Frame
    BY <2>1, LoggedFacts
  <2>3. ASSUME NEW k \in Key, k \notin InDoubt
        PROVE  cmd[t].op # "FLUSHDB" /\ k \notin ToSet(cmd[t].keys)
    BY <1>2, <2>3 DEF InDoubt
  <2>4. SUFFICES ASSUME ~damaged, Readable(Append(f, Logged(cmd[t], then))),
                        NEW time \in Nat, NEW k \in Key, now <= time, db[k] # Absent,
                        db[k].expireAt = Never, k \notin InDoubt
                 PROVE  Replay(Append(f, Logged(cmd[t], then)), time)[k] = db[k]
    OBVIOUS
  <2>5. Readable(f) /\ f \in Seq(Frame)
    <3>1. Readable(f)
      BY <2>2, <2>4, AppendFacts
    <3> QED BY <3>1, LogFileFacts DEF LogFile
  <2>6. AgreesFromNow(f)
    BY <1>2, <2>4, <2>5 DEF Covers
  <2> QED BY <2>1, <2>3, <2>4, <2>5, <2>6, PermanentReplayedPast
<1>3. ASSUME NEW f \in Seq(Frame \cup {TornFrame})
      PROVE  Append(f, TornFrame) \in LogFile /\ Kept(Append(f, TornFrame))
  <2>1. Append(f, TornFrame) \in LogFile /\ ~Readable(Append(f, TornFrame))
    BY AppendFacts
  <2> QED BY <2>1
<1>4. Kept(path)
  <2>1. CASE \A t \in Client : pc[t] \notin Pending
    BY <1>1, <2>1 DEF IInv, LogCovers
  <2>2. CASE \E t \in Client : pc[t] \in Pending
    <3>1. PICK t \in Client : pc[t] \in Pending
      BY <2>2
    <3>2. PICK base \in Seq(Frame \cup {TornFrame}), then \in 0 .. now :
            path = Append(base, Logged(cmd[t], then)) /\ Covers(base)
      BY <3>1 DEF IInv, LogCovers
    <3>3. pc[t] \in {"append", "sync", "execute"} /\ then \in Nat
      BY <1>0, <3>1 DEF Pending
    <3> HIDE DEF Kept
    <3> QED BY <1>2, <3>2, <3>3
  <2> QED BY <2>1, <2>2
<1> HIDE DEF Kept
<1>5. ASSUME NEW t \in Client, pc[t] = "append", handle = "open",
             file \in {Append(path, Logged(cmd[t], now)), Append(path, TornFrame)}
      PROVE  file \in LogFile /\ Kept(file)
  <2>1. \A u \in Client : pc[u] \notin Pending
    BY <1>5, Alone DEF Pending
  <2>2. Covers(path) /\ path \in Seq(Frame \cup {TornFrame})
    BY <1>5, <2>1, LogFileFacts DEF IInv, LogCovers, FilesOK
  <2>3. Logged(cmd[t], now) \in Frame
    BY <1>0, <1>5, Alone, LoggedFacts
  <2>4. Append(path, Logged(cmd[t], now)) \in LogFile
    BY <2>2, <2>3, AppendFacts
  <2>5. Kept(Append(path, Logged(cmd[t], now)))
    BY <1>0, <1>2, <1>5, <2>2
  <2> QED BY <1>3, <1>5, <2>2, <2>4, <2>5
<1>6. ASSUME NEW t \in Client, pc[t] = "sync",
             file \in {Front(path), Append(Front(path), TornFrame)}
      PROVE  file \in LogFile /\ Kept(file)
  <2>1. PICK base \in Seq(Frame \cup {TornFrame}), then \in 0 .. now :
          path = Append(base, Logged(cmd[t], then)) /\ Covers(base)
    BY <1>6 DEF IInv, LogCovers, Pending
  <2>2. Logged(cmd[t], then) \in Frame
    BY <1>0, <1>6, <2>1, Alone, LoggedFacts
  <2>3. Front(path) = base
    BY <2>1, <2>2, AppendFacts
  <2>4. base \in LogFile /\ Kept(base)
    BY <1>1, <2>1 DEF LogFile
  <2> QED BY <1>3, <1>6, <2>1, <2>3, <2>4
<1> QED BY <1>0, <1>4, <1>5, <1>6, CrashCases

\* The process dies: whatever the stage of every task, what is left of the log
\* has what was promised.
LEMMA CrashOK ==
  ASSUME IInv, Crash
  PROVE  IInv'
<1>0. /\ TypeOK /\ now \in Nat /\ R \in Task /\ R' = R /\ Client' = Client
      /\ status = "up" /\ status' = "down" /\ path' \in AfterCrash
      /\ temp' \in {temp, Missing, <<TornFrame>>} /\ backup' = backup
      /\ now' = now /\ damaged' = damaged /\ handle' = "closed"
      /\ db' = EmptyData /\ snapshot' = EmptyData /\ barrier' = Unlocked /\ engine' = Unlocked
      /\ pc' = [t \in Task |-> "idle"] /\ cmd' = [t \in Task |-> NoCommand]
  BY AofAssumption DEF IInv, TypeOK, R, Client, Crash
<1>1. /\ budget' \in [writes : 0 .. MaxWrites, crashes : 0 .. MaxCrashes,
                      faults : 0 .. MaxFaults, tears : 0 .. MaxTears]
  BY <1>0, BudgetSpent DEF Crash
<1>2. EmptyData \in Data /\ Unlocked \in Lock /\ << >> \in Seq(Task)
  BY DEF EmptyData, Data, Unlocked, Lock
<1>p. /\ \A k \in Key : promised'[k] # Absent =>
           db[k] # Absent /\ db[k].expireAt = Never /\ k \notin InDoubt /\ promised'[k] = db[k]
      /\ promised' \in Data
  <2>1. promised' = [k \in Key |-> IF db[k] = Absent THEN Absent
                                   ELSE IF db[k].expireAt # Never \/ k \in InDoubt
                                     THEN Absent ELSE db[k]]
    BY DEF Crash
  <2>2. \A k \in Key : db[k] \in Entry \cup {Absent}
    BY <1>0 DEF TypeOK, Data
  <2>3. promised' \in Data
    BY <2>1, <2>2 DEF Data
  <2> QED BY <2>1, <2>3
<1>t. temp' \in LogFile /\ backup' \in LogFile
  <2>1. <<TornFrame>> \in Seq(Frame \cup {TornFrame})
    OBVIOUS
  <2> QED BY <1>0, <2>1 DEF IInv, FilesOK, LogFile
<1>f. path' \in LogFile
  BY <1>0, CrashLeaves
<1>3. TypeOK'
  <2>1. path' \in File /\ temp' \in File /\ backup' \in File
    BY <1>t, <1>f, LogFileFacts
  <2>2. pc' \in [Task -> ClientStage \cup RewriteStage] /\ cmd' \in [Task -> Writes \cup {NoCommand}]
    BY <1>0 DEF ClientStage
  <2> QED BY <1>0, <1>1, <1>2, <1>p, <2>1, <2>2 DEF TypeOK
<1>4. \A t \in Task : pc'[t] = "idle"
  BY <1>0
<1>5. StagesOK'
  BY <1>0, <1>4 DEF StagesOK, ClientStage, RewriteStage, Client
<1>6. LocksOK'
  BY <1>0, <1>4 DEF LocksOK, Reading, Rewriting, Engaged, Unlocked, Client
<1>7. FilesOK'
  BY <1>0, <1>4, <1>f, <1>t DEF FilesOK, InWindow, Taken, Written
<1>8. LogCovers' /\ RewriteCovers'
  BY <1>0, <1>4 DEF LogCovers, RewriteCovers, Covers, Pending, Snapped, InWindow, Client
<1>9. PromisesLogged'
  <2>1. SUFFICES ASSUME ~damaged, Readable(path'), NEW time \in Nat, NEW k \in Key,
                        now <= time, promised'[k] # Absent
                 PROVE  Replay(path', time)[k] = promised'[k]
    BY <1>0 DEF PromisesLogged, Readable
  <2> QED BY <1>0, <1>p, <2>1, CrashLeaves
<1> QED BY <1>3, <1>5, <1>6, <1>7, <1>8, <1>9 DEF IInv

\* Replaying at a later moment what was loaded once agrees with what became of it.
LEMMA LoadedCovers ==
  ASSUME NEW file \in LogFile, NEW moment \in Nat, Loadable(file)
  PROVE  /\ Replay(file, moment) \in Data
         /\ \A time \in Nat : moment <= time => FileAgrees(file, Replay(file, moment), time)
<1>1. CASE file = Missing
  <2>1. \A time : Replay(file, time) = EmptyData
    BY <1>1 DEF Replay
  <2>2. EmptyData \in Data /\ \A time : Agrees(EmptyData, EmptyData, time)
    BY DEF EmptyData, Data, Agrees, Matches, Alive
  <2> QED BY <2>1, <2>2, SparesNothing DEF FileAgrees
<1>2. CASE file # Missing
  <2>1. file \in Seq(Frame)
    BY <1>2, LogFileFacts DEF Loadable, Readable
  <2> QED BY <2>1, ReplayType, ReplayLater, SparesLater DEF FileAgrees
<1> QED BY <1>1, <1>2

\* The empty log and the log that does not exist replay to the same store.
LEMMA EmptyLog ==
  /\ << >> \in LogFile /\ << >> # Missing /\ Loadable(<< >>)
  /\ \A time : Replay(<< >>, time) = Replay(Missing, time)
<1>1. << >> \in Seq(Command \cup {TornFrame}) /\ << >> \in LogFile /\ ToSet(<< >>) = {}
  BY DEF LogFile, ToSet
<1> QED BY <1>1, AofAssumption, ReplayEmpty DEF Replay, Loadable

\* Nothing is under way: every task is idle and nobody holds a lock.
LEMMA AllIdle ==
  ASSUME \A t \in Task : pc'[t] = "idle", barrier' = barrier, engine' = engine, LocksOK,
         status = "down" => \A t \in Task : pc[t] = "idle"
  PROVE  StagesOK' /\ LocksOK' /\ ~InWindow' /\ pc'[R] \notin Taken \cup Written \cup Snapped
         /\ \A t \in Client : pc'[t] \notin Pending
<1>1. R \in Task /\ R' = R /\ Client' = Client /\ Client \subseteq Task
  BY AofAssumption DEF R, Client
<1>2. /\ "idle" \notin Reading \cup Rewriting \cup Engaged \cup Taken \cup Written \cup Snapped \cup Pending
      /\ "idle" \in ClientStage /\ "idle" \in RewriteStage
  BY DEF Reading, Rewriting, Engaged, Taken, Written, Snapped, Pending, ClientStage, RewriteStage
<1>3. StagesOK'
  BY <1>1, <1>2 DEF StagesOK
<1>4. LocksOK'
  BY <1>1, <1>2 DEF LocksOK
<1> QED BY <1>1, <1>2, <1>3, <1>4 DEF InWindow

\* A restart loads the log, and from then on the log covers what was loaded.
LEMMA RestartOK ==
  ASSUME IInv, Restart
  PROVE  IInv'
<1>0. /\ TypeOK /\ now \in Nat /\ status = "down" /\ path \in LogFile
      /\ UNCHANGED <<now, temp, backup, locks, pc, cmd, snapshot, budget, ghosts>>
  BY AofAssumption DEF IInv, TypeOK, FilesOK, Restart
<1>1. \A t \in Task : pc[t] = "idle" /\ pc'[t] = "idle"
  BY <1>0 DEF IInv, StagesOK
<1>2. StagesOK' /\ LocksOK' /\ ~InWindow' /\ pc'[R] \notin Taken \cup Written \cup Snapped
      /\ \A t \in Client : pc'[t] \notin Pending
  BY <1>0, <1>1, AllIdle DEF IInv, locks
<1>3. CASE Loadable(path)
  <2>1. /\ status' = "up" /\ db' = Replay(path, now) /\ handle' = "open"
        /\ path' = IF path = Missing THEN << >> ELSE path
    BY <1>3 DEF Restart
  <2>2. /\ path' \in LogFile /\ path' # Missing /\ Loadable(path')
        /\ \A time : Replay(path', time) = Replay(path, time)
    BY <1>0, <1>3, <2>1, EmptyLog
  <2>3. db' \in Data /\ \A time \in Nat : now <= time => FileAgrees(path', db', time)
    BY <1>0, <1>3, <2>1, <2>2, LoadedCovers
  <2>4. TypeOK'
    BY <1>0, <2>1, <2>2, <2>3, LogFileFacts DEF TypeOK, locks, ghosts
  <2>5. FilesOK'
    BY <1>0, <1>2, <2>2 DEF IInv, FilesOK, InWindow, Taken, R
  <2>6. LogCovers'
    BY <1>0, <1>2, <2>3 DEF LogCovers, Covers, AgreesFromNow
  <2>7. RewriteCovers' /\ PromisesLogged'
    BY <1>2, <2>1 DEF RewriteCovers, PromisesLogged, R
  <2> QED BY <1>2, <2>4, <2>5, <2>6, <2>7 DEF IInv
<1>4. CASE ~Loadable(path)
  <2>1. status' = "refused" /\ UNCHANGED <<db, path, handle>>
    BY <1>4 DEF Restart
  <2>2. TypeOK'
    BY <1>0, <2>1 DEF TypeOK, locks, ghosts
  <2>3. FilesOK'
    BY <1>0, <2>1 DEF IInv, FilesOK, InWindow, R
  <2>4. LogCovers'
    BY <1>0, <1>2, <2>1 DEF LogCovers, Covers
  <2>5. RewriteCovers' /\ PromisesLogged'
    BY <1>2, <2>1 DEF RewriteCovers, PromisesLogged, R
  <2> QED BY <1>2, <2>2, <2>3, <2>4, <2>5 DEF IInv
<1> QED BY <1>3, <1>4

-----------------------------------------------------------------------------
(***************************************************************************)
(* The invariant holds, and what follows from it.                          *)
(***************************************************************************)

\* The server starts with an empty store and an empty log.
LEMMA InitOK ==
  ASSUME Init
  PROVE  IInv
<1> USE DEF Init
<1>0. /\ R \in Task /\ Client \subseteq Task /\ \A t \in Task : pc[t] = "idle"
      /\ MaxTime \in Nat /\ MaxWrites \in Nat /\ MaxCrashes \in Nat
      /\ MaxFaults \in Nat /\ MaxTears \in Nat
  BY AofAssumption DEF R, Client
<1>1. EmptyData \in Data /\ Unlocked \in Lock
  <2>1. << >> \in Seq(Task)
    OBVIOUS
  <2> QED BY <2>1 DEF EmptyData, Data, Unlocked, Lock
<1>2. path \in LogFile /\ temp \in LogFile /\ backup \in LogFile /\ path # Missing
  BY EmptyLog DEF LogFile
<1>3. TypeOK
  <2>1. path \in File /\ temp \in File /\ backup \in File
    BY <1>2, LogFileFacts
  <2>2. pc \in [Task -> ClientStage \cup RewriteStage] /\ cmd \in [Task -> Writes \cup {NoCommand}]
    BY DEF ClientStage
  <2>3. budget \in [writes : 0 .. MaxWrites, crashes : 0 .. MaxCrashes,
                    faults : 0 .. MaxFaults, tears : 0 .. MaxTears]
    BY <1>0
  <2>4. now \in 0 .. MaxTime
    BY <1>0
  <2> QED BY <1>1, <2>1, <2>2, <2>3, <2>4 DEF TypeOK
<1>4. StagesOK
  BY <1>0 DEF StagesOK, ClientStage, RewriteStage
<1>5. LocksOK
  BY <1>0 DEF LocksOK, Reading, Rewriting, Engaged, Unlocked
<1>6. FilesOK
  BY <1>0, <1>2 DEF FilesOK, InWindow, Taken, Written
<1>7. LogCovers
  <2>1. \A time \in Nat : 0 <= time => FileAgrees(<< >>, Replay(<< >>, 0), time)
    BY EmptyLog, LoadedCovers
  <2>2. Replay(<< >>, 0) = EmptyData
    BY ReplayEmpty
  <2>3. Covers(path)
    BY <2>1, <2>2 DEF Covers, AgreesFromNow
  <2> QED BY <1>0, <2>3 DEF LogCovers, Pending
<1>8. RewriteCovers /\ PromisesLogged
  BY <1>0 DEF RewriteCovers, PromisesLogged, InWindow, Snapped
<1> QED BY <1>3, <1>4, <1>5, <1>6, <1>7, <1>8 DEF IInv

\* Every step keeps the invariant.
LEMMA NextOK ==
  ASSUME IInv, [Next]_vars
  PROVE  IInv'
<1>1. CASE UNCHANGED vars
  BY <1>1 DEF vars, files, locks, ghosts, IInv, TypeOK, StagesOK, LocksOK, FilesOK, LogCovers,
              RewriteCovers, PromisesLogged, Covers, AgreesFromNow, InWindow, R, Client
<1>2. ASSUME NEW t \in Client, ClientStep(t) PROVE IInv'
  BY <1>2, ReadBarrierOK, LockEngineOK, AppendFrameOK, SyncOK, ExecuteOK, PanicOK, RespondOK
     DEF ClientStep, Client
<1>3. ASSUME NEW t \in Client, NEW c \in Writes, Send(t, c) PROVE IInv'
  BY <1>3, SendOK
<1>4. ASSUME RewriteStep PROVE IInv'
  <2>1. R \in Task
    BY AofAssumption DEF R
  <2> QED BY <1>4, <2>1, CheckSizeOK, WriteBarrierOK, TakeSnapshotOK, LockEngineOK, WriteTempOK,
             FlushAndTakeOK, RemoveOldBackupOK, RenameToBackupOK, PromoteOK, RestoreBackupOK,
             RemoveBackupOK, ReopenOK
          DEF RewriteStep
<1> QED BY <1>1, <1>2, <1>3, <1>4, StartRewriteOK, SweepOK, TickOK, CrashOK, RestartOK DEF Next

\* Log, snapshot, backup and promises stay in step with the store in every
\* reachable state: append before execute, the rewrite_barrier and the renames
\* of replace_aof_file are enough for it.
THEOREM Invariance == SafeSpec => []IInv
<1>1. Init => IInv
  BY InitOK
<1>2. IInv /\ [Next]_vars => IInv'
  BY NextOK
<1> QED BY <1>1, <1>2, PTL DEF SafeSpec

\* The variables of AofEngine, the tasks and the store keep their types.
THEOREM TypeCorrect == SafeSpec => []TypeOK
<1>1. IInv => TypeOK
  BY DEF IInv
<1> QED BY <1>1, Invariance, PTL

\* What agrees from now on holds nothing the store does not have, and misses only
\* what had a deadline and has lapsed.
LEMMA CoveredFile ==
  ASSUME TypeOK, NEW file \in LogFile, file # Missing, status = "up", Sound(file), Covers(file)
  PROVE  NothingResurrected(file) /\ NothingLost(file)
<1>0. now \in Nat /\ db \in Data
  BY AofAssumption DEF TypeOK
<1>1. Readable(file) /\ file \in Seq(Frame)
  BY LogFileFacts DEF Sound, Loadable, Readable
<1> DEFINE l == Replay(file, now)
<1>2. l \in Data
  BY <1>0, <1>1, ReplayType
<1>3. Agrees(l, db, now) /\ Spares(file, db, now)
  BY <1>0, <1>1 DEF Covers, AgreesFromNow, FileAgrees, Sound
<1>4. /\ \A k \in Key : LiveView(l, now)[k] = IF Alive(l[k], now) THEN l[k] ELSE Absent
      /\ \A k \in Key : LiveView(db, now)[k] = IF Alive(db[k], now) THEN db[k] ELSE Absent
  BY <1>0, <1>2, EntryFacts
<1>5. \A k \in Key : Matches(l[k], db[k], now)
  BY <1>3 DEF Agrees
<1>6. \A k \in Key : Excused(l[k], db[k], Lapsed(file, k, now), now)
  BY <1>3 DEF Spares
<1> HIDE DEF l
<1>7. ASSUME NEW k \in Key, LiveView(l, now)[k] # Absent
      PROVE  LET r == LiveView(l, now)[k]
                 e == LiveView(db, now)[k]
             IN  /\ e # Absent /\ e.value = r.value
                 /\ (e.expireAt = Never) = (r.expireAt = Never)
                 /\ r.expireAt # Never => r.expireAt <= e.expireAt
  <2>1. Alive(l[k], now) /\ LiveView(l, now)[k] = l[k] /\ Matches(l[k], db[k], now)
    BY <1>4, <1>5, <1>7
  <2>2. LiveView(db, now)[k] = db[k] /\ db[k] # Absent
    BY <1>4, <2>1 DEF Matches, Alive
  <2>3. /\ db[k].value = l[k].value
        /\ db[k].expireAt = Never <=> l[k].expireAt = Never
        /\ l[k].expireAt # Never => l[k].expireAt <= db[k].expireAt
    BY <2>1 DEF Matches
  <2> QED BY <2>1, <2>2, <2>3
<1>8. ASSUME NEW k \in Key, LiveView(db, now)[k] # Absent, LiveView(l, now)[k] = Absent
      PROVE  LiveView(db, now)[k].expireAt # Never /\ Lapsed(file, k, now)
  <2>1. db[k] # Absent /\ LiveView(db, now)[k] = db[k] /\ ~Alive(l[k], now)
    BY <1>4, <1>8 DEF Alive
  <2>2. db[k].expireAt # Never
    <3> SUFFICES ASSUME db[k].expireAt = Never PROVE FALSE
      OBVIOUS
    <3>1. l[k] = db[k]
      BY <1>5, <2>1 DEF Matches
    <3> QED BY <2>1, <3>1 DEF Alive
  <2> QED BY <1>6, <2>1, <2>2 DEF Excused
<1> QED BY <1>7, <1>8 DEF NothingResurrected, NothingLost, l

\* Outside the window a log that no refused or panicked write has damaged and the
\* store agree (while a write is between log and store, all of the log but its frame),
\* whatever the interleaving of writers, rewrites, sweeps and crashes before: the log
\* brings nothing back, and misses of what is alive only what lapsed in it.
THEOREM LogAgrees == SafeSpec => []LogMatchesStore
<1>1. IInv => LogMatchesStore
  <2>1. SUFFICES ASSUME IInv, status = "up", Sound(path), path # Missing
                 PROVE  NothingResurrected(Executed) /\ NothingLost(Executed)
    BY DEF LogMatchesStore
  <2>2. TypeOK /\ path \in LogFile
    BY <2>1 DEF IInv, FilesOK
  <2>3. CASE Quiet
    <3>1. Covers(path) /\ Executed = path
      BY <2>1, <2>3 DEF IInv, LogCovers, Quiet, Pending, Executed
    <3> QED BY <2>1, <2>2, <3>1, CoveredFile
  <2>4. CASE ~Quiet
    <3>1. PICK t \in Client : pc[t] \in Pending
      BY <2>4 DEF Quiet, Pending
    <3>2. PICK base \in Seq(Frame \cup {TornFrame}), then \in 0 .. now :
            path = Append(base, Logged(cmd[t], then)) /\ Covers(base)
      BY <2>1, <3>1 DEF IInv, LogCovers
    <3>3. Logged(cmd[t], then) \in Frame
      <4>1. now \in Nat /\ cmd[t] \in Command /\ cmd[t].op \in WriteOp
        BY <2>1, <3>1, AofAssumption, Alone DEF Pending, TypeOK, IInv
      <4> QED BY <4>1, LoggedFacts
    <3>4. Executed = base /\ base \in LogFile
      BY <2>4, <3>2, <3>3, AppendFacts DEF Executed, LogFile
    <3>5. Readable(base)
      <4>1. Readable(path)
        BY <2>1 DEF Sound, Loadable, Readable
      <4> QED BY <3>2, <3>3, <4>1, AppendFacts
    <3>6. Sound(base) /\ base # Missing
      BY <2>1, <3>5 DEF Sound, Loadable, Readable
    <3> QED BY <2>1, <2>2, <3>2, <3>4, <3>6, CoveredFile
  <2> QED BY <2>3, <2>4
<1> QED BY <1>1, Invariance, PTL

\* Between the two renames the backup is a complete log.
THEOREM BackupCovers == SafeSpec => []BackupCoversWindow
<1>1. IInv => BackupCoversWindow
  <2>1. SUFFICES ASSUME IInv, status = "up", InWindow, Sound(backup)
                 PROVE  NothingResurrected(backup) /\ NothingLost(backup)
    BY DEF BackupCoversWindow
  <2>2. Covers(backup) /\ backup \in LogFile /\ backup # Missing /\ TypeOK
    BY <2>1 DEF IInv, RewriteCovers, FilesOK
  <2> QED BY <2>1, <2>2, CoveredFile
<1> QED BY <1>1, Invariance, PTL

\* A restart on an intact log has every permanent entry that was acknowledged
\* before the crash, wherever the crash hit the writers and the rewrite.
THEOREM PromisesKept == SafeSpec => RestartFromLogKeepsPromises
<1>1. IInv /\ [Next]_vars =>
        [status = "down" /\ status' = "up" /\ path # Missing /\ ~damaged =>
           \A k \in Key : promised[k] # Absent => db'[k] = promised[k]]_vars
  <2>1. SUFFICES ASSUME IInv, Next, status = "down", status' = "up", path # Missing, ~damaged,
                        NEW k \in Key, promised[k] # Absent
                 PROVE  db'[k] = promised[k]
    OBVIOUS
  <2>2. \A t \in Task : pc[t] = "idle"
    BY <2>1 DEF IInv, StagesOK
  <2>3. Restart
    BY <2>1, <2>2, AofAssumption DEF Next, ClientStep, RewriteStep, Send, ReadBarrier, LockEngine,
       AppendFrame, Sync, Execute, Panic, Respond, StartRewrite, CheckSize, WriteBarrier,
       TakeSnapshot, WriteTemp, FlushAndTake, RemoveOldBackup, RenameToBackup, Promote,
       RestoreBackup, RemoveBackup, Reopen, Sweep, Tick, Crash, Client, R
  <2>4. Loadable(path) /\ db' = Replay(path, now)
    BY <2>1, <2>3 DEF Restart
  <2>5. now \in Nat
    BY <2>1, AofAssumption DEF IInv, TypeOK
  <2> QED BY <2>1, <2>4, <2>5 DEF IInv, PromisesLogged, Loadable, Readable
<1> QED BY <1>1, Invariance, PTL DEF SafeSpec, RestartFromLogKeepsPromises
=============================================================================
