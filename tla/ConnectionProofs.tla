--------------------------- MODULE ConnectionProofs ---------------------------
(***************************************************************************)
(* A connection cuts the stream into the requests that were sent, however  *)
(* the bytes arrive, waits for the next one only while it is not whole,    *)
(* ends for the cause it reports, and the client reads one reply for each  *)
(* request taken: for every set of requests, every limit on their size and *)
(* every size of the reads.                                                *)
(***************************************************************************)
EXTENDS Connection, RespProofs

-----------------------------------------------------------------------------
(***************************************************************************)
(* What the parser makes of the stream.                                    *)
(***************************************************************************)

\* What a client may send.
Pieces == Requests \cup Malformed

\* What is sent is bytes, a request is one frame, and what is malformed none.
LEMMA PieceFacts ==
  /\ Pieces \subseteq Bytes
  /\ \A r \in Requests : ParseResp(r).status = "ok" /\ ParseResp(r).next = Len(r) + 1
  /\ \A m \in Malformed : ParseResp(m) = Invalid
  /\ \A r \in Pieces : ParseResp(r) # Incomplete
<1>1. Pieces \subseteq Bytes
  BY ConnectionAssumption DEF Pieces, Bytes
<1>2. \A r \in Requests : ParseResp(r).status = "ok" /\ ParseResp(r).next = Len(r) + 1
  BY ConnectionAssumption
<1>3. \A m \in Malformed : ParseResp(m) = Invalid
  BY ConnectionAssumption
<1>4. \A r \in Pieces : ParseResp(r) # Incomplete
  BY <1>2, <1>3, Results DEF Pieces
<1> QED BY <1>1, <1>2, <1>3, <1>4

\* A result is Incomplete, Invalid or a value cut off what has arrived.
LEMMA ThreeResults ==
  ASSUME NEW b \in Bytes
  PROVE  \/ ParseResp(b) = Incomplete
         \/ ParseResp(b) = Invalid
         \/ /\ ParseResp(b).status = "ok" /\ ParseResp(b).next \in 2 .. Len(b) + 1
            /\ ParseResp(b) # Incomplete /\ ParseResp(b) # Invalid
<1>1. ResultIn(ParseResp(b), 2 .. Len(b) + 1)
  BY ParseBounded
<1> DEFINE r == ParseResp(b)
<1> HIDE DEF r
<1>2. CASE \E n \in 2 .. Len(b) + 1 : \E a : r = Parsed(a, n)
  <2>1. PICK n \in 2 .. Len(b) + 1 : \E a : r = Parsed(a, n)
    BY <1>2
  <2>2. PICK a : r = Parsed(a, n)
    BY <2>1
  <2>3. r.status = "ok" /\ r.next = n /\ r # Incomplete /\ r # Invalid
    BY <2>2, Results
  <2> QED BY <2>3 DEF r
<1> QED BY <1>1, <1>2 DEF ResultIn, r

\* b is the beginning of r, not all of it.
Beginning(b, r) == Len(b) < Len(r) /\ b = SubSeq(r, 1, Len(b))

\* The frame that is parsed from b is r.
FrameIs(b, r) ==
  ParseResp(b).next - 1 = Len(r) /\ Len(r) <= Len(b) /\ SubSeq(b, 1, Len(r)) = r

\* What the buffer says when a piece comes next: a part of it, the request, or
\* that it is malformed.
LEMMA PieceNext ==
  ASSUME NEW b \in Bytes, NEW u \in Bytes, NEW r \in Pieces, NEW y \in Bytes, b \o u = r \o y
  PROVE  /\ ParseResp(b) = Incomplete => Beginning(b, r)
         /\ ParseResp(b) = Invalid => r \in Malformed
         /\ ParseResp(b).status = "ok" => FrameIs(b, r)
<1>1. r \in Bytes /\ ParseResp(r) # Incomplete /\ Len(b) \in Nat /\ Len(r) \in Nat
  BY PieceFacts, Joined
<1>2. ParseResp(r \o y) = ParseResp(r)
  BY <1>1, ParseKept
<1>3. ParseResp(b) # Incomplete => ParseResp(r) = ParseResp(b)
  BY <1>2, ParseKept
<1>4. Len(r) <= Len(b) => r = SubSeq(b, 1, Len(r)) /\ ParseResp(b) = ParseResp(r)
  <2> SUFFICES ASSUME Len(r) <= Len(b)
               PROVE  r = SubSeq(b, 1, Len(r)) /\ ParseResp(b) = ParseResp(r)
    OBVIOUS
  <2>1. r \o y = b \o u
    OBVIOUS
  <2>2. r = SubSeq(b, 1, Len(r)) /\ Begins(r, b)
    BY <1>1, <2>1, BeginningsNest
  <2>3. PICK e \in Bytes : b = r \o e
    BY <2>2 DEF Begins
  <2>4. ParseResp(r \o e) = ParseResp(r)
    BY <1>1, ParseKept
  <2> QED BY <2>2, <2>3, <2>4
<1>5. ASSUME ParseResp(b) = Incomplete PROVE Beginning(b, r)
  <2>1. Len(b) < Len(r) /\ Len(b) <= Len(r)
    BY <1>1, <1>4, <1>5
  <2>2. b = SubSeq(r, 1, Len(b))
    BY <1>1, <2>1, BeginningsNest
  <2> QED BY <2>1, <2>2 DEF Beginning
<1>6. ASSUME ParseResp(b) = Invalid PROVE r \in Malformed
  <2>1. ParseResp(r) = Invalid /\ ParseResp(r).status # "ok"
    BY <1>3, <1>6, Results
  <2> QED BY <2>1, PieceFacts DEF Pieces
<1>7. ASSUME ParseResp(b).status = "ok" PROVE FrameIs(b, r)
  <2>1. ParseResp(b) # Incomplete /\ ParseResp(b) # Invalid
    BY <1>7, Results
  <2>2. r \in Requests
    BY <1>3, <2>1, PieceFacts DEF Pieces
  <2>3. ParseResp(b).next = Len(r) + 1
    BY <1>3, <2>1, <2>2, PieceFacts
  <2>4. ParseResp(b).next \in 2 .. Len(b) + 1
    BY <2>1, ThreeResults
  <2>5. Len(r) <= Len(b) /\ ParseResp(b).next - 1 = Len(r)
    BY <1>1, <2>3, <2>4
  <2> QED BY <1>4, <2>5 DEF FrameIs
<1> QED BY <1>5, <1>6, <1>7

\* Nothing, or the beginning of a request, but not all of it.
PartOfOne(p) == p = << >> \/ \E r \in Requests : \E n \in 1 .. Len(r) - 1 : p = SubSeq(r, 1, n)

\* It is no frame, and no part of it is.
LEMMA PartNext ==
  ASSUME NEW b \in Bytes, NEW u \in Bytes, PartOfOne(b \o u)
  PROVE  ParseResp(b) = Incomplete
<1>1. CASE b \o u = << >>
  <2>1. b = << >>
    BY <1>1, Joined DEF Bytes
  <2> QED BY <2>1, NothingYet
<1>2. CASE \E r \in Requests : \E n \in 1 .. Len(r) - 1 : b \o u = SubSeq(r, 1, n)
  <2>1. PICK r \in Requests : \E n \in 1 .. Len(r) - 1 : b \o u = SubSeq(r, 1, n)
    BY <1>2
  <2>2. PICK n \in 1 .. Len(r) - 1 : b \o u = SubSeq(r, 1, n)
    BY <2>1
  <2>3. r \in Pieces /\ r \in Bytes /\ Len(r) \in Nat
    BY PieceFacts, Joined DEF Pieces
  <2>4. n \in 0 .. Len(r)
    BY <2>3
  <2> DEFINE rest == SubSeq(r, n + 1, Len(r))
  <2>5. rest \in Bytes /\ (b \o u) \o rest = r /\ Len(b \o u) = n
    <3>1. /\ rest \in Bytes /\ SubSeq(r, 1, n) \o rest = r
          /\ Len(SubSeq(r, 1, n)) = n
      BY <2>3, <2>4, CutAnywhere
    <3> HIDE DEF rest
    <3> QED BY <2>2, <3>1
  <2> HIDE DEF rest
  <2>6. b \o (u \o rest) = r \o << >> /\ u \o rest \in Bytes /\ << >> \in Bytes
    <3>1. (b \o u) \o rest = b \o (u \o rest)
      BY <2>5, JoinedThree
    <3>2. u \o rest \in Bytes /\ r \o << >> = r /\ << >> \in Bytes
      BY <2>3, <2>5, Joined
    <3> QED BY <2>5, <3>1, <3>2
  <2>7. Len(b) < Len(r) /\ Len(b) \in Nat
    <3>1. Len(b \o u) = Len(b) + Len(u) /\ Len(b) \in Nat /\ Len(u) \in Nat
      BY Joined
    <3> QED BY <2>3, <2>5, <3>1
  <2>8. ParseResp(b).status # "ok"
    <3> SUFFICES ASSUME ParseResp(b).status = "ok" PROVE FALSE
      OBVIOUS
    <3>1. Len(r) <= Len(b)
      BY <2>3, <2>6, PieceNext DEF FrameIs
    <3> QED BY <2>3, <2>7, <3>1
  <2>9. ParseResp(b) # Invalid
    <3> SUFFICES ASSUME ParseResp(b) = Invalid PROVE FALSE
      OBVIOUS
    <3>1. r \in Malformed
      BY <2>3, <2>6, PieceNext
    <3>2. ParseResp(r) = Invalid /\ ParseResp(r).status = "ok"
      BY <3>1, PieceFacts
    <3> QED BY <3>2, Results
  <2> QED BY <2>8, <2>9, ThreeResults
<1> QED BY <1>1, <1>2 DEF PartOfOne


-----------------------------------------------------------------------------
(***************************************************************************)
(* The invariant: the frames taken, what is in the buffer and what can     *)
(* still be read are what was sent.                                        *)
(***************************************************************************)

\* What the variables of the stream hold.
StreamTyped ==
  /\ sent \in Seq(Pieces) /\ handled \in Seq(Bytes)
  /\ wire \in Bytes /\ buffer \in Bytes /\ part \in Bytes
  /\ PartOfOne(part) /\ (peer = "open" => part = << >>)

\* The frames taken are the first that were sent.
TakenInOrder == Len(handled) <= Len(sent) /\ handled = SubSeq(sent, 1, Len(handled))

\* The bytes behind the buffer, unread: those on the wire, unless the stream broke.
Behind(unread) ==
  /\ FlattenSeq(handled) \o (buffer \o unread) = FlattenSeq(sent) \o part
  /\ peer # "reset" => unread = wire

NothingLost == \E unread \in Bytes : Behind(unread)

\* The task reads on only when the buffer holds no frame.
ReadsForMore == pc = "read" => ParseResp(buffer) = Incomplete

Inv == TypeOK /\ StreamTyped /\ TakenInOrder /\ NothingLost /\ ReadsForMore /\ EndsForCause

\* The stream behind the frames taken begins with the next piece, or is a part of one.
ComesNext(unread) ==
  /\ peer # "reset" => unread = wire
  /\ Len(handled) < Len(sent) =>
       sent[Len(handled) + 1] \in Pieces /\ Begins(sent[Len(handled) + 1], buffer \o unread)
  /\ ~(Len(handled) < Len(sent)) => handled = sent /\ buffer \o unread = part

\* The lengths, and the stream as bytes.
LEMMA StreamFacts ==
  ASSUME StreamTyped, TakenInOrder
  PROVE  /\ Len(sent) \in Nat /\ Len(handled) \in Nat /\ Len(buffer) \in Nat /\ Len(wire) \in Nat
         /\ sent \in Seq(Bytes)
         /\ FlattenSeq(sent) \in Bytes /\ FlattenSeq(handled) \in Bytes
<1>1. Len(sent) \in Nat /\ Len(handled) \in Nat /\ Len(buffer) \in Nat /\ Len(wire) \in Nat
  BY DEF StreamTyped, Bytes
<1>2. sent \in Seq(Bytes) /\ handled \in Seq(Bytes) /\ << >> \in Bytes
  BY PieceFacts, SeqMonotonic DEF StreamTyped, Bytes
<1>3. FlattenSeq(sent) \in Bytes /\ FlattenSeq(handled) \in Bytes
  BY <1>2, OneMorePiece
<1> QED BY <1>1, <1>2, <1>3

\* Nothing is lost, so what comes next is next.
LEMMA NextUp ==
  ASSUME StreamTyped, TakenInOrder, NothingLost
  PROVE  \E unread \in Bytes : ComesNext(unread)
<1>1. PICK unread \in Bytes : Behind(unread)
  BY DEF NothingLost
<1>2. /\ Len(sent) \in Nat /\ Len(handled) \in Nat /\ sent \in Seq(Bytes)
      /\ FlattenSeq(sent) \in Bytes /\ FlattenSeq(handled) \in Bytes
      /\ buffer \in Bytes /\ part \in Bytes /\ buffer \o unread \in Bytes
  BY StreamFacts, Joined DEF StreamTyped
<1> DEFINE n == Len(handled)
           next == sent[n + 1]
<1>3. ASSUME n < Len(sent) PROVE next \in Pieces /\ Begins(next, buffer \o unread)
  <2>1. n \in 0 .. Len(sent) /\ n + 1 \in 1 .. Len(sent)
    BY <1>2, <1>3
  <2>2. next \in Pieces /\ next \in Bytes
    BY <2>1, PieceFacts, ElementOfSeq DEF StreamTyped
  <2>3. PICK y \in Bytes : FlattenSeq(sent) = FlattenSeq(SubSeq(sent, 1, n)) \o (next \o y)
    BY <1>2, <1>3, <2>1, NextPiece
  <2>4. SubSeq(sent, 1, n) = handled
    BY DEF TakenInOrder
  <2> HIDE DEF next
  <2>5. next \o y \in Bytes /\ (next \o y) \o part \in Bytes /\ y \o part \in Bytes
    BY <1>2, <2>2, Joined
  <2>6. FlattenSeq(sent) \o part = FlattenSeq(handled) \o ((next \o y) \o part)
    <3>1. (FlattenSeq(handled) \o (next \o y)) \o part = FlattenSeq(handled) \o ((next \o y) \o part)
      <4>1. FlattenSeq(handled) \in Bytes /\ next \o y \in Bytes /\ part \in Bytes
        BY <1>2, <2>5
      <4> QED BY <4>1, JoinedThree
    <3> QED BY <2>3, <2>4, <3>1
  <2>7. buffer \o unread = (next \o y) \o part
    <3>1. FlattenSeq(handled) \o (buffer \o unread) = FlattenSeq(handled) \o ((next \o y) \o part)
      BY <1>1, <2>6 DEF Behind
    <3> QED BY <1>2, <2>5, <3>1, JoinCancelled
  <2>8. (next \o y) \o part = next \o (y \o part)
    <3>1. part \in Bytes
      BY <1>2
    <3> QED BY <2>2, <3>1, JoinedThree
  <2> QED BY <2>2, <2>5, <2>7, <2>8 DEF Begins
<1>4. ASSUME ~(n < Len(sent)) PROVE handled = sent /\ buffer \o unread = part
  <2>1. n = Len(sent)
    BY <1>2, <1>4 DEF TakenInOrder
  <2>2. handled = sent
    BY <1>2, <2>1, SubSeqFull DEF TakenInOrder
  <2>3. FlattenSeq(handled) \o (buffer \o unread) = FlattenSeq(handled) \o part
    BY <1>1, <2>2 DEF Behind
  <2>4. buffer \o unread = part
    BY <1>2, <2>3, JoinCancelled
  <2> QED BY <2>2, <2>4
<1>5. ComesNext(unread)
  BY <1>1, <1>3, <1>4 DEF ComesNext, Behind
<1> QED BY <1>5

\* Each frame taken is the next request.
LEMMA TakesNext ==
  ASSUME StreamTyped, TakenInOrder, NothingLost, ParseResp(buffer).status = "ok"
  PROVE  /\ Len(handled) < Len(sent)
         /\ ParseResp(buffer).next - 1 \in 1 .. Len(buffer)
         /\ SubSeq(buffer, 1, ParseResp(buffer).next - 1) = sent[Len(handled) + 1]
<1>1. PICK unread \in Bytes : ComesNext(unread)
  BY NextUp
<1>2. buffer \in Bytes /\ Len(buffer) \in Nat
  BY StreamFacts DEF StreamTyped
<1>3. ParseResp(buffer) # Incomplete /\ ParseResp(buffer) # Invalid /\ ParseResp(buffer).next \in 2 .. Len(buffer) + 1
  BY <1>2, ThreeResults, Results
<1>4. Len(handled) < Len(sent)
  <2> SUFFICES ASSUME ~(Len(handled) < Len(sent)) PROVE FALSE
    OBVIOUS
  <2>1. PartOfOne(buffer \o unread)
    BY <1>1 DEF ComesNext, StreamTyped
  <2> QED BY <1>2, <1>3, <2>1, PartNext
<1> DEFINE next == sent[Len(handled) + 1]
<1>5. next \in Pieces /\ Begins(next, buffer \o unread)
  BY <1>1, <1>4 DEF ComesNext
<1>6. ParseResp(buffer).next - 1 = Len(next) /\ SubSeq(buffer, 1, Len(next)) = next
  <2> HIDE DEF next
  <2>1. PICK y \in Bytes : buffer \o unread = next \o y
    BY <1>5 DEF Begins
  <2>2. FrameIs(buffer, next)
    BY <1>2, <1>5, <2>1, PieceNext
  <2> QED BY <2>2 DEF FrameIs
<1>7. ParseResp(buffer).next - 1 \in 1 .. Len(buffer)
  BY <1>2, <1>3
<1> QED BY <1>4, <1>6, <1>7

\* A protocol error is the next piece's own.
LEMMA RefusesNext ==
  ASSUME StreamTyped, TakenInOrder, NothingLost, ParseResp(buffer) = Invalid
  PROVE  Len(handled) < Len(sent) /\ sent[Len(handled) + 1] \in Malformed
<1>1. PICK unread \in Bytes : ComesNext(unread)
  BY NextUp
<1>2. buffer \in Bytes
  BY DEF StreamTyped
<1>3. Len(handled) < Len(sent)
  <2> SUFFICES ASSUME ~(Len(handled) < Len(sent)) PROVE FALSE
    OBVIOUS
  <2>1. PartOfOne(buffer \o unread)
    BY <1>1 DEF ComesNext, StreamTyped
  <2>2. ParseResp(buffer) = Incomplete
    BY <1>2, <2>1, PartNext
  <2> QED BY <2>2, Results
<1> DEFINE next == sent[Len(handled) + 1]
<1>4. next \in Pieces /\ Begins(next, buffer \o unread)
  BY <1>1, <1>3 DEF ComesNext
<1>5. next \in Malformed
  <2> HIDE DEF next
  <2>1. PICK y \in Bytes : buffer \o unread = next \o y
    BY <1>4 DEF Begins
  <2> QED BY <1>2, <1>4, <2>1, PieceNext
<1> QED BY <1>3, <1>5

\* While more is awaited, what is in the buffer is part of the next piece.
LEMMA AwaitsNext ==
  ASSUME StreamTyped, TakenInOrder, NothingLost, ParseResp(buffer) = Incomplete
  PROVE  /\ Len(handled) < Len(sent) =>
              /\ Len(buffer) < Len(sent[Len(handled) + 1])
              /\ buffer = SubSeq(sent[Len(handled) + 1], 1, Len(buffer))
         /\ ~(Len(handled) < Len(sent)) =>
              /\ handled = sent /\ Len(buffer) <= Len(part) /\ buffer = SubSeq(part, 1, Len(buffer))
              /\ peer # "reset" /\ wire = << >> => buffer = part
         /\ Len(handled) < Len(sent) => ~(peer # "reset" /\ wire = << >>)
<1>1. PICK unread \in Bytes : ComesNext(unread)
  BY NextUp
<1>2. buffer \in Bytes /\ part \in Bytes /\ buffer \o << >> = buffer /\ part \o << >> = part /\ << >> \in Bytes
      /\ Len(buffer) \in Nat
  BY Joined DEF StreamTyped
<1> DEFINE next == sent[Len(handled) + 1]
<1>3. ASSUME Len(handled) < Len(sent)
      PROVE  /\ Len(buffer) < Len(next) /\ buffer = SubSeq(next, 1, Len(buffer))
             /\ ~(peer # "reset" /\ wire = << >>)
  <2>1. next \in Pieces /\ Begins(next, buffer \o unread)
    BY <1>1, <1>3 DEF ComesNext
  <2> HIDE DEF next
  <2>2. PICK y \in Bytes : buffer \o unread = next \o y
    BY <2>1 DEF Begins
  <2>3. Len(buffer) < Len(next) /\ buffer = SubSeq(next, 1, Len(buffer))
    <3>1. Beginning(buffer, next)
      BY <1>2, <2>1, <2>2, PieceNext
    <3> QED BY <3>1 DEF Beginning
  <2>4. ASSUME unread = << >> PROVE FALSE
    <3>1. Len(next \o y) = Len(next) + Len(y) /\ Len(next) \in Nat /\ Len(y) \in Nat
      BY <2>1, PieceFacts, Joined
    <3>2. next \o y = buffer
      BY <1>2, <2>2, <2>4
    <3> QED BY <1>2, <2>3, <3>1, <3>2
  <2> QED BY <1>1, <2>3, <2>4 DEF ComesNext
<1>4. ASSUME ~(Len(handled) < Len(sent))
      PROVE  /\ handled = sent /\ Len(buffer) <= Len(part) /\ buffer = SubSeq(part, 1, Len(buffer))
             /\ peer # "reset" /\ wire = << >> => buffer = part
  <2>1. handled = sent /\ buffer \o unread = part \o << >>
    BY <1>1, <1>2, <1>4 DEF ComesNext
  <2>2. Len(buffer) <= Len(part)
    <3>1. Len(buffer \o unread) = Len(buffer) + Len(unread) /\ Len(unread) \in Nat
      BY <1>2, Joined
    <3> QED BY <1>2, <2>1, <3>1
  <2>3. buffer = SubSeq(part, 1, Len(buffer))
    <3> HIDE DEF next
    <3>1. /\ buffer \in Bytes /\ part \in Bytes /\ << >> \in Bytes
          /\ buffer \o unread = part \o << >>
      BY <1>2, <2>1
    <3> QED BY <2>2, <3>1, BeginningsNest
  <2>4. peer # "reset" /\ wire = << >> => buffer = part
    BY <1>1, <1>2, <2>1 DEF ComesNext
  <2> QED BY <2>1, <2>2, <2>3, <2>4
<1> QED BY <1>3, <1>4


\* What is in the buffer is part of what is outstanding.
LEMMA BufferOutstanding ==
  StreamTyped /\ TakenInOrder /\ NothingLost => Outstanding \in Nat /\ Len(buffer) <= Outstanding
<1> SUFFICES ASSUME StreamTyped, TakenInOrder, NothingLost
             PROVE  Outstanding \in Nat /\ Len(buffer) <= Outstanding
  OBVIOUS
<1>1. PICK unread \in Bytes : Behind(unread)
  BY DEF NothingLost
<1>2. PICK taken \in Bytes, whole \in Bytes : taken = FlattenSeq(handled) /\ whole = FlattenSeq(sent)
  BY StreamFacts
<1>3. taken \o (buffer \o unread) = whole \o part
  BY <1>1, <1>2 DEF Behind
<1>4. buffer \in Bytes /\ part \in Bytes
  BY DEF StreamTyped
<1>5. buffer \o unread \in Bytes /\ Len(buffer \o unread) = Len(buffer) + Len(unread)
  BY <1>4, Joined
<1>6. Len(taken \o (buffer \o unread)) = Len(taken) + Len(buffer \o unread)
  BY <1>5, Joined
<1>7. Len(taken) \in Nat /\ Len(buffer) \in Nat /\ Len(unread) \in Nat
  BY <1>4, Joined
<1>8. Outstanding = Len(taken) + (Len(buffer) + Len(unread)) - Len(taken)
  BY <1>2, <1>3, <1>5, <1>6 DEF Outstanding
<1> QED BY <1>7, <1>8

-----------------------------------------------------------------------------
(***************************************************************************)
(* The invariant is one.                                                   *)
(***************************************************************************)

LEMMA InvInit == Init => Inv
<1> SUFFICES ASSUME Init PROVE Inv
  OBVIOUS
<1>1. /\ << >> \in Bytes /\ Len(<< >>) = 0 /\ << >> \o << >> = << >>
      /\ << >> \in Seq(Pieces) /\ << >> \in Seq(Bytes) /\ SubSeq(<< >>, 1, 0) = << >>
  BY Joined DEF Bytes
<1>2. TypeOK
  <2>1. 0 <= MaxFrameSize
    BY ConnectionAssumption
  <2> QED BY <1>1, <2>1 DEF Init, TypeOK
<1>3. StreamTyped /\ TakenInOrder
  BY <1>1 DEF Init, StreamTyped, TakenInOrder, PartOfOne
<1>4. NothingLost
  <2>1. FlattenSeq(<< >>) \in Bytes
    BY <1>1, OneMorePiece
  <2>2. Behind(<< >>)
    BY <1>1 DEF Init, Behind
  <2> QED BY <1>1, <2>2 DEF NothingLost
<1>5. ReadsForMore /\ EndsForCause
  BY DEF Init, ReadsForMore, EndsForCause
<1> QED BY <1>2, <1>3, <1>4, <1>5 DEF Inv

\* What is left in the buffer when a frame is taken, and the frame.
LEMMA FrameTaken ==
  ASSUME Inv, TakeFrame
  PROVE  /\ Len(handled) < Len(sent) /\ frame' = sent[Len(handled) + 1]
         /\ frame' \in Bytes /\ buffer' \in Bytes /\ frame' \o buffer' = buffer
         /\ Len(buffer') <= Len(buffer) /\ handled' = Append(handled, frame')
         /\ UNCHANGED <<sent, part, peer, wire, shutdown, outcome>>
         /\ pc' \in {"log", "execute"} /\ pc # "closed"
<1> DEFINE size == ParseResp(buffer).next - 1
<1>1. /\ frame' = SubSeq(buffer, 1, size) /\ buffer' = SubSeq(buffer, size + 1, Len(buffer))
      /\ handled' = Append(handled, frame') /\ ParseResp(buffer).status = "ok"
      /\ UNCHANGED <<sent, part, peer, wire, shutdown, outcome>>
      /\ pc' \in {"log", "execute"} /\ pc # "closed"
  BY DEF TakeFrame, After, client
<1>2. Len(handled) < Len(sent) /\ size \in 1 .. Len(buffer) /\ SubSeq(buffer, 1, size) = sent[Len(handled) + 1]
  BY <1>1, TakesNext DEF Inv
<1> HIDE DEF size
<1>3. buffer \in Bytes /\ Len(buffer) \in Nat /\ size \in 0 .. Len(buffer)
  BY <1>2, StreamFacts DEF Inv, StreamTyped
<1>4. /\ frame' \in Bytes /\ buffer' \in Bytes /\ frame' \o buffer' = buffer
      /\ Len(buffer') = Len(buffer) - size
  BY <1>1, <1>3, CutAnywhere
<1>5. Len(buffer') <= Len(buffer)
  BY <1>3, <1>4
<1> QED BY <1>1, <1>2, <1>4, <1>5

\* What a read takes off the wire.
LEMMA SomeRead ==
  ASSUME Inv, ReadSome
  PROVE  /\ buffer' \in Bytes /\ wire' \in Bytes /\ buffer' \o wire' = buffer \o wire
         /\ UNCHANGED <<sent, part, handled, peer, shutdown, frame>> /\ pc = "read" /\ peer # "reset"
         /\ \/ pc' = "closed" /\ outcome' = "tooLarge" /\ Len(buffer') > MaxFrameSize
            \/ pc' = "parse" /\ outcome' = outcome /\ ~(Len(buffer') > MaxFrameSize)
<1>1. PICK n \in 1 .. Len(wire) :
        /\ buffer' = buffer \o SubSeq(wire, 1, n)
        /\ wire' = SubSeq(wire, n + 1, Len(wire))
        /\ IF TooLarge(Len(buffer')) THEN Close("tooLarge")
           ELSE pc' = "parse" /\ UNCHANGED outcome
  BY DEF ReadSome
<1>2. buffer \in Bytes /\ wire \in Bytes /\ n \in 0 .. Len(wire)
  BY StreamFacts DEF Inv, StreamTyped
<1>3. /\ SubSeq(wire, 1, n) \in Bytes /\ wire' \in Bytes /\ SubSeq(wire, 1, n) \o wire' = wire
  BY <1>1, <1>2, CutAnywhere
<1>4. buffer' \in Bytes
  BY <1>1, <1>2, <1>3, Joined
<1>5. (buffer \o SubSeq(wire, 1, n)) \o wire' = buffer \o (SubSeq(wire, 1, n) \o wire')
  BY <1>2, <1>3, JoinedThree
<1>6. buffer' \o wire' = buffer \o wire
  BY <1>1, <1>3, <1>5
<1>7. UNCHANGED <<sent, part, handled, peer, shutdown, frame>> /\ pc = "read" /\ peer # "reset"
  BY DEF ReadSome, client, ghosts
<1>8. \/ pc' = "closed" /\ outcome' = "tooLarge" /\ Len(buffer') > MaxFrameSize
      \/ pc' = "parse" /\ outcome' = outcome /\ ~(Len(buffer') > MaxFrameSize)
  BY <1>1 DEF TooLarge, Close
<1> QED BY <1>3, <1>4, <1>6, <1>7, <1>8

LEMMA TypeKept ==
  ASSUME Inv, [Next]_vars
  PROVE  TypeOK'
<1>1. CASE Send \/ CloseStream \/ CutShort \/ Reset \/ Shutdown \/ UNCHANGED vars
  BY <1>1 DEF Inv, TypeOK, Send, CloseStream, CutShort, Reset, Shutdown, vars, client, ghosts
<1>2. CASE TakeFrame
  <2>1. Last(handled') = frame'
    BY <1>2, FrameTaken, AppendProperties DEF Inv, StreamTyped, Last
  <2>2. Len(buffer') <= MaxFrameSize
    <3>1. Len(buffer) <= MaxFrameSize /\ Len(buffer') <= Len(buffer)
      BY <1>2, FrameTaken DEF Inv, TypeOK
    <3>2. Len(buffer) \in Nat /\ Len(buffer') \in Nat /\ MaxFrameSize \in Nat
      BY <1>2, FrameTaken, StreamFacts, ConnectionAssumption DEF Inv, Bytes
    <3> QED BY <3>1, <3>2
  <2> QED BY <1>2, <2>1, <2>2, FrameTaken DEF Inv, TypeOK
<1>3. CASE ReadSome
  <2>1. Len(buffer') \in Nat /\ MaxFrameSize \in Nat
    BY <1>3, SomeRead, ConnectionAssumption DEF Bytes
  <2> QED BY <1>3, <2>1, SomeRead DEF Inv, TypeOK
<1>4. CASE AwaitMore \/ PassLog \/ Execute \/ Respond
  BY <1>4 DEF Inv, TypeOK, AwaitMore, PassLog, Execute, Respond, client, ghosts
<1>5. CASE Refuse \/ ReadEof \/ IoError \/ Stop
  BY <1>5 DEF Inv, TypeOK, Refuse, ReadEof, EndOfStream, IoError, Stop, InSelect, Close, client, ghosts
<1> QED BY <1>1, <1>2, <1>3, <1>4, <1>5 DEF Next, ClientStep, StreamStep, TaskStep

LEMMA StreamKept ==
  ASSUME Inv, [Next]_vars
  PROVE  StreamTyped' /\ TakenInOrder' /\ NothingLost'
<1>0. StreamTyped /\ TakenInOrder /\ NothingLost
  BY DEF Inv
<1>1. PICK unread \in Bytes : Behind(unread)
  BY <1>0 DEF NothingLost
<1>2. /\ Len(sent) \in Nat /\ Len(handled) \in Nat /\ sent \in Seq(Bytes)
      /\ FlattenSeq(sent) \in Bytes /\ FlattenSeq(handled) \in Bytes
      /\ buffer \in Bytes /\ wire \in Bytes /\ part \in Bytes /\ << >> \in Bytes
      /\ sent \in Seq(Pieces) /\ handled \in Seq(Bytes)
  BY <1>0, StreamFacts, Joined DEF StreamTyped
<1>3. CASE UNCHANGED <<sent, part, handled, buffer, wire, peer>>
  <2>1. StreamTyped' /\ TakenInOrder'
    BY <1>0, <1>3 DEF StreamTyped, TakenInOrder
  <2>2. Behind(unread)'
    BY <1>1, <1>3 DEF Behind
  <2> QED BY <2>1, <2>2 DEF NothingLost
<1>4. CASE CloseStream \/ Reset
  <2>1. StreamTyped' /\ TakenInOrder'
    BY <1>0, <1>2, <1>4 DEF StreamTyped, TakenInOrder, CloseStream, Reset, ghosts
  <2>2. Behind(unread)'
    BY <1>1, <1>4 DEF Behind, CloseStream, Reset, ghosts
  <2> QED BY <2>1, <2>2 DEF NothingLost
<1>5. CASE Send
  <2>1. PICK request \in Pieces : sent' = Append(sent, request) /\ wire' = wire \o request
    BY <1>5 DEF Send, Pieces
  <2>2. UNCHANGED <<peer, part, buffer, handled>> /\ peer = "open"
    BY <1>5 DEF Send, ghosts
  <2>3. request \in Bytes /\ part = << >> /\ unread = wire
    BY <1>0, <1>1, <2>2, PieceFacts DEF StreamTyped, Behind
  <2>4. wire' \in Bytes
    BY <1>2, <2>1, <2>3, Joined
  <2>5. sent' \in Seq(Pieces) /\ Len(sent') = Len(sent) + 1
    BY <1>2, <2>1, AppendProperties
  <2>6. StreamTyped'
    BY <1>0, <2>2, <2>4, <2>5 DEF StreamTyped
  <2>7. TakenInOrder'
    <3>1. Len(handled) \in 0 .. Len(sent) /\ handled = SubSeq(sent, 1, Len(handled))
      BY <1>0, <1>2 DEF TakenInOrder
    <3>2. SubSeq(sent', 1, Len(handled)) = SubSeq(sent, 1, Len(handled))
      BY <1>2, <2>1, <3>1
    <3>3. Len(handled) <= Len(sent')
      BY <1>2, <2>5, <3>1
    <3> QED BY <2>2, <3>1, <3>2, <3>3 DEF TakenInOrder
  <2>8. PICK rest \in Bytes : rest = wire \o request
    BY <2>1, <2>4
  <2>9. Behind(rest)'
    <3>1. FlattenSeq(sent') = FlattenSeq(sent) \o request /\ FlattenSeq(sent) \o request \in Bytes
      BY <1>2, <2>1, <2>3, OneMorePiece, Joined
    <3>2. FlattenSeq(handled) \o (buffer \o wire) = FlattenSeq(sent)
      BY <1>1, <1>2, <2>3, Joined DEF Behind
    <3>3. buffer \o (wire \o request) = (buffer \o wire) \o request /\ buffer \o wire \in Bytes
      <4>1. buffer \in Bytes /\ wire \in Bytes
        BY <1>2
      <4>2. (buffer \o wire) \o request = buffer \o (wire \o request)
        BY <2>3, <4>1, JoinedThree
      <4>3. buffer \o wire \in Bytes
        BY <4>1, Joined
      <4> QED BY <4>2, <4>3
    <3>4. (FlattenSeq(handled) \o (buffer \o wire)) \o request
            = FlattenSeq(handled) \o ((buffer \o wire) \o request)
      <4>1. FlattenSeq(handled) \in Bytes
        BY <1>2
      <4> QED BY <2>3, <3>3, <4>1, JoinedThree
    <3>5. FlattenSeq(sent') \o << >> = FlattenSeq(sent')
      BY <3>1, Joined
    <3>6. FlattenSeq(handled) \o (buffer \o (wire \o request)) = FlattenSeq(sent') \o << >>
      BY <3>1, <3>2, <3>3, <3>4, <3>5
    <3> QED BY <2>1, <2>2, <2>3, <2>8, <3>6 DEF Behind
  <2> QED BY <2>6, <2>7, <2>9 DEF NothingLost
<1>6. CASE CutShort
  <2>1. PICK request \in Requests : \E n \in 1 .. Len(request) - 1 :
          part' = SubSeq(request, 1, n) /\ wire' = wire \o part'
    BY <1>6 DEF CutShort
  <2>2. PICK n \in 1 .. Len(request) - 1 : part' = SubSeq(request, 1, n) /\ wire' = wire \o part'
    BY <2>1
  <2>3. UNCHANGED <<sent, buffer, handled>> /\ peer = "open" /\ peer' = "closed"
    BY <1>6 DEF CutShort, ghosts
  <2>4. part = << >> /\ unread = wire
    BY <1>0, <1>1, <2>3 DEF StreamTyped, Behind
  <2>5. request \in Bytes /\ Len(request) \in Nat
    BY PieceFacts, Joined DEF Pieces
  <2>6. part' \in Bytes
    <3>1. n \in 0 .. Len(request)
      BY <2>5
    <3> QED BY <2>2, <2>5, <3>1, CutAnywhere
  <2>7. wire' \in Bytes
    BY <1>2, <2>2, <2>6, Joined
  <2>8. PartOfOne(part')
    BY <2>2 DEF PartOfOne
  <2>9. StreamTyped' /\ TakenInOrder'
    BY <1>0, <2>3, <2>6, <2>7, <2>8 DEF StreamTyped, TakenInOrder, PartOfOne
  <2>10. PICK rest \in Bytes : rest = wire'
    BY <2>7
  <2>11. Behind(rest)'
    <3>1. FlattenSeq(handled) \o (buffer \o wire) = FlattenSeq(sent)
      BY <1>1, <1>2, <2>4, Joined DEF Behind
    <3>2. buffer \o (wire \o part') = (buffer \o wire) \o part' /\ buffer \o wire \in Bytes
      <4>1. buffer \in Bytes /\ wire \in Bytes
        BY <1>2
      <4>2. (buffer \o wire) \o part' = buffer \o (wire \o part')
        BY <2>6, <4>1, JoinedThree
      <4>3. buffer \o wire \in Bytes
        BY <4>1, Joined
      <4> QED BY <4>2, <4>3
    <3>3. (FlattenSeq(handled) \o (buffer \o wire)) \o part'
            = FlattenSeq(handled) \o ((buffer \o wire) \o part')
      <4>1. FlattenSeq(handled) \in Bytes
        BY <1>2
      <4> QED BY <2>6, <3>2, <4>1, JoinedThree
    <3>4. FlattenSeq(handled) \o (buffer \o wire') = FlattenSeq(sent) \o part'
      BY <2>2, <3>1, <3>2, <3>3
    <3> QED BY <2>3, <2>10, <3>4 DEF Behind
  <2> QED BY <2>9, <2>11 DEF NothingLost
<1>7. CASE TakeFrame
  <2>1. /\ Len(handled) < Len(sent) /\ frame' = sent[Len(handled) + 1]
        /\ frame' \in Bytes /\ buffer' \in Bytes /\ frame' \o buffer' = buffer
        /\ handled' = Append(handled, frame') /\ UNCHANGED <<sent, part, peer, wire>>
    BY <1>7, FrameTaken
  <2>2. handled' \in Seq(Bytes) /\ Len(handled') = Len(handled) + 1
    BY <1>2, <2>1, AppendProperties
  <2>3. StreamTyped'
    BY <1>0, <2>1, <2>2 DEF StreamTyped
  <2>4. TakenInOrder'
    <3>1. handled = SubSeq(sent, 1, Len(handled))
      BY <1>0 DEF TakenInOrder
    <3>2. SubSeq(sent, 1, Len(handled) + 1) = Append(SubSeq(sent, 1, Len(handled)), sent[Len(handled) + 1])
      BY <1>2, <2>1
    <3>3. Len(handled') <= Len(sent)
      BY <1>2, <2>1, <2>2
    <3> QED BY <2>1, <2>2, <3>1, <3>2, <3>3 DEF TakenInOrder
  <2>5. Behind(unread)'
    <3>1. FlattenSeq(handled') = FlattenSeq(handled) \o frame'
      BY <1>2, <2>1, OneMorePiece
    <3>2. buffer \o unread = frame' \o (buffer' \o unread) /\ buffer' \o unread \in Bytes
      <4>1. (frame' \o buffer') \o unread = frame' \o (buffer' \o unread)
        BY <2>1, JoinedThree
      <4> QED BY <2>1, <4>1, Joined
    <3>3. (FlattenSeq(handled) \o frame') \o (buffer' \o unread)
            = FlattenSeq(handled) \o (frame' \o (buffer' \o unread))
      <4>1. FlattenSeq(handled) \in Bytes /\ frame' \in Bytes
        BY <1>2, <2>1
      <4> QED BY <3>2, <4>1, JoinedThree
    <3>4. FlattenSeq(handled') \o (buffer' \o unread) = FlattenSeq(sent) \o part
      BY <1>1, <3>1, <3>2, <3>3 DEF Behind
    <3> QED BY <1>1, <2>1, <3>4 DEF Behind
  <2> QED BY <2>3, <2>4, <2>5 DEF NothingLost
<1>8. CASE ReadSome
  <2>1. /\ buffer' \in Bytes /\ wire' \in Bytes /\ buffer' \o wire' = buffer \o wire
        /\ UNCHANGED <<sent, part, handled, peer>> /\ peer # "reset"
    BY <1>8, SomeRead
  <2>2. StreamTyped' /\ TakenInOrder'
    BY <1>0, <2>1 DEF StreamTyped, TakenInOrder
  <2>3. PICK rest \in Bytes : rest = wire'
    BY <2>1
  <2>4. Behind(rest)'
    BY <1>1, <2>1, <2>3 DEF Behind
  <2> QED BY <2>2, <2>4 DEF NothingLost
<1>9. CASE \/ Shutdown \/ AwaitMore \/ Refuse \/ PassLog \/ Execute \/ Respond
           \/ ReadEof \/ IoError \/ Stop \/ UNCHANGED vars
  <2>1. UNCHANGED <<sent, part, handled, buffer, wire, peer>>
    BY <1>9 DEF Shutdown, AwaitMore, Refuse, PassLog, Execute, Respond, ReadEof, IoError, Stop,
                vars, client, ghosts
  <2> QED BY <1>3, <2>1
<1> QED BY <1>4, <1>5, <1>6, <1>7, <1>8, <1>9 DEF Next, ClientStep, StreamStep, TaskStep

LEMMA ReadsKept ==
  ASSUME Inv, [Next]_vars
  PROVE  ReadsForMore'
<1>1. CASE AwaitMore
  BY <1>1 DEF AwaitMore, ReadsForMore
<1>2. CASE TakeFrame \/ PassLog \/ Execute \/ Respond \/ Refuse \/ ReadEof \/ IoError \/ Stop
  BY <1>2 DEF TakeFrame, PassLog, Execute, Respond, Refuse, ReadEof, IoError, Stop, Close, ReadsForMore
<1>3. CASE ReadSome
  BY <1>3, SomeRead DEF ReadsForMore
<1>4. CASE ClientStep \/ Shutdown \/ UNCHANGED vars
  <2>1. UNCHANGED <<pc, buffer>>
    BY <1>4 DEF ClientStep, Send, CloseStream, CutShort, Reset, Shutdown, vars
  <2> QED BY <2>1 DEF Inv, ReadsForMore
<1> QED BY <1>1, <1>2, <1>3, <1>4 DEF Next, StreamStep, TaskStep

LEMMA EndsKept ==
  ASSUME Inv, [Next]_vars
  PROVE  EndsForCause'
<1>0. StreamTyped /\ TakenInOrder /\ NothingLost /\ TypeOK /\ EndsForCause
  BY DEF Inv
<1>1. CASE Refuse
  <2>1. CASE ParseResp(buffer) = Invalid
    <3>1. Len(handled) < Len(sent) /\ sent[Len(handled) + 1] \in Malformed
      BY <1>0, <2>1, RefusesNext
    <3>2. outcome' = "invalid" /\ UNCHANGED <<handled, sent, part>>
      BY <1>1, <2>1 DEF Refuse, Close, client, ghosts
    <3> QED BY <3>1, <3>2 DEF EndsForCause, Upcoming
  <2>2. CASE ParseResp(buffer) # Invalid
    <3>1. outcome' = "tooLarge" /\ UNCHANGED <<handled, sent, part>>
      BY <1>1, <2>2 DEF Refuse, Close, client, ghosts
    <3>2. Len(buffer) > MaxFrameSize
      <4>1. CASE ParseResp(buffer).status = "ok"
        <5>1. ParseResp(buffer).next - 1 > MaxFrameSize
          BY <1>1, <2>2, <4>1 DEF Refuse, TooLarge
        <5>2. ParseResp(buffer).next - 1 \in 1 .. Len(buffer) /\ Len(buffer) \in Nat /\ MaxFrameSize \in Nat
          BY <1>0, <4>1, TakesNext, StreamFacts, ConnectionAssumption
        <5> QED BY <5>1, <5>2
      <4>2. CASE ParseResp(buffer).status # "ok"
        BY <1>1, <2>2, <4>2 DEF Refuse, TooLarge
      <4> QED BY <4>1, <4>2
    <3>3. Outstanding > MaxFrameSize /\ Outstanding' = Outstanding
      <4>1. buffer \in Bytes /\ Outstanding \in Nat /\ Len(buffer) <= Outstanding
        BY <1>0, BufferOutstanding DEF StreamTyped
      <4>2. Len(buffer) \in Nat /\ MaxFrameSize \in Nat
        BY <1>0, StreamFacts, ConnectionAssumption
      <4> QED BY <3>1, <3>2, <4>1, <4>2 DEF Outstanding
    <3> QED BY <3>1, <3>3 DEF EndsForCause
  <2> QED BY <2>1, <2>2
<1>2. CASE ReadEof
  <2>1. /\ outcome' = (IF buffer = << >> THEN "eof" ELSE "unexpectedEof")
        /\ pc = "read" /\ peer = "closed" /\ wire = << >> /\ UNCHANGED <<handled, sent, part>>
    BY <1>2 DEF ReadEof, Close, EndOfStream, client, ghosts
  <2>2. ParseResp(buffer) = Incomplete
    BY <2>1 DEF Inv, ReadsForMore
  <2>3. handled = sent /\ buffer = part
    BY <1>0, <2>1, <2>2, AwaitsNext
  <2> QED BY <2>1, <2>3 DEF EndsForCause
<1>3. CASE ReadSome
  <2>1. \/ outcome' = "tooLarge" /\ Len(buffer') > MaxFrameSize
        \/ outcome' = outcome /\ pc = "read"
    BY <1>3, SomeRead
  <2>2. pc = "read" => outcome = "none"
    BY <1>0 DEF TypeOK
  <2>3. ASSUME Len(buffer') > MaxFrameSize PROVE Outstanding' > MaxFrameSize
    <3>1. StreamTyped' /\ TakenInOrder' /\ NothingLost'
      BY StreamKept
    <3>2. (StreamTyped /\ TakenInOrder /\ NothingLost
             => Outstanding \in Nat /\ Len(buffer) <= Outstanding)'
      BY BufferOutstanding, PTL
    <3>3. Len(buffer') \in Nat /\ MaxFrameSize \in Nat
      BY <3>1, ConnectionAssumption DEF StreamTyped, Bytes
    <3> QED BY <2>3, <3>1, <3>2, <3>3
  <2> QED BY <2>1, <2>2, <2>3 DEF EndsForCause
<1>4. CASE IoError \/ Stop
  BY <1>4 DEF IoError, Stop, Close, EndsForCause
<1>5. CASE pc # "closed" /\ outcome' = outcome
  BY <1>0, <1>5 DEF TypeOK, EndsForCause
<1>6. CASE UNCHANGED <<handled, sent, part, buffer, outcome>>
  BY <1>0, <1>6 DEF EndsForCause, Upcoming, Outstanding
<1>7. CASE Send \/ CutShort \/ Reset \/ TakeFrame \/ AwaitMore \/ PassLog \/ Execute \/ Respond
  <2>1. pc # "closed" /\ outcome' = outcome
    BY <1>7 DEF Send, CutShort, Reset, TakeFrame, AwaitMore, PassLog, Execute, Respond
  <2> QED BY <1>5, <2>1
<1>8. CASE CloseStream \/ Shutdown \/ UNCHANGED vars
  <2>1. UNCHANGED <<handled, sent, part, buffer, outcome>>
    BY <1>8 DEF CloseStream, Shutdown, vars, client, ghosts
  <2> QED BY <1>6, <2>1
<1> QED BY <1>1, <1>2, <1>3, <1>4, <1>7, <1>8 DEF Next, ClientStep, StreamStep, TaskStep

\* The invariant holds in every state the connection reaches.
THEOREM Invariance == Spec => []Inv
<1>1. Init => Inv
  BY InvInit
<1>2. Inv /\ [Next]_vars => Inv'
  BY TypeKept, StreamKept, ReadsKept, EndsKept DEF Inv
<1> QED BY <1>1, <1>2, PTL DEF Spec


\* Every variable has its type, and a connection that goes on never holds more
\* than max_frame_size bytes (the checks of read_value).
THEOREM TypeCorrect == Spec => []TypeOK
<1>1. Inv => TypeOK
  BY DEF Inv
<1> QED BY <1>1, Invariance, PTL

\* However the stream is cut into reads, the frames taken off it are the
\* requests, in order, and no byte is lost or taken twice (split_to).
THEOREM FramesTakenInOrder == Spec => []FramesInOrder
<1>1. Inv => FramesInOrder
  <2> SUFFICES ASSUME Inv PROVE FramesInOrder
    OBVIOUS
  <2>0. StreamTyped /\ TakenInOrder /\ NothingLost
    BY DEF Inv
  <2>1. IsPrefix(handled, sent)
    <3>1. SubSeq(handled, 1, Len(handled)) = handled
      BY <2>0, SubSeqFull DEF StreamTyped
    <3> QED BY <2>0, <3>1 DEF IsPrefix, TakenInOrder
  <2>2. ASSUME peer # "reset"
        PROVE  FlattenSeq(handled) \o buffer \o wire = FlattenSeq(sent) \o part
    <3>1. FlattenSeq(handled) \o (buffer \o wire) = FlattenSeq(sent) \o part
      BY <2>0, <2>2 DEF NothingLost, Behind
    <3>2. FlattenSeq(handled) \in Bytes /\ buffer \in Bytes /\ wire \in Bytes
      BY <2>0, StreamFacts DEF StreamTyped
    <3>3. (FlattenSeq(handled) \o buffer) \o wire = FlattenSeq(handled) \o (buffer \o wire)
      BY <3>2, JoinedThree
    <3> QED BY <3>1, <3>3
  <2> QED BY <2>1, <2>2 DEF FramesInOrder
<1> QED BY <1>1, Invariance, PTL

\* The task waits for bytes only while its next request has not arrived in
\* full (read_value).
THEOREM WaitsForMore == Spec => []WaitsOnlyForMore
<1>1. Inv => WaitsOnlyForMore
  <2> SUFFICES ASSUME Inv, pc = "read"
               PROVE  /\ IsPrefix(buffer, Upcoming)
                      /\ Len(handled) < Len(sent) => buffer # Upcoming
    BY DEF WaitsOnlyForMore
  <2>1. StreamTyped /\ TakenInOrder /\ NothingLost /\ ParseResp(buffer) = Incomplete
    BY DEF Inv, ReadsForMore
  <2>2. SubSeq(buffer, 1, Len(buffer)) = buffer /\ Len(buffer) \in Nat
    BY <2>1, SubSeqFull, StreamFacts DEF StreamTyped, Bytes
  <2>3. CASE Len(handled) < Len(sent)
    <3> DEFINE next == sent[Len(handled) + 1]
    <3>1. Len(buffer) < Len(next) /\ buffer = SubSeq(next, 1, Len(buffer)) /\ Upcoming = next
      BY <2>1, <2>3, AwaitsNext DEF Upcoming
    <3>2. Len(next) \in Nat
      <4>1. Len(handled) + 1 \in 1 .. Len(sent)
        BY <2>1, <2>3, StreamFacts
      <4>2. next \in Pieces
        BY <2>1, <4>1, ElementOfSeq DEF StreamTyped
      <4> QED BY <4>2, PieceFacts DEF Bytes
    <3> HIDE DEF next
    <3>3. Len(buffer) <= Len(next) /\ Len(buffer) # Len(next)
      BY <2>2, <3>1, <3>2
    <3> QED BY <2>2, <3>1, <3>3 DEF IsPrefix
  <2>4. CASE ~(Len(handled) < Len(sent))
    <3>1. Len(buffer) <= Len(part) /\ buffer = SubSeq(part, 1, Len(buffer)) /\ Upcoming = part
      BY <2>1, <2>4, AwaitsNext DEF Upcoming
    <3> QED BY <2>2, <2>4, <3>1 DEF IsPrefix
  <2> QED BY <2>3, <2>4
<1> QED BY <1>1, Invariance, PTL

\* A connection ends for the reason it reports: a clean end leaves no request
\* behind, an unclean one only part of one, a protocol error is the next request's
\* own, and a frame is called too large only when the client has sent more than
\* max_frame_size bytes beyond the frames taken (the errors of read_value).
THEOREM CausesAreReal == Spec => []EndsForCause
<1>1. Inv => EndsForCause
  BY DEF Inv
<1> QED BY <1>1, Invariance, PTL


-----------------------------------------------------------------------------
(***************************************************************************)
(* What the client reads.                                                  *)
(***************************************************************************)

\* What Decoded makes of the last n bytes, given by f what it makes of fewer.
DecodedAt(f, bytes, n) ==
  LET first == ParseResp(SubSeq(bytes, Len(bytes) - n + 1, Len(bytes)))
  IN  IF n = 0 THEN << >>
      ELSE IF first.status # "ok" THEN <<first>>
      ELSE <<first.value>> \o f[n - (first.next - 1)]

IsDecoded(f, bytes, m) == f = [n \in 0 .. m |-> DecodedAt(f, bytes, n)]

\* It needs what it makes of fewer bytes only.
LEMMA DecodedFewer ==
  ASSUME NEW bytes \in Bytes, NEW n \in 0 .. Len(bytes), NEW f, NEW g,
         \A k \in 0 .. Len(bytes) : k < n => f[k] = g[k]
  PROVE  DecodedAt(f, bytes, n) = DecodedAt(g, bytes, n)
<1>1. Len(bytes) \in Nat
  BY DEF Bytes
<1>2. CASE n = 0
  BY <1>2 DEF DecodedAt
<1>3. CASE n # 0
  <2>1. PICK rest : rest = SubSeq(bytes, Len(bytes) - n + 1, Len(bytes))
    OBVIOUS
  <2>2. rest \in Bytes /\ Len(rest) = n
    BY <1>1, <2>1 DEF Bytes
  <2>3. PICK first : first = ParseResp(rest)
    OBVIOUS
  <2>4. CASE first.status # "ok"
    BY <1>3, <2>1, <2>3, <2>4 DEF DecodedAt
  <2>5. CASE first.status = "ok"
    <3>1. first.next \in 2 .. n + 1
      BY <2>2, <2>3, <2>5, ThreeResults, Results
    <3>2. n - (first.next - 1) \in 0 .. Len(bytes) /\ n - (first.next - 1) < n
      BY <1>1, <3>1
    <3>3. f[n - (first.next - 1)] = g[n - (first.next - 1)]
      BY <3>2
    <3> QED BY <1>3, <2>1, <2>3, <2>5, <3>3 DEF DecodedAt
  <2> QED BY <2>4, <2>5
<1> QED BY <1>2, <1>3

LEMMA DecodedExists ==
  ASSUME NEW bytes \in Bytes
  PROVE  \E f : IsDecoded(f, bytes, Len(bytes))
<1> DEFINE N == Len(bytes)
           S == {m \in 0 .. N : \E f : IsDecoded(f, bytes, m)}
<1>0. N \in Nat
  BY DEF Bytes
<1>1. 0 \in S
  <2> DEFINE f == [n \in 0 .. 0 |-> << >>]
  <2>1. ASSUME NEW n \in 0 .. 0 PROVE DecodedAt(f, bytes, n) = << >>
    BY DEF DecodedAt
  <2>2. f = [n \in 0 .. 0 |-> DecodedAt(f, bytes, n)]
    BY <2>1
  <2>3. IsDecoded(f, bytes, 0)
    BY <2>2 DEF IsDecoded
  <2> HIDE DEF f
  <2> QED BY <1>0, <2>3
<1>2. ASSUME NEW m \in 0 .. N, m \in S, m < N PROVE m + 1 \in S
  <2>1. PICK f : IsDecoded(f, bytes, m)
    BY <1>2
  <2>2. \A n \in 0 .. m : f[n] = DecodedAt(f, bytes, n)
    BY <2>1 DEF IsDecoded
  <2> DEFINE g == [n \in 0 .. m + 1 |-> IF n = m + 1 THEN DecodedAt(f, bytes, n) ELSE f[n]]
  <2>3. ASSUME NEW n \in 0 .. m + 1 PROVE DecodedAt(g, bytes, n) = DecodedAt(f, bytes, n)
    <3>1. ASSUME NEW k \in 0 .. N, k < n PROVE g[k] = f[k]
      <4>1. k \in 0 .. m + 1 /\ k # m + 1
        BY <1>0, <3>1
      <4> QED BY <4>1
    <3>2. n \in 0 .. N
      BY <1>0, <1>2
    <3> HIDE DEF g
    <3> QED BY <3>1, <3>2, DecodedFewer
  <2>4. ASSUME NEW n \in 0 .. m + 1 PROVE g[n] = DecodedAt(f, bytes, n)
    <3>1. m \in Int /\ n \in Int
      OBVIOUS
    <3>2. n = m + 1 \/ (n \in 0 .. m /\ n # m + 1)
      BY <3>1
    <3> QED BY <2>2, <3>2
  <2>5. g = [n \in 0 .. m + 1 |-> g[n]]
    OBVIOUS
  <2>6. IsDecoded(g, bytes, m + 1)
    <3> HIDE DEF g
    <3> QED BY <2>3, <2>4, <2>5 DEF IsDecoded
  <2>7. m + 1 \in 0 .. N
    BY <1>0, <1>2
  <2> HIDE DEF g
  <2> QED BY <2>6, <2>7
<1>3. \A n \in 0 .. N : n \in S
  <2> HIDE DEF S, N
  <2> QED BY <1>0, <1>1, <1>2, UpTo
<1>4. N \in 0 .. N
  BY <1>0
<1> QED BY <1>3, <1>4

\* Bytes behind others, cut off.
LEMMA CutBehind ==
  ASSUME NEW a \in Bytes, NEW c \in Bytes, NEW bytes, bytes = a \o c
  PROVE  SubSeq(bytes, Len(a) + 1, Len(bytes)) = c
<1>1. bytes \in Bytes /\ Len(bytes) = Len(a) + Len(c) /\ Len(a) \in Nat /\ Len(c) \in Nat
  BY Joined
<1>2. PICK front, back : front = SubSeq(bytes, 1, Len(a)) /\ back = SubSeq(bytes, Len(a) + 1, Len(bytes))
  OBVIOUS
<1>3. front \in Bytes /\ back \in Bytes /\ front \o back = bytes /\ Len(front) = Len(a)
  <2>1. Len(a) \in 0 .. Len(bytes)
    BY <1>1
  <2> QED BY <1>1, <1>2, <2>1, CutAnywhere
<1>4. front = a
  <2>1. a \o c = front \o back /\ Len(a) <= Len(front)
    BY <1>1, <1>3
  <2>2. a = SubSeq(front, 1, Len(a))
    BY <1>3, <2>1, BeginningsNest
  <2>3. SubSeq(front, 1, Len(front)) = front
    BY <1>3, SubSeqFull DEF Bytes
  <2> QED BY <1>3, <2>2, <2>3
<1>5. a \o back = a \o c
  BY <1>3, <1>4
<1> QED BY <1>2, <1>3, <1>5, JoinCancelled

\* What is written is at least a byte, and decodes to what it was made of.
LEMMA EncodedFirst ==
  ASSUME NEW v \in Encodable, NEW x \in Bytes
  PROVE  /\ Encode(v) \in Bytes /\ Len(Encode(v)) \in Nat \ {0}
         /\ ParseResp(Encode(v) \o x) = Parsed(v, Len(Encode(v)) + 1)
<1>1. /\ Encode(v) \in Bytes
      /\ ParseResp(Encode(v) \o x) = Parsed(v, Len(Encode(v)) + 1)
  BY EncodedParsed
<1>2. Len(Encode(v)) # 0
  <2> SUFFICES ASSUME Len(Encode(v)) = 0 PROVE FALSE
    OBVIOUS
  <2>1. << >> \in Bytes /\ Encode(v) = << >>
    BY <1>1, Joined DEF Bytes
  <2>2. ParseResp(Encode(v) \o << >>) = Parsed(v, Len(Encode(v)) + 1) /\ Encode(v) \o << >> = << >>
    BY <2>1, EncodedParsed, Joined
  <2>3. Parsed(v, Len(Encode(v)) + 1) # Incomplete
    BY Results
  <2> QED BY <2>2, <2>3, NothingYet
<1> QED BY <1>1, <1>2 DEF Bytes

\* The encodings of the values.
Encoded(values) == [i \in 1 .. Len(values) |-> Encode(values[i])]

\* A client reads the values that were written.
LEMMA DecodedIs ==
  ASSUME NEW values \in Seq(Encodable)
  PROVE  Decoded(FlattenSeq(Encoded(values))) = values
<1>1. PICK pieces : pieces = Encoded(values)
  OBVIOUS
<1>2. PICK N \in Nat : N = Len(values)
  BY ElementOfSeq
<1>3. \A i \in 1 .. N : values[i] \in Encodable
  BY <1>2, ElementOfSeq
<1>4. pieces \in Seq(Bytes) /\ Len(pieces) = N /\ \A i \in 1 .. N : pieces[i] = Encode(values[i])
  <2>1. \A i \in 1 .. N : Encode(values[i]) \in Bytes
    <3>1. << >> \in Bytes
      BY DEF Bytes
    <3> QED BY <1>3, <3>1, EncodedFirst
  <2> QED BY <1>1, <1>2, <2>1 DEF Encoded
<1>5. PICK bytes \in Bytes : bytes = FlattenSeq(pieces)
  <2>1. << >> \in Bytes
    BY DEF Bytes
  <2> QED BY <1>4, <2>1, OneMorePiece
<1>6. PICK L \in Nat : L = Len(bytes)
  BY DEF Bytes
<1> DEFINE f == CHOOSE h : IsDecoded(h, bytes, Len(bytes))
           start(k) == Len(FlattenSeq(SubSeq(pieces, 1, k)))
           T == {p \in 1 .. N + 1 : f[L - start(p - 1)] = SubSeq(values, p, N)}
<1>7. IsDecoded(f, bytes, Len(bytes))
  BY DecodedExists
<1>8. Decoded(bytes) = f[Len(bytes)]
  BY Zenon DEF Decoded, IsDecoded, DecodedAt
<1> HIDE DEF f
<1>9. \A n \in 0 .. L : f[n] = DecodedAt(f, bytes, n)
  BY <1>6, <1>7 DEF IsDecoded
<1>10. \A k \in 0 .. N : SubSeq(pieces, 1, k) \in Seq(Bytes)
  BY <1>4
<1>11. ASSUME NEW p \in 1 .. N + 1, \A q \in p + 1 .. N + 1 : q \in T PROVE p \in T
  <2>1. CASE p = N + 1
    <3>1. SubSeq(pieces, 1, N) = pieces /\ N + 1 - 1 = N
      BY <1>4, SubSeqFull
    <3>2. L - start(N) = 0
      <4>1. start(N) = L
        BY <1>5, <1>6, <3>1
      <4> HIDE DEF start
      <4> QED BY <4>1
    <3>3. f[0] = << >>
      <4>1. 0 \in 0 .. L
        OBVIOUS
      <4>2. DecodedAt(f, bytes, 0) = << >>
        BY DEF DecodedAt
      <4> QED BY <1>9, <4>1, <4>2
    <3>4. SubSeq(values, N + 1, N) = << >>
      BY <1>2
    <3>5. L - start(p - 1) = 0
      BY <2>1, <3>1, <3>2
    <3> HIDE DEF start
    <3> QED BY <2>1, <3>3, <3>4, <3>5
  <2>2. CASE p # N + 1
    <3>1. PICK k \in 0 .. N : k = p - 1 /\ p = k + 1 /\ k < N /\ p \in 1 .. N /\ p + 1 \in p + 1 .. N + 1 /\ p + 1 - 1 = p
      <4>1. /\ p - 1 \in 0 .. N /\ p = p - 1 + 1 /\ p - 1 < N /\ p \in 1 .. N
            /\ p + 1 \in p + 1 .. N + 1 /\ p + 1 - 1 = p
        BY <2>2
      <4> QED BY <4>1
    <3>2. PICK a, piece, v : a = FlattenSeq(SubSeq(pieces, 1, k)) /\ piece = pieces[p] /\ v = values[p]
      OBVIOUS
    <3>3. PICK y \in Bytes : bytes = a \o (piece \o y)
      BY <1>4, <1>5, <3>1, <3>2, NextPiece
    <3>4. v \in Encodable /\ piece = Encode(v)
      BY <1>3, <1>4, <3>1, <3>2
    <3>5. /\ piece \in Bytes /\ Len(piece) \in Nat \ {0}
          /\ ParseResp(piece \o y) = Parsed(v, Len(piece) + 1)
      BY <3>4, EncodedFirst
    <3>6. a \in Bytes
      <4>1. SubSeq(pieces, 1, k) \in Seq(Bytes)
        BY <1>10
      <4> QED BY <3>2, <3>5, <4>1, OneMorePiece
    <3>7. start(p) = Len(a) + Len(piece) /\ start(k) = Len(a) /\ Len(a) \in Nat
      <4>1. SubSeq(pieces, 1, p) = Append(SubSeq(pieces, 1, k), piece)
        BY <1>4, <3>1, <3>2
      <4>2. FlattenSeq(Append(SubSeq(pieces, 1, k), piece)) = a \o piece
        BY <1>10, <3>2, <3>5, OneMorePiece
      <4>3. Len(a \o piece) = Len(a) + Len(piece) /\ Len(a) \in Nat
        BY <3>5, <3>6, Joined
      <4> QED BY <3>2, <4>1, <4>2, <4>3
    <3>8. piece \o y \in Bytes /\ L = Len(a) + Len(piece) + Len(y) /\ Len(y) \in Nat
      <4>1. piece \o y \in Bytes /\ Len(piece \o y) = Len(piece) + Len(y) /\ Len(y) \in Nat
        BY <3>5, Joined
      <4>2. Len(a \o (piece \o y)) = Len(a) + Len(piece \o y)
        BY <3>6, <4>1, Joined
      <4> QED BY <1>6, <3>3, <3>5, <3>7, <4>1, <4>2
    <3>9. PICK n : n = L - start(k)
      OBVIOUS
    <3>10. n \in 0 .. L /\ n # 0 /\ L - n + 1 = Len(a) + 1 /\ n - Len(piece) = L - start(p)
      <4> HIDE DEF start
      <4> QED BY <3>5, <3>7, <3>8, <3>9
    <3>11. SubSeq(bytes, L - n + 1, L) = piece \o y
      <4>1. PICK c : c = piece \o y
        OBVIOUS
      <4>2. c \in Bytes /\ bytes = a \o c
        BY <3>3, <3>8, <4>1
      <4>3. SubSeq(bytes, Len(a) + 1, Len(bytes)) = c
        BY <3>6, <4>2, CutBehind
      <4> QED BY <1>6, <3>10, <4>1, <4>3
    <3>12. f[n] = <<v>> \o f[L - start(p)]
      <4>1. PICK first : first = ParseResp(SubSeq(bytes, Len(bytes) - n + 1, Len(bytes)))
        OBVIOUS
      <4>2. first.status = "ok" /\ first.value = v /\ first.next = Len(piece) + 1
        <5>1. SubSeq(bytes, Len(bytes) - n + 1, Len(bytes)) = piece \o y
          BY <1>6, <3>11
        <5>2. first = Parsed(v, Len(piece) + 1)
          BY <3>5, <4>1, <5>1
        <5> QED BY <5>2, Results
      <4>3. n - (first.next - 1) = L - start(p)
        <5> HIDE DEF start
        <5>1. first.next - 1 = Len(piece)
          BY <3>5, <4>2
        <5> QED BY <3>10, <5>1
      <4>4. DecodedAt(f, bytes, n) = <<first.value>> \o f[n - (first.next - 1)]
        BY <3>10, <4>1, <4>2 DEF DecodedAt
      <4> HIDE DEF start
      <4> QED BY <1>9, <3>10, <4>2, <4>3, <4>4
    <3>13. f[L - start(p)] = SubSeq(values, p + 1, N)
      <4>1. p + 1 \in T
        BY <1>11, <3>1
      <4> HIDE DEF start
      <4> QED BY <3>1, <4>1
    <3>14. <<v>> \o SubSeq(values, p + 1, N) = SubSeq(values, p, N)
      <4>1. PICK u, w, x : u = <<v>> /\ w = SubSeq(values, p + 1, N) /\ x = SubSeq(values, p, N)
        OBVIOUS
      <4>2. u \in Seq(Encodable) /\ Len(u) = 1 /\ u[1] = v
        BY <3>4, <4>1
      <4>3. w \in Seq(Encodable) /\ Len(w) = N - p /\ \A i \in 1 .. N - p : w[i] = values[p + i]
        BY <1>2, <3>1, <4>1
      <4>4. x \in Seq(Encodable) /\ Len(x) = N - p + 1 /\ \A i \in 1 .. N - p + 1 : x[i] = values[p + i - 1]
        BY <1>2, <3>1, <4>1
      <4>5. u \o w \in Seq(Encodable) /\ Len(u \o w) = 1 + (N - p)
        <5>1. u \o w \in Seq(Encodable) /\ Len(u \o w) = Len(u) + Len(w)
          <6>1. u \in Seq(Encodable) /\ w \in Seq(Encodable)
            BY <4>2, <4>3
          <6> QED BY <6>1, ConcatProperties
        <5> QED BY <4>2, <4>3, <5>1
      <4>6. ASSUME NEW i \in 1 .. Len(x) PROVE (u \o w)[i] = x[i]
        <5>1. i \in 1 .. Len(u) + Len(w) /\ i \in Nat
          BY <3>1, <4>2, <4>3, <4>4
        <5>2. (u \o w)[i] = IF i <= Len(u) THEN u[i] ELSE w[i - Len(u)]
          BY <4>2, <4>3, <5>1, ConcatProperties
        <5>3. CASE i = 1
          <6>1. (u \o w)[i] = v /\ p + i - 1 = p
            BY <3>1, <4>2, <5>2, <5>3
          <6> QED BY <3>2, <4>4, <6>1
        <5>4. CASE i # 1
          <6>1. i - 1 \in 1 .. N - p /\ p + (i - 1) = p + i - 1 /\ ~(i <= 1)
            BY <3>1, <4>4, <5>4
          <6> QED BY <4>2, <4>3, <4>4, <5>2, <6>1
        <5> QED BY <5>3, <5>4
      <4>7. u \o w = x
        <5>1. Len(u \o w) = Len(x)
          BY <3>1, <4>4, <4>5
        <5> QED BY <4>4, <4>5, <4>6, <5>1, SeqEqual
      <4> QED BY <4>1, <4>7
    <3>15. f[L - start(p - 1)] = SubSeq(values, p, N)
      <4> HIDE DEF start
      <4> QED BY <3>1, <3>9, <3>12, <3>13, <3>14
    <3> HIDE DEF start
    <3> QED BY <3>15
  <2> QED BY <2>1, <2>2
<1>12. \A p \in 1 .. N + 1 : p \in T
  <2> HIDE DEF T
  <2> QED BY <1>11, DownTo
<1>13. f[L - start(0)] = SubSeq(values, 1, N)
  <2>1. 1 \in T /\ 1 - 1 = 0
    <3> HIDE DEF T
    <3> QED BY <1>12
  <2> HIDE DEF start
  <2> QED BY <2>1
<1>14. start(0) = 0
  <2>1. SubSeq(pieces, 1, 0) = << >>
    OBVIOUS
  <2>2. FlattenSeq(<< >>) = << >>
    BY DEF FlattenSeq
  <2>3. start(0) = Len(<< >>)
    BY <2>1, <2>2
  <2> HIDE DEF start
  <2> QED BY <2>3
<1>15. SubSeq(values, 1, N) = values
  BY <1>2, SubSeqFull
<1>16. L - start(0) = L
  <2> HIDE DEF start
  <2> QED BY <1>14
<1> HIDE DEF start
<1> QED BY <1>1, <1>5, <1>6, <1>8, <1>13, <1>15, <1>16


-----------------------------------------------------------------------------
(***************************************************************************)
(* What a request is answered.                                             *)
(***************************************************************************)
Ops == {"error", "PING", "SET", "SETPXAT", "FLUSHDB", "DEL", "EXPIRE", "EXPIREAT",
        "EXISTS", "TTL", "GET", "INFO", "KEYS", "UNKNOWN"}

\* What a server may answer: also an error that echoes any text.
Answerable == Encodable \cup {ErrorText(t) : t \in {u \in Bytes : IsUtf8(u)}}

\* Every request is a command or an error, and a command that is not known has a name.
LEMMA OpsParsed ==
  ASSUME NEW value
  PROVE  /\ FromResp(value).op \in Ops
         /\ FromResp(value).op = "UNKNOWN" => Args(value) # << >> /\ IsUtf8(Head(Args(value)))
<1>1. \A args : ParseSet(args).op \in Ops
  <2> SUFFICES ASSUME NEW args PROVE ParseSet(args).op \in Ops
    OBVIOUS
  <2>1. \A d, key, value_ : [op |-> "SET", key |-> key, value |-> value_, expire |-> d].op \in Ops
    BY DEF Ops
  <2> QED BY <2>1 DEF ParseSet, Failed, Ops
<1>2. \A name, args : Parse(name, args).op \in Ops
  <2> SUFFICES ASSUME NEW name, NEW args PROVE Parse(name, args).op \in Ops
    OBVIOUS
  <2> DEFINE plain == {op \in {"PING", "FLUSHDB", "INFO"} : Name[op] = name}
             keyed == {op \in {"GET", "EXISTS", "TTL"} : Name[op] = name}
  <2>1. plain # {} => (CHOOSE op \in plain : TRUE) \in Ops
    BY DEF Ops
  <2>2. keyed # {} => (CHOOSE op \in keyed : TRUE) \in Ops
    BY DEF Ops
  <2>3. ParseSet(args).op \in Ops /\ Failed.op \in Ops
    BY <1>1 DEF Failed, Ops
  <2> QED BY <2>1, <2>2, <2>3 DEF Parse, Ops
<1>3. CASE Args(value) = << >> \/ ~IsUtf8(Head(Args(value)))
  BY <1>3 DEF FromResp, Failed, Ops
<1>4. CASE ~(Args(value) = << >> \/ ~IsUtf8(Head(Args(value))))
  BY <1>2, <1>4 DEF FromResp
<1> QED BY <1>3, <1>4

\* A text of one byte that is no part of a line end.
LEMMA ShortText ==
  ASSUME NEW c \in {"E", "O", "P"}
  PROVE  <<c>> \in Texts /\ <<c>> \in Bytes /\ IsUtf8(<<c>>)
<1>1. c \in Byte
  BY ConnectionAssumption
<1>2. PICK t : t = <<c>>
  OBVIOUS
<1>3. t \in Bytes /\ Len(t) = 1 /\ t[1] = c
  BY <1>1, <1>2 DEF Bytes
<1>4. IsUtf8(t) /\ NoReturn(t)
  <2>1. \A i \in 1 .. Len(t) : i = 1
    BY <1>3
  <2> QED BY <1>3, <2>1 DEF IsUtf8, NoReturn
<1> QED BY <1>2, <1>3, <1>4, NoReturnOneLine DEF Texts

LEMMA AnswersTyped ==
  ASSUME NEW value, TypedValue(value)
  PROVE  Answers(value) \subseteq Answerable
<1>0. PICK args : args = Args(value)
  OBVIOUS
<1>1. args \in Seq(Bytes)
  BY <1>0, ArgsTyped
<1>2. PICK op : op = FromResp(value).op
  OBVIOUS
<1>3. op \in Ops /\ (op = "UNKNOWN" => args # << >> /\ IsUtf8(Head(args)))
  BY <1>0, <1>2, OpsParsed
<1>4. Items \subseteq Answerable
  BY DEF Answerable, Encodable
<1>5. <<"E">> \in Texts /\ <<"O">> \in Texts /\ <<"P">> \in Texts
  BY ShortText
<1>6. Failure \in Items /\ SimpleString(<<"O">>) \in Items /\ SimpleString(<<"P">>) \in Items
  BY <1>5 DEF Failure, Items
<1>7. \A n \in Int : Integer(n) \in Items
  BY DEF Items
<1>8. Null \in Items /\ \A s \in StoredBytes : BulkString(s) \in Items
  <2>1. \A s \in StoredBytes : s \in Bytes
    BY ConnectionAssumption DEF Bytes
  <2> QED BY <2>1 DEF Items
<1>9. \A items \in Seq(Items) : Array(items) \in Answerable
  BY DEF Answerable, Encodable
<1>10. CASE op \in {"error", "PING", "SET", "SETPXAT", "FLUSHDB"}
  <2>1. Answers(value) \subseteq {Failure, SimpleString(<<"O">>), SimpleString(<<"P">>)}
    BY <1>2, <1>10 DEF Answers
  <2> QED BY <1>4, <1>6, <2>1
<1>11. CASE op \in {"DEL", "EXPIRE", "EXPIREAT", "EXISTS", "TTL"}
  <2>1. Answers(value) \subseteq {Failure, Integer(0), Integer(1), Integer(-2), Integer(10)}
    BY <1>2, <1>11 DEF Answers
  <2>2. 0 \in Int /\ 1 \in Int /\ -2 \in Int /\ 10 \in Int
    OBVIOUS
  <2> QED BY <1>4, <1>6, <1>7, <2>1, <2>2
<1>12. CASE op \in {"GET", "INFO"}
  <2>1. Answers(value) \subseteq {Null} \cup {BulkString(v) : v \in StoredBytes}
    BY <1>2, <1>12 DEF Answers
  <2> QED BY <1>4, <1>8, <2>1
<1>13. CASE op = "KEYS"
  <2>1. Answers(value) \subseteq {Array(<< >>)} \cup {Array(<<BulkString(k)>>) : k \in StoredBytes}
    BY <1>2, <1>13 DEF Answers
  <2>2. << >> \in Seq(Items) /\ \A k \in StoredBytes : <<BulkString(k)>> \in Seq(Items)
    <3>1. \A x \in Items : <<x>> \in Seq(Items)
      OBVIOUS
    <3> QED BY <1>8, <3>1
  <2> QED BY <1>9, <2>1, <2>2
<1>14. CASE op = "UNKNOWN"
  <2>1. PICK name : name = Head(args)
    OBVIOUS
  <2>2. name \in Bytes /\ IsUtf8(name)
    BY <1>1, <1>3, <1>14, <2>1
  <2>3. PICK e, t : e = <<"E">> /\ t = e \o name
    OBVIOUS
  <2>4. e \in Bytes /\ IsUtf8(e) /\ Len(e) = 1
    BY <2>3, ShortText
  <2>5. t \in Bytes /\ Len(t) = Len(e) + Len(name) /\ Len(name) \in Nat
    BY <2>2, <2>3, <2>4, Joined
  <2>6. IsUtf8(t)
    <3>1. ASSUME NEW i \in 1 .. Len(t) PROVE t[i] # "FF"
      <4>1. t[i] = IF i <= Len(e) THEN e[i] ELSE name[i - Len(e)]
        BY <2>2, <2>3, <2>4, <2>5, ConcatProperties DEF Bytes
      <4>2. CASE i <= 1
        <5>1. i \in 1 .. Len(e)
          BY <2>4, <4>2
        <5> QED BY <2>4, <4>1, <4>2, <5>1 DEF IsUtf8
      <4>3. CASE ~(i <= 1)
        <5>1. i - Len(e) \in 1 .. Len(name)
          BY <2>4, <2>5, <4>3
        <5> QED BY <2>2, <2>4, <4>1, <4>3, <5>1 DEF IsUtf8
      <4> QED BY <4>2, <4>3
    <3> QED BY <3>1 DEF IsUtf8
  <2>7. Answers(value) = {ErrorText(t)}
    BY <1>0, <1>2, <1>14, <2>1, <2>3 DEF Answers
  <2> QED BY <2>5, <2>6, <2>7 DEF Answerable
<1> QED BY <1>3, <1>10, <1>11, <1>12, <1>13, <1>14 DEF Ops

\* Every answer is written in bytes; a framed one is read back.
LEMMA AnswerFacts ==
  ASSUME NEW v \in Answerable
  PROVE  Encode(v) \in Bytes /\ (Framed(v) => v \in Encodable)
<1>0. << >> \in Bytes
  BY DEF Bytes
<1>1. CASE v \in Encodable
  BY <1>0, <1>1, EncodedFirst
<1>2. CASE v \in {ErrorText(t) : t \in {u \in Bytes : IsUtf8(u)}}
  <2>1. PICK t \in Bytes : IsUtf8(t) /\ v = ErrorText(t)
    BY <1>2
  <2>2. v.type = "-" /\ v.text = t
    BY <2>1 DEF ErrorText
  <2>3. Encode(v) = FirstLine("-", t)
    BY <2>2 DEF Encode, EncodeItem, FirstLine
  <2>4. Encode(v) \in Bytes
    BY <2>3, FirstLineBytes
  <2>5. Framed(v) => t \in Texts
    BY <2>1, <2>2 DEF Framed, Texts, OneLine
  <2> QED BY <2>1, <2>4, <2>5 DEF Encodable, Items
<1> QED BY <1>1, <1>2 DEF Answerable



-----------------------------------------------------------------------------
(***************************************************************************)
(* The client reads one reply for each request.                            *)
(***************************************************************************)

\* What was written is the encodings of the replies, one for each frame but the
\* one at hand, and a frame at hand is one value.
Answered ==
  /\ replies \in Seq(Answerable) /\ responses = FlattenSeq(Encoded(replies))
  /\ Len(replies) = Len(handled) - (IF frame = << >> THEN 0 ELSE 1)
  /\ pc \in {"log", "execute", "write"} =>
       frame \in Bytes /\ frame # << >> /\ ParseResp(frame).status = "ok"
  /\ pc \in {"parse", "read"} => frame = << >>

\* A frame that is taken holds a value.
LEMMA FrameHolds ==
  ASSUME Inv, TakeFrame
  PROVE  frame' # << >> /\ ParseResp(frame').status = "ok"
<1>1. PICK b \in Bytes, f \in Bytes, x \in Bytes : b = buffer /\ f = frame' /\ x = buffer'
  BY FrameTaken DEF Inv, StreamTyped
<1>2. f \o x = b /\ ParseResp(b).status = "ok"
  BY <1>1, FrameTaken DEF TakeFrame
<1>3. f \in Pieces
  <2>1. Len(handled) + 1 \in 1 .. Len(sent)
    BY FrameTaken, StreamFacts DEF Inv
  <2> QED BY <1>1, <2>1, FrameTaken, ElementOfSeq DEF Inv, StreamTyped
<1>4. ParseResp(f) # Incomplete
  BY <1>3, PieceFacts
<1>5. ParseResp(f) = ParseResp(b)
  BY <1>2, <1>4, ParseKept
<1> QED BY <1>1, <1>2, <1>4, <1>5, NothingYet

\* One answer more is one encoding more.
LEMMA OneMoreReply ==
  ASSUME NEW values \in Seq(Answerable), NEW v \in Answerable
  PROVE  /\ Append(values, v) \in Seq(Answerable) /\ Len(Append(values, v)) = Len(values) + 1
         /\ FlattenSeq(Encoded(Append(values, v))) = FlattenSeq(Encoded(values)) \o Encode(v)
<1>1. PICK more : more = Append(values, v)
  OBVIOUS
<1>2. /\ more \in Seq(Answerable) /\ Len(more) = Len(values) + 1 /\ Len(values) \in Nat
      /\ \A i \in 1 .. Len(values) : more[i] = values[i]
      /\ more[Len(values) + 1] = v
  BY <1>1, AppendProperties
<1>3. PICK pieces, all, piece : pieces = Encoded(values) /\ all = Encoded(more) /\ piece = Encode(v)
  OBVIOUS
<1>4. \A i \in 1 .. Len(values) : Encode(values[i]) \in Bytes
  BY AnswerFacts, ElementOfSeq
<1>5. /\ pieces \in Seq(Bytes) /\ Len(pieces) = Len(values) /\ piece \in Bytes
      /\ \A i \in 1 .. Len(values) : pieces[i] = Encode(values[i])
  BY <1>2, <1>3, <1>4, AnswerFacts DEF Encoded
<1>6. \A i \in 1 .. Len(more) : Encode(more[i]) \in Bytes
  BY <1>2, AnswerFacts, ElementOfSeq
<1>7. all \in Seq(Bytes) /\ Len(all) = Len(more) /\ \A i \in 1 .. Len(more) : all[i] = Encode(more[i])
  BY <1>2, <1>3, <1>6 DEF Encoded
<1>8. PICK longer : longer = Append(pieces, piece)
  OBVIOUS
<1>9. /\ longer \in Seq(Bytes) /\ Len(longer) = Len(values) + 1
      /\ \A i \in 1 .. Len(values) : longer[i] = pieces[i]
      /\ longer[Len(values) + 1] = piece
  BY <1>2, <1>5, <1>8, AppendProperties
<1>10. \A i \in 1 .. Len(longer) : longer[i] = all[i]
  <2> SUFFICES ASSUME NEW i \in 1 .. Len(values) + 1 PROVE longer[i] = all[i]
    BY <1>9
  <2>1. i \in 1 .. Len(more)
    BY <1>2
  <2>2. CASE i = Len(values) + 1
    BY <1>2, <1>3, <1>7, <1>9, <2>1, <2>2
  <2>3. CASE i # Len(values) + 1
    <3>1. i \in 1 .. Len(values)
      BY <1>2, <2>3
    <3> QED BY <1>2, <1>5, <1>7, <1>9, <2>1, <3>1
  <2> QED BY <2>2, <2>3
<1>11. longer = all
  BY <1>2, <1>7, <1>9, <1>10, SeqEqual
<1>12. FlattenSeq(longer) = FlattenSeq(pieces) \o piece
  BY <1>5, <1>8, OneMorePiece
<1> QED BY <1>1, <1>2, <1>3, <1>11, <1>12

LEMMA AnsweredInit == Init => Answered
<1> SUFFICES ASSUME Init PROVE Answered
  OBVIOUS
<1>1. replies = << >> /\ responses = << >> /\ handled = << >> /\ frame = << >> /\ pc = "parse"
  BY DEF Init
<1>2. << >> \in Seq(Answerable) /\ Len(<< >>) = 0
  OBVIOUS
<1>3. Encoded(<< >>) = << >>
  BY <1>2 DEF Encoded
<1>4. FlattenSeq(<< >>) = << >>
  BY DEF FlattenSeq
<1> QED BY <1>1, <1>2, <1>3, <1>4 DEF Answered

\* An answer is given to the value of the frame, and written.
LEMMA RespondAnswers ==
  ASSUME Inv, Answered, Respond
  PROVE  \E reply \in Answerable :
           replies' = Append(replies, reply) /\ responses' = responses \o Encode(reply)
<1>1. PICK reply \in Answers(ParseResp(frame).value) :
        replies' = Append(replies, reply) /\ responses' = responses \o Encode(reply)
  BY DEF Respond
<1>2. frame \in Bytes /\ ParseResp(frame).status = "ok"
  BY DEF Answered, Respond
<1>3. TypedValue(ParseResp(frame).value)
  BY <1>2, ParsedTyped
<1>4. Answers(ParseResp(frame).value) \subseteq Answerable
  BY <1>3, AnswersTyped
<1> QED BY <1>1, <1>4

LEMMA AnsweredKept ==
  ASSUME Inv, Answered, [Next]_vars
  PROVE  Answered'
<1>0. Len(handled) \in Nat
  BY StreamFacts DEF Inv
<1>1. CASE TakeFrame
  <2>1. /\ UNCHANGED <<replies, responses>> /\ frame = << >> /\ pc' \in {"log", "execute"}
        /\ frame' \in Bytes /\ frame' # << >> /\ ParseResp(frame').status = "ok"
        /\ handled' = Append(handled, frame')
    BY <1>1, FrameTaken, FrameHolds DEF Answered, TakeFrame
  <2>2. Len(handled') = Len(handled) + 1
    BY <2>1, AppendProperties DEF Inv, StreamTyped
  <2>3. Len(replies') = Len(handled') - 1
    BY <1>0, <2>1, <2>2 DEF Answered
  <2> QED BY <2>1, <2>3 DEF Answered
<1>2. CASE Respond
  <2>1. /\ pc = "write" /\ pc' = "parse" /\ frame' = << >> /\ UNCHANGED handled /\ frame # << >>
    BY <1>2 DEF Respond, Answered
  <2>2. PICK reply \in Answerable :
          replies' = Append(replies, reply) /\ responses' = responses \o Encode(reply)
    BY <1>2, RespondAnswers
  <2>3. replies \in Seq(Answerable) /\ responses = FlattenSeq(Encoded(replies)) /\ Len(replies) = Len(handled) - 1
    BY <2>1 DEF Answered
  <2>4. /\ replies' \in Seq(Answerable) /\ Len(replies') = Len(replies) + 1
        /\ responses' = FlattenSeq(Encoded(replies'))
    BY <2>2, <2>3, OneMoreReply
  <2>5. Len(replies') = Len(handled') - 0
    BY <1>0, <2>1, <2>3, <2>4
  <2> QED BY <2>1, <2>4, <2>5 DEF Answered
<1>3. CASE AwaitMore \/ ReadSome
  <2>1. UNCHANGED <<replies, responses, handled, frame>> /\ pc \in {"parse", "read"}
    BY <1>3 DEF AwaitMore, ReadSome, ghosts
  <2> QED BY <1>3, <2>1 DEF Answered, AwaitMore, ReadSome, Close
<1>4. CASE Refuse \/ ReadEof \/ IoError \/ Stop
  <2>1. UNCHANGED <<replies, responses, handled, frame>> /\ pc' = "closed"
    BY <1>4 DEF Refuse, ReadEof, IoError, Stop, Close, ghosts
  <2> QED BY <2>1 DEF Answered
<1>5. CASE ClientStep \/ Shutdown \/ UNCHANGED vars
  <2>1. UNCHANGED <<replies, responses, handled, frame, pc>>
    BY <1>5 DEF ClientStep, Send, CloseStream, CutShort, Reset, Shutdown, vars, ghosts
  <2> QED BY <2>1 DEF Answered
<1>6. CASE PassLog \/ Execute
  <2>1. /\ UNCHANGED <<replies, responses, handled, frame>>
        /\ pc \in {"log", "execute"} /\ pc' \in {"execute", "write"}
    BY <1>6 DEF PassLog, Execute, ghosts
  <2> QED BY <2>1 DEF Answered
<1> QED BY <1>1, <1>2, <1>3, <1>4, <1>5, <1>6 DEF Next, StreamStep, TaskStep

\* A client reads exactly the replies to the frames that were taken, one each, in
\* order, while none echoes a name with a line end in it (encode_resp,
\* handle_client).
THEOREM OneReplyEach == Spec => []OneReplyPerRequest
<1>1. Inv /\ Answered => OneReplyPerRequest
  <2> SUFFICES ASSUME Inv, Answered PROVE OneReplyPerRequest
    OBVIOUS
  <2>1. ASSUME \A i \in 1 .. Len(replies) : Framed(replies[i])
        PROVE  Decoded(responses) = replies
    <3>1. \A i \in 1 .. Len(replies) : replies[i] \in Encodable
      BY <2>1, AnswerFacts, ElementOfSeq DEF Answered
    <3>2. PICK values : values = replies
      OBVIOUS
    <3>3. values \in Seq(Encodable)
      BY <3>1, <3>2 DEF Answered
    <3> QED BY <3>2, <3>3, DecodedIs DEF Answered
  <2> QED BY <2>1 DEF Answered, OneReplyPerRequest
<1>2. Init => Inv /\ Answered
  BY InvInit, AnsweredInit
<1>3. (Inv /\ Answered) /\ [Next]_vars => (Inv /\ Answered)'
  BY TypeKept, StreamKept, ReadsKept, EndsKept, AnsweredKept DEF Inv
<1> QED BY <1>1, <1>2, <1>3, PTL DEF Spec
=============================================================================
