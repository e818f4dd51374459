------------------------------ MODULE RespProofs ------------------------------
(***************************************************************************)
(* What the parser makes of the bytes that have arrived, for every input:  *)
(* it never reads past the end, and a result other than Incomplete does    *)
(* not change when more bytes arrive.  What encode_resp writes it reads    *)
(* back, so the arguments of a request arrive as they were sent.  The      *)
(* inductions are over sets of positions, from the well-foundedness of     *)
(* the natural numbers.                                                    *)
(***************************************************************************)
EXTENDS CommandParse, FiniteSetTheorems, SequenceTheorems, TLAPS

-----------------------------------------------------------------------------
(***************************************************************************)
(* Induction over the natural numbers, as facts about sets of them.        *)
(***************************************************************************)

\* The order of the natural numbers, as a set of pairs, is well founded.
LEMMA BelowWellFounded ==
  IsWellFoundedOn({ss \in Nat \X Nat : ss[1] < ss[2]}, Nat)
<1>1. IsWellFoundedOn(OpToRel(<, Nat), Nat)
  BY NatLessThanWellFounded
<1>2. {ss \in Nat \X Nat : ss[1] < ss[2]} \cap (Nat \X Nat) \subseteq OpToRel(<, Nat)
  BY DEF OpToRel
<1> QED BY <1>1, <1>2, IsWellFoundedOnSubrelation

\* Every non-empty set of natural numbers has a least element.
LEMMA LeastNumber ==
  ASSUME NEW S, S \subseteq Nat, S # {}
  PROVE  \E m \in S : \A n \in S : m <= n
<1> DEFINE below == {ss \in Nat \X Nat : ss[1] < ss[2]}
<1>1. IsWellFoundedOn(below, Nat)
  BY BelowWellFounded
<1>2. PICK m \in S : \A n \in S : ~(<<n, m>> \in below)
  <2> HIDE DEF below
  <2> QED BY <1>1, WFMin
<1>3. ASSUME NEW n \in S PROVE m <= n
  <2>1. m \in Nat /\ n \in Nat
    OBVIOUS
  <2>2. ~(<<n, m>> \in below) /\ <<n, m>> \in Nat \X Nat
    BY <1>2, <2>1
  <2>3. ~(n < m)
    BY <2>2
  <2> QED BY <2>1, <2>3
<1> QED BY <1>3

\* A set that holds 0 and with a number up to N the next one holds all
\* numbers up to N.
LEMMA UpTo ==
  ASSUME NEW N \in Nat, NEW S, 0 \in S,
         \A n \in 0 .. N : n \in S /\ n < N => n + 1 \in S
  PROVE  \A n \in 0 .. N : n \in S
<1> DEFINE rest == (0 .. N) \ S
<1> SUFFICES ASSUME rest # {} PROVE FALSE
  OBVIOUS
<1>1. PICK m \in rest : \A n \in rest : m <= n
  <2>1. rest \subseteq Nat
    OBVIOUS
  <2> HIDE DEF rest
  <2> QED BY <2>1, LeastNumber
<1>2. m \in 1 .. N /\ m \notin S
  OBVIOUS
<1>3. m - 1 \in 0 .. N /\ m - 1 < N /\ m - 1 < m
  BY <1>2
<1>4. m - 1 \in S
  BY <1>1, <1>3
<1> QED BY <1>2, <1>3, <1>4

\* What holds at a position if it holds at all positions behind it, holds at all.
LEMMA DownTo ==
  ASSUME NEW N \in Nat, NEW S,
         \A p \in 1 .. N + 1 : (\A q \in p + 1 .. N + 1 : q \in S) => p \in S
  PROVE  \A p \in 1 .. N + 1 : p \in S
<1> DEFINE bad == {n \in 0 .. N : N + 1 - n \notin S}
<1> SUFFICES ASSUME NEW p \in 1 .. N + 1, p \notin S PROVE FALSE
  OBVIOUS
<1>1. N + 1 - p \in bad
  <2>1. N + 1 - p \in 0 .. N /\ N + 1 - (N + 1 - p) = p
    OBVIOUS
  <2> QED BY <2>1
<1>2. PICK m \in bad : \A n \in bad : m <= n
  <2>1. bad \subseteq Nat
    OBVIOUS
  <2> HIDE DEF bad
  <2> QED BY <1>1, <2>1, LeastNumber
<1>3. m \in 0 .. N /\ N + 1 - m \notin S
  OBVIOUS
<1>4. ASSUME NEW q \in (N + 1 - m) + 1 .. N + 1 PROVE q \in S
  <2>1. N + 1 - q \in 0 .. N /\ N + 1 - q < m /\ N + 1 - (N + 1 - q) = q
    BY <1>3
  <2>2. N + 1 - q \notin bad
    <3> HIDE DEF bad
    <3>1. N + 1 - q \in Int /\ m \in Int
      BY <1>3, <2>1
    <3> QED BY <1>2, <2>1, <3>1
  <2> QED BY <2>1, <2>2
<1>5. N + 1 - m \in 1 .. N + 1
  BY <1>3
<1> QED BY <1>3, <1>4, <1>5

-----------------------------------------------------------------------------
(***************************************************************************)
(* Lines and bulk strings.                                                 *)
(***************************************************************************)
Bytes == Seq(Byte)

\* A result that ends at a position of a set.
ResultIn(r, ends) ==
  r = Incomplete \/ r = Invalid \/ \E v : \E n \in ends : r = Parsed(v, n)

\* The three kinds of results differ.
LEMMA Results ==
  /\ Incomplete # Invalid /\ Incomplete.status = "incomplete" /\ Invalid.status = "invalid"
  /\ \A v, n : /\ Parsed(v, n).status = "ok" /\ Parsed(v, n).value = v /\ Parsed(v, n).next = n
               /\ Parsed(v, n) # Incomplete /\ Parsed(v, n) # Invalid
<1>1. Incomplete.status = "incomplete" /\ Invalid.status = "invalid"
  BY DEF Incomplete, Invalid
<1>2. \A v, n : Parsed(v, n).status = "ok" /\ Parsed(v, n).value = v /\ Parsed(v, n).next = n
  BY DEF Parsed
<1> QED BY <1>1, <1>2

\* What has arrived is not changed by what arrives after it.
LEMMA SubSeqKept ==
  ASSUME NEW b \in Bytes, NEW x \in Bytes
  PROVE  /\ b \o x \in Bytes /\ Len(b \o x) = Len(b) + Len(x) /\ Len(b) \in Nat /\ Len(x) \in Nat
         /\ \A i \in 1 .. Len(b) : (b \o x)[i] = b[i]
         /\ \A i \in 1 .. Len(b) + 2, j \in 0 .. Len(b) : SubSeq(b \o x, i, j) = SubSeq(b, i, j)
<1>1. /\ b \o x \in Bytes /\ Len(b \o x) = Len(b) + Len(x) /\ Len(b) \in Nat /\ Len(x) \in Nat
      /\ \A i \in 1 .. Len(b) : (b \o x)[i] = b[i]
  BY DEF Bytes
<1>2. ASSUME NEW i \in 1 .. Len(b) + 2, NEW j \in 0 .. Len(b)
      PROVE  SubSeq(b \o x, i, j) = SubSeq(b, i, j)
  BY <1>1, <1>2 DEF Bytes
<1> QED BY <1>1, <1>2

\* read_line stops within the input, behind the line it found.
LEMMA LineResult ==
  ASSUME NEW b \in Bytes, NEW pos \in 1 .. Len(b) + 2
  PROVE  \/ ReadLine(b, pos) = Incomplete
         \/ \E e \in pos .. Len(b) - 1 : ReadLine(b, pos) = Parsed(SubSeq(b, pos, e - 1), e + 2)
<1> DEFINE ends == {e \in pos .. Len(b) - 1 : SubSeq(b, e, e + 1) = CRLF}
<1>1. CASE ends = {}
  BY <1>1 DEF ReadLine
<1>2. CASE ends # {}
  <2> DEFINE end == CHOOSE e \in ends : \A f \in ends : e <= f
  <2>1. end \in ends
    <3>1. ends \subseteq Nat
      BY DEF Bytes
    <3> HIDE DEF ends
    <3> QED BY <1>2, <3>1, LeastNumber
  <2>2. ReadLine(b, pos) = Parsed(SubSeq(b, pos, end - 1), end + 2)
    BY <1>2 DEF ReadLine
  <2>3. end \in pos .. Len(b) - 1
    BY <2>1
  <2> HIDE DEF end
  <2> QED BY <2>2, <2>3
<1> QED BY <1>1, <1>2

\* A line that has arrived is the same line when more has.
LEMMA LineKept ==
  ASSUME NEW b \in Bytes, NEW x \in Bytes, NEW pos \in 1 .. Len(b) + 2, ReadLine(b, pos) # Incomplete
  PROVE  ReadLine(b \o x, pos) = ReadLine(b, pos)
<1> DEFINE c == b \o x
           ends == {e \in pos .. Len(b) - 1 : SubSeq(b, e, e + 1) = CRLF}
           later == {e \in pos .. Len(c) - 1 : SubSeq(c, e, e + 1) = CRLF}
<1>1. ends # {}
  BY DEF ReadLine
<1>2. /\ Len(c) = Len(b) + Len(x) /\ Len(b) \in Nat /\ Len(x) \in Nat
      /\ \A i \in 1 .. Len(b) + 2, j \in 0 .. Len(b) : SubSeq(c, i, j) = SubSeq(b, i, j)
  BY SubSeqKept
<1>3. ends \subseteq Nat /\ later \subseteq Nat
  BY <1>2
<1>4. \A e \in ends : e \in later
  <2> SUFFICES ASSUME NEW e \in ends PROVE e \in later
    OBVIOUS
  <2>1. e \in pos .. Len(b) - 1 /\ SubSeq(b, e, e + 1) = CRLF
    OBVIOUS
  <2>2. e \in 1 .. Len(b) + 2 /\ e + 1 \in 0 .. Len(b) /\ e \in pos .. Len(c) - 1
    BY <1>2, <2>1
  <2>3. SubSeq(c, e, e + 1) = SubSeq(b, e, e + 1)
    <3> HIDE DEF c
    <3> QED BY <1>2, <2>2
  <2> QED BY <2>1, <2>2, <2>3
<1>5. PICK end \in ends : \A f \in ends : end <= f
  <2> HIDE DEF ends
  <2> QED BY <1>1, <1>3, LeastNumber
<1>6. end \in pos .. Len(b) - 1 /\ end \in Nat
  BY <1>2
<1>7. ASSUME NEW f \in later PROVE end <= f
  <2>1. CASE f <= Len(b) - 1
    <3>1. f \in pos .. Len(c) - 1 /\ SubSeq(c, f, f + 1) = CRLF
      OBVIOUS
    <3>2. f \in pos .. Len(b) - 1 /\ f \in 1 .. Len(b) + 2 /\ f + 1 \in 0 .. Len(b)
      BY <1>2, <2>1, <3>1
    <3>3. SubSeq(c, f, f + 1) = SubSeq(b, f, f + 1)
      <4> HIDE DEF c
      <4> QED BY <1>2, <3>2
    <3>4. f \in ends
      BY <3>1, <3>2, <3>3
    <3> HIDE DEF ends
    <3> QED BY <1>5, <3>4
  <2>2. CASE ~(f <= Len(b) - 1)
    <3>1. f \in Nat
      BY <1>3
    <3> HIDE DEF ends, later
    <3> QED BY <1>2, <1>6, <2>2, <3>1
  <2> QED BY <2>1, <2>2
<1>8. (CHOOSE e \in ends : \A f \in ends : e <= f) = end
  <2>1. \A e \in ends : (\A f \in ends : e <= f) => e = end
    <3> HIDE DEF ends
    <3> QED BY <1>3, <1>5
  <2> HIDE DEF ends
  <2> QED BY <1>5, <2>1
<1>9. (CHOOSE e \in later : \A f \in later : e <= f) = end
  <2>1. end \in later
    BY <1>4
  <2>2. \A e \in later : (\A f \in later : e <= f) => e = end
    <3> HIDE DEF ends, later
    <3> QED BY <1>3, <1>6, <1>7, <2>1
  <2> HIDE DEF ends, later
  <2> QED BY <1>7, <2>1, <2>2
<1>10. ReadLine(b, pos) = Parsed(SubSeq(b, pos, end - 1), end + 2)
  BY <1>1, <1>8 DEF ReadLine
<1>11. ReadLine(c, pos) = Parsed(SubSeq(c, pos, end - 1), end + 2)
  <2>1. later # {}
    BY <1>4
  <2> QED BY <1>9, <2>1 DEF ReadLine
<1>12. SubSeq(c, pos, end - 1) = SubSeq(b, pos, end - 1)
  <2>1. pos \in 1 .. Len(b) + 2 /\ end - 1 \in 0 .. Len(b)
    BY <1>2, <1>6
  <2> HIDE DEF c
  <2> QED BY <1>2, <2>1
<1> QED BY <1>10, <1>11, <1>12

\* read_bulk_bytes stops within the input.
LEMMA BulkResult ==
  ASSUME NEW b \in Bytes, NEW pos \in 1 .. Len(b) + 1, NEW len \in Nat
  PROVE  ResultIn(ReadBulk(b, pos, len), pos + 2 .. Len(b) + 1)
<1>1. Len(b) \in Nat
  BY DEF Bytes
<1>2. CASE pos + len + 1 > Len(b)
  BY <1>2 DEF ReadBulk, ResultIn
<1>3. CASE ~(pos + len + 1 > Len(b))
  <2>1. pos + len + 2 \in pos + 2 .. Len(b) + 1
    BY <1>1, <1>3
  <2> QED BY <1>3, <2>1 DEF ReadBulk, ResultIn
<1> QED BY <1>2, <1>3

\* And what it makes of what has arrived does not change.
LEMMA BulkKept ==
  ASSUME NEW b \in Bytes, NEW x \in Bytes, NEW pos \in 1 .. Len(b) + 1, NEW len \in Nat,
         ReadBulk(b, pos, len) # Incomplete
  PROVE  ReadBulk(b \o x, pos, len) = ReadBulk(b, pos, len)
<1>1. /\ Len(b \o x) = Len(b) + Len(x) /\ Len(b) \in Nat /\ Len(x) \in Nat
      /\ \A i \in 1 .. Len(b) + 2, j \in 0 .. Len(b) : SubSeq(b \o x, i, j) = SubSeq(b, i, j)
  BY SubSeqKept
<1>2. ~(pos + len + 1 > Len(b))
  BY DEF ReadBulk
<1>3. ~(pos + len + 1 > Len(b \o x))
  BY <1>1, <1>2
<1>4. SubSeq(b \o x, pos + len, pos + len + 1) = SubSeq(b, pos + len, pos + len + 1)
  <2>1. pos + len \in 1 .. Len(b) + 2 /\ pos + len + 1 \in 0 .. Len(b)
    BY <1>1, <1>2
  <2> QED BY <1>1, <2>1
<1>5. SubSeq(b \o x, pos, pos + len - 1) = SubSeq(b, pos, pos + len - 1)
  <2>1. pos \in 1 .. Len(b) + 2 /\ pos + len - 1 \in 0 .. Len(b)
    BY <1>1, <1>2
  <2> QED BY <1>1, <2>1
<1>6. \A c \in Bytes : ~(pos + len + 1 > Len(c)) =>
        ReadBulk(c, pos, len) = IF SubSeq(c, pos + len, pos + len + 1) # CRLF THEN Invalid
                                ELSE Parsed(SubSeq(c, pos, pos + len - 1), pos + len + 2)
  BY <1>1 DEF ReadBulk, Bytes
<1>7. b \o x \in Bytes
  BY SubSeqKept
<1> QED BY <1>2, <1>3, <1>4, <1>5, <1>6, <1>7
-----------------------------------------------------------------------------
(***************************************************************************)
(* Numbers.                                                                *)
(***************************************************************************)

\* f is the recursion from a with step.
Recurs(f, N, a, step) == f[0] = a /\ \A n \in 1 .. N : f[n] = step[<<n, f[n - 1]>>]

\* A recursion over 0 .. N, each value made of the one before, defines a function.
LEMMA Recursion ==
  ASSUME NEW N \in Nat, NEW D, NEW a \in D, NEW step,
         \A n \in 1 .. N, d \in D : step[<<n, d>>] \in D
  PROVE  \E f \in [0 .. N -> D] : Recurs(f, N, a, step)
<1> DEFINE Partial(f, m) ==
             /\ f \in [0 .. m -> D]
             /\ \A n \in 0 .. m : f[n] = IF n = 0 THEN a ELSE step[<<n, f[n - 1]>>]
           S == {m \in 0 .. N : \E f : Partial(f, m)}
<1>1. 0 \in S
  <2> DEFINE f == [n \in 0 .. 0 |-> a]
  <2>1. Partial(f, 0)
    OBVIOUS
  <2> HIDE DEF f, Partial
  <2> QED BY <2>1
<1>2. ASSUME NEW m \in 0 .. N, m \in S, m < N PROVE m + 1 \in S
  <2>1. PICK f : Partial(f, m)
    BY <1>2
  <2> DEFINE g == [n \in 0 .. m + 1 |-> IF n = m + 1 THEN step[<<m + 1, f[m]>>] ELSE f[n]]
  <2>2. f[m] \in D /\ m + 1 \in 1 .. N
    BY <1>2, <2>1
  <2>3. step[<<m + 1, f[m]>>] \in D
    BY <2>2
  <2>4. g \in [0 .. m + 1 -> D]
    <3>1. \A n \in 0 .. m + 1 : n # m + 1 => n \in 0 .. m
      OBVIOUS
    <3> QED BY <2>1, <2>3, <3>1
  <2>5. ASSUME NEW n \in 0 .. m + 1 PROVE g[n] = IF n = 0 THEN a ELSE step[<<n, g[n - 1]>>]
    <3>1. CASE n = m + 1
      <4>1. m \in 0 .. m + 1 /\ m # m + 1 /\ n - 1 = m /\ n # 0
        BY <3>1
      <4>2. g[n] = step[<<m + 1, f[m]>>] /\ g[m] = f[m]
        BY <3>1, <4>1
      <4> HIDE DEF g
      <4> QED BY <3>1, <4>1, <4>2
    <3>2. CASE n # m + 1 /\ n # 0
      <4>1. n \in 0 .. m /\ n - 1 \in 0 .. m /\ n - 1 # m + 1 /\ n - 1 \in 0 .. m + 1
        BY <3>2
      <4>2. g[n] = f[n] /\ g[n - 1] = f[n - 1]
        BY <3>2, <4>1
      <4> HIDE DEF g
      <4> QED BY <2>1, <3>2, <4>1, <4>2
    <3>3. CASE n = 0
      <4>1. 0 \in 0 .. m + 1 /\ 0 # m + 1 /\ 0 \in 0 .. m
        OBVIOUS
      <4>2. g[0] = f[0] /\ f[0] = a
        BY <2>1, <4>1
      <4> HIDE DEF g
      <4> QED BY <3>3, <4>2
    <3> QED BY <3>1, <3>2, <3>3
  <2>6. Partial(g, m + 1)
    <3> HIDE DEF g
    <3> QED BY <2>4, <2>5
  <2>7. m + 1 \in 0 .. N
    BY <1>2
  <2> HIDE DEF g, Partial
  <2> QED BY <2>6, <2>7
<1>3. \A n \in 0 .. N : n \in S
  <2> HIDE DEF S
  <2> QED BY <1>1, <1>2, UpTo
<1>4. PICK f : Partial(f, N)
  BY <1>3
<1>5. Recurs(f, N, a, step)
  <2>1. 0 \in 0 .. N /\ \A n \in 1 .. N : n \in 0 .. N /\ n # 0
    OBVIOUS
  <2> QED BY <1>4, <2>1 DEF Recurs
<1> QED BY <1>4, <1>5

\* The value of a digit.
Digit(d) == (CHOOSE i \in 1 .. 10 : Digits[i] = d) - 1

\* What the digits of a text add up to.
IsSize(size, digits) ==
  size = [n \in 0 .. Len(digits) |-> IF n = 0 THEN 0 ELSE 10 * size[n - 1] + Digit(digits[n])]

\* The digits of a text have a size.
LEMMA SizeExists ==
  ASSUME NEW digits, Len(digits) \in Nat, \A i \in 1 .. Len(digits) : Digit(digits[i]) \in Nat
  PROVE  \E size \in [0 .. Len(digits) -> Nat] : IsSize(size, digits)
<1> DEFINE N == Len(digits)
<1>1. PICK step \in [(1 .. N) \X Nat -> Nat] :
        \A n \in 1 .. N, k \in Nat : step[<<n, k>>] = 10 * k + Digit(digits[n])
  <2> DEFINE s == [p \in (1 .. N) \X Nat |-> 10 * p[2] + Digit(digits[p[1]])]
  <2>1. ASSUME NEW p \in (1 .. N) \X Nat PROVE 10 * p[2] + Digit(digits[p[1]]) \in Nat
    <3>1. p[2] \in Nat /\ Digit(digits[p[1]]) \in Nat
      OBVIOUS
    <3> QED BY <3>1
  <2>2. s \in [(1 .. N) \X Nat -> Nat]
    BY <2>1
  <2>3. \A n \in 1 .. N, k \in Nat : s[<<n, k>>] = 10 * k + Digit(digits[n])
    OBVIOUS
  <2> HIDE DEF s
  <2> QED BY <2>2, <2>3
<1>2. PICK f \in [0 .. N -> Nat] : Recurs(f, N, 0, step)
  <2>1. N \in Nat /\ 0 \in Nat
    OBVIOUS
  <2> HIDE DEF N
  <2>2. \A n \in 1 .. N, d \in Nat : step[<<n, d>>] \in Nat
    BY <1>1
  <2> QED BY <2>1, <2>2, Recursion
<1>3. ASSUME NEW n \in 1 .. N PROVE f[n] = 10 * f[n - 1] + Digit(digits[n])
  <2>1. n - 1 \in 0 .. N
    OBVIOUS
  <2> HIDE DEF N
  <2> QED BY <1>1, <1>2, <2>1 DEF Recurs
<1>4. f = [n \in 0 .. N |-> IF n = 0 THEN 0 ELSE 10 * f[n - 1] + Digit(digits[n])]
  <2>1. ASSUME NEW n \in 0 .. N PROVE f[n] = IF n = 0 THEN 0 ELSE 10 * f[n - 1] + Digit(digits[n])
    <3>1. n = 0 \/ n \in 1 .. N
      OBVIOUS
    <3> QED BY <1>2, <1>3, <3>1 DEF Recurs
  <2> QED BY <2>1
<1> QED BY <1>4 DEF IsSize

\* Ten digits, and nothing else, are digits.
LEMMA DigitFacts ==
  ASSUME NEW d, Contains(Digits, d)
  PROVE  Digit(d) \in 0 .. 9
<1>1. Len(Digits) = 10
  BY DEF Digits
<1>2. PICK i \in 1 .. 10 : Digits[i] = d
  BY <1>1 DEF Contains
<1>3. (CHOOSE k \in 1 .. 10 : Digits[k] = d) \in 1 .. 10
  BY <1>2
<1> QED BY <1>3 DEF Digit

\* The text of a number is one: parse_i64 gives an integer.
LEMMA IntegerParsed ==
  ASSUME NEW text \in Bytes, IsInteger(text)
  PROVE  ToInteger(text) \in Int
<1> DEFINE digits == Unsigned(text)
<1>1. digits \in Bytes
  <2>1. CASE text # << >> /\ Head(text) \in {"+", "-"}
    BY <2>1 DEF Unsigned, Bytes
  <2>2. CASE ~(text # << >> /\ Head(text) \in {"+", "-"})
    <3>1. Unsigned(text) = text
      BY <2>2 DEF Unsigned
    <3> QED BY <3>1
  <2> QED BY <2>1, <2>2
<1>2. Len(digits) \in Nat
  <2> HIDE DEF digits
  <2> QED BY <1>1 DEF Bytes
<1>3. \A i \in 1 .. Len(digits) : Digit(digits[i]) \in Nat
  <2>1. \A i \in 1 .. Len(digits) : Contains(Digits, digits[i])
    BY DEF IsInteger
  <2> HIDE DEF digits
  <2> QED BY <2>1, DigitFacts
<1> DEFINE size == CHOOSE f : IsSize(f, digits)
<1>4. \E f \in [0 .. Len(digits) -> Nat] : IsSize(f, digits)
  <2> HIDE DEF digits
  <2> QED BY <1>2, <1>3, SizeExists
<1>5. IsSize(size, digits)
  <2> HIDE DEF digits
  <2> QED BY <1>4
<1>6. \A n \in 0 .. Len(digits) : size[n] \in Nat
  <2> HIDE DEF digits, size
  <2> DEFINE S == {n \in 0 .. Len(digits) : size[n] \in Nat}
  <2>1. 0 \in S
    BY <1>2, <1>5 DEF IsSize
  <2>2. ASSUME NEW n \in 0 .. Len(digits), n \in S, n < Len(digits) PROVE n + 1 \in S
    <3>1. n + 1 \in 1 .. Len(digits) /\ n + 1 # 0 /\ n + 1 - 1 = n /\ n + 1 \in 0 .. Len(digits)
      BY <1>2, <2>2
    <3>2. size[n + 1] = 10 * size[n] + Digit(digits[n + 1])
      BY <1>5, <3>1 DEF IsSize
    <3>3. size[n] \in Nat /\ Digit(digits[n + 1]) \in Nat
      BY <1>3, <2>2, <3>1
    <3> QED BY <3>1, <3>2, <3>3
  <2>3. \A n \in 0 .. Len(digits) : n \in S
    <3> HIDE DEF S
    <3> QED BY <1>2, <2>1, <2>2, UpTo
  <2> QED BY <2>3
<1>7. ToInteger(text) = IF Head(text) = "-" THEN -size[Len(digits)] ELSE size[Len(digits)]
  BY Zenon DEF ToInteger, IsSize, Digit
<1>8. size[Len(digits)] \in Nat
  <2> HIDE DEF digits, size
  <2> QED BY <1>2, <1>6
<1> HIDE DEF digits, size
<1> QED BY <1>7, <1>8


-----------------------------------------------------------------------------
(***************************************************************************)
(* Arrays.                                                                 *)
(***************************************************************************)

\* The values from first on are results that end where the input does, or before.
AllIn(values, first, last) == \A q \in first .. last : ResultIn(values[q], q + 1 .. last)

\* s is the result r, unless more is to come and it need not be exact.
Same(r, s, exact) == exact \/ r # Incomplete => s = r

\* w agrees with v from first on.
Agree(v, w, first, last, exact) == \A q \in first .. last : Same(v[q], w[q], exact)

\* The elements of an array, as ParseItems defines them.
IsItems(items, values, pos, count) ==
  items = [n \in 0 .. count |-> IF n = 0 THEN Parsed(<< >>, pos) ELSE WithItem(values, items[n - 1])]

\* They exist, whatever the values.
LEMMA ItemsExist ==
  ASSUME NEW values, NEW pos, NEW count \in Nat
  PROVE  \E items : IsItems(items, values, pos, count)
<1> DEFINE S == {m \in 0 .. count : \E f : IsItems(f, values, pos, m)}
<1>1. 0 \in S
  <2> DEFINE f == [n \in 0 .. 0 |-> Parsed(<< >>, pos)]
  <2>1. \A n \in 0 .. 0 : n = 0
    OBVIOUS
  <2>2. f = [n \in 0 .. 0 |-> IF n = 0 THEN Parsed(<< >>, pos) ELSE WithItem(values, f[n - 1])]
    BY <2>1
  <2>3. IsItems(f, values, pos, 0)
    BY <2>2 DEF IsItems
  <2> HIDE DEF f
  <2> QED BY <2>3
<1>2. ASSUME NEW m \in 0 .. count, m \in S, m < count PROVE m + 1 \in S
  <2>1. PICK f : IsItems(f, values, pos, m)
    BY <1>2
  <2>2. \A n \in 0 .. m : f[n] = IF n = 0 THEN Parsed(<< >>, pos) ELSE WithItem(values, f[n - 1])
    BY <2>1 DEF IsItems
  <2> DEFINE g == [n \in 0 .. m + 1 |-> IF n = m + 1 THEN WithItem(values, f[m]) ELSE f[n]]
  <2>3. ASSUME NEW n \in 0 .. m + 1
        PROVE  g[n] = IF n = 0 THEN Parsed(<< >>, pos) ELSE WithItem(values, g[n - 1])
    <3>1. CASE n = m + 1
      <4>1. m \in 0 .. m + 1 /\ m # m + 1 /\ n - 1 = m /\ n # 0
        BY <3>1
      <4>2. g[n] = WithItem(values, f[m]) /\ g[m] = f[m]
        BY <3>1, <4>1
      <4> HIDE DEF g
      <4> QED BY <3>1, <4>1, <4>2
    <3>2. CASE n # m + 1 /\ n # 0
      <4>1. n \in 0 .. m /\ n - 1 \in 0 .. m /\ n - 1 # m + 1 /\ n - 1 \in 0 .. m + 1
        BY <3>2
      <4>2. g[n] = f[n] /\ g[n - 1] = f[n - 1]
        BY <3>2, <4>1
      <4> HIDE DEF g
      <4> QED BY <2>2, <3>2, <4>1, <4>2
    <3>3. CASE n = 0
      <4>1. 0 \in 0 .. m + 1 /\ 0 # m + 1 /\ 0 \in 0 .. m
        OBVIOUS
      <4>2. g[0] = f[0] /\ f[0] = Parsed(<< >>, pos)
        BY <2>2, <4>1
      <4> HIDE DEF g
      <4> QED BY <3>3, <4>2
    <3> QED BY <3>1, <3>2, <3>3
  <2>4. g = [n \in 0 .. m + 1 |-> g[n]]
    OBVIOUS
  <2>5. IsItems(g, values, pos, m + 1)
    <3> HIDE DEF g
    <3> QED BY <2>3, <2>4 DEF IsItems
  <2>6. m + 1 \in 0 .. count
    BY <1>2
  <2> HIDE DEF g
  <2> QED BY <2>5, <2>6
<1>3. \A n \in 0 .. count : n \in S
  <2> HIDE DEF S
  <2> QED BY <1>1, <1>2, UpTo
<1> QED BY <1>3

\* Each element is parsed where the one before ended.
ItemByItem(items, values, pos, count) ==
  /\ items[0] = Parsed(<< >>, pos)
  /\ \A n \in 0 .. count : n < count => items[n + 1] = WithItem(values, items[n])

\* An array is made of its elements, one after the other.
LEMMA ItemsSteps ==
  ASSUME NEW values, NEW pos, NEW count \in Nat
  PROVE  \E items : ParseItems(values, pos, count) = items[count] /\ ItemByItem(items, values, pos, count)
<1> DEFINE items == CHOOSE f : IsItems(f, values, pos, count)
<1>1. IsItems(items, values, pos, count)
  BY ItemsExist
<1>2. ParseItems(values, pos, count) = items[count]
  BY Zenon DEF ParseItems, IsItems
<1> HIDE DEF items
<1>3. items[0] = Parsed(<< >>, pos)
  BY <1>1 DEF IsItems
<1>4. ASSUME NEW n \in 0 .. count, n < count PROVE items[n + 1] = WithItem(values, items[n])
  <2>1. n + 1 \in 0 .. count /\ n + 1 # 0 /\ n + 1 - 1 = n
    BY <1>4
  <2> QED BY <1>1, <2>1 DEF IsItems
<1> QED BY <1>2, <1>3, <1>4 DEF ItemByItem

\* One element more of an array.
LEMMA WithItemAgrees ==
  ASSUME NEW v, NEW w, NEW last \in Nat, NEW pos \in Nat, NEW exact \in BOOLEAN,
         AllIn(v, pos, last), Agree(v, w, pos, last, exact),
         NEW r, NEW s, ResultIn(r, pos .. last), Same(r, s, exact)
  PROVE  /\ ResultIn(WithItem(v, r), pos .. last)
         /\ Same(WithItem(v, r), WithItem(w, s), exact)
<1>1. CASE r = Incomplete \/ r = Invalid
  <2>1. r.status # "ok"
    BY <1>1, Results
  <2>2. \A u : WithItem(u, r) = r
    BY <2>1 DEF WithItem
  <2>3. ResultIn(r, pos .. last)
    OBVIOUS
  <2> QED BY <2>2, <2>3 DEF Same
<1>2. CASE \E a : \E n \in pos .. last : r = Parsed(a, n)
  <2>0. PICK n \in pos .. last : \E a : r = Parsed(a, n)
    BY <1>2
  <2>1. PICK a : r = Parsed(a, n)
    BY <2>0
  <2>2. r.status = "ok" /\ r.value = a /\ r.next = n /\ r # Incomplete /\ s = r
    BY <2>1, Results DEF Same
  <2>3. \A u : WithItem(u, r) = IF u[n].status = "ok"
                                THEN Parsed(Append(a, u[n].value), u[n].next) ELSE u[n]
    BY <2>2 DEF WithItem, Mapped
  <2>4. ResultIn(v[n], n + 1 .. last) /\ Same(v[n], w[n], exact)
    BY DEF AllIn, Agree
  <2>5. CASE v[n] = Incomplete \/ v[n] = Invalid
    <3>1. WithItem(v, r) = v[n]
      BY <2>3, <2>5, Results
    <3>2. Same(WithItem(v, r), WithItem(w, s), exact)
      BY <2>2, <2>3, <2>4, <3>1 DEF Same
    <3>3. ResultIn(v[n], pos .. last)
      BY <2>5 DEF ResultIn
    <3> QED BY <3>1, <3>2, <3>3
  <2>6. CASE \E c : \E m \in n + 1 .. last : v[n] = Parsed(c, m)
    <3>0. PICK m \in n + 1 .. last : \E c : v[n] = Parsed(c, m)
      BY <2>6
    <3>1. PICK c : v[n] = Parsed(c, m)
      BY <3>0
    <3>2. v[n].status = "ok" /\ v[n].next = m /\ v[n] # Incomplete /\ w[n] = v[n]
      BY <2>4, <3>1, Results DEF Same
    <3>3. WithItem(v, r) = Parsed(Append(a, v[n].value), m) /\ WithItem(w, s) = WithItem(v, r)
      BY <2>2, <2>3, <3>2
    <3>4. m \in pos .. last
      OBVIOUS
    <3>5. ResultIn(WithItem(v, r), pos .. last)
      BY <3>3, <3>4 DEF ResultIn
    <3> QED BY <3>3, <3>5 DEF Same
  <2> QED BY <2>4, <2>5, <2>6 DEF ResultIn
<1> QED BY <1>1, <1>2 DEF ResultIn

\* An array ends where the input does, or before, and what it is depends on
\* the values that were there.
LEMMA ItemsAgree ==
  ASSUME NEW v, NEW w, NEW last \in Nat, NEW pos \in 1 .. last, NEW count \in Nat,
         NEW exact \in BOOLEAN, AllIn(v, pos, last), Agree(v, w, pos, last, exact)
  PROVE  /\ ResultIn(ParseItems(v, pos, count), pos .. last)
         /\ Same(ParseItems(v, pos, count), ParseItems(w, pos, count), exact)
<1>1. PICK f : ParseItems(v, pos, count) = f[count] /\ ItemByItem(f, v, pos, count)
  BY ItemsSteps
<1>2. PICK g : ParseItems(w, pos, count) = g[count] /\ ItemByItem(g, w, pos, count)
  BY ItemsSteps
<1> DEFINE S == {n \in 0 .. count : ResultIn(f[n], pos .. last) /\ Same(f[n], g[n], exact)}
<1>3. 0 \in S
  <2>1. pos \in pos .. last
    OBVIOUS
  <2>2. ResultIn(f[0], pos .. last)
    BY <1>1, <2>1 DEF ResultIn, ItemByItem
  <2> QED BY <1>1, <1>2, <2>2 DEF ItemByItem, Same
<1>4. ASSUME NEW n \in 0 .. count, n \in S, n < count PROVE n + 1 \in S
  <2>1. ResultIn(f[n], pos .. last) /\ Same(f[n], g[n], exact)
    BY <1>4
  <2>2. f[n + 1] = WithItem(v, f[n]) /\ g[n + 1] = WithItem(w, g[n])
    BY <1>1, <1>2, <1>4 DEF ItemByItem
  <2>3. pos \in Nat
    OBVIOUS
  <2>4. /\ ResultIn(WithItem(v, f[n]), pos .. last)
        /\ Same(WithItem(v, f[n]), WithItem(w, g[n]), exact)
    <3> HIDE DEF S
    <3> QED BY <2>1, <2>3, WithItemAgrees
  <2>5. n + 1 \in 0 .. count
    BY <1>4
  <2> QED BY <2>2, <2>4, <2>5
<1>5. \A n \in 0 .. count : n \in S
  <2> HIDE DEF S
  <2> QED BY <1>3, <1>4, UpTo
<1>6. count \in S
  BY <1>5
<1> QED BY <1>1, <1>2, <1>6


-----------------------------------------------------------------------------
(***************************************************************************)
(* Values.                                                                 *)
(***************************************************************************)

\* A result with its value made into another one is a result.
LEMMA MappedResult ==
  ASSUME NEW r, NEW ends, ResultIn(r, ends), NEW F(_)
  PROVE  /\ ResultIn(Mapped(r, F), ends)
         /\ r = Incomplete => Mapped(r, F) = Incomplete
<1>1. CASE r = Incomplete \/ r = Invalid
  <2>1. Mapped(r, F) = r
    BY <1>1, Results DEF Mapped
  <2> QED BY <2>1
<1>2. CASE \E n \in ends : \E a : r = Parsed(a, n)
  <2>1. PICK n \in ends : \E a : r = Parsed(a, n)
    BY <1>2
  <2>2. PICK a : r = Parsed(a, n)
    BY <2>1
  <2>3. Mapped(r, F) = Parsed(F(a), n)
    BY <2>2, Results DEF Mapped
  <2> QED BY <2>2, <2>3, Results DEF ResultIn
<1> QED BY <1>1, <1>2 DEF ResultIn

\* What a line announces ends where the input does, or before, and does not
\* change when more bytes arrive.
LEMMA AfterLineAgrees ==
  ASSUME NEW b \in Bytes, NEW x \in Bytes, NEW exact \in BOOLEAN, exact => x = << >>,
         NEW v, NEW w, NEW type, NEW text \in Bytes, NEW pos \in 1 .. Len(b) + 1,
         AllIn(v, pos, Len(b) + 1), Agree(v, w, pos, Len(b) + 1, exact)
  PROVE  /\ ResultIn(AfterLine(v, b, type, text, pos), pos .. Len(b) + 1)
         /\ Same(AfterLine(v, b, type, text, pos), AfterLine(w, b \o x, type, text, pos), exact)
<1> DEFINE len == ToInteger(text)
<1>1. Len(b) \in Nat /\ pos \in pos .. Len(b) + 1
  BY DEF Bytes
<1>2. CASE \/ type \in {"+", "-"}
           \/ ~IsInteger(text)
           \/ type = ":"
           \/ len = -1
           \/ len < -1
  <2>1. AfterLine(w, b \o x, type, text, pos) = AfterLine(v, b, type, text, pos)
    BY <1>2 DEF AfterLine
  <2>2. ResultIn(AfterLine(v, b, type, text, pos), pos .. Len(b) + 1)
    BY <1>1, <1>2 DEF AfterLine, ResultIn
  <2> QED BY <2>1, <2>2 DEF Same
<1>3. CASE /\ ~(type \in {"+", "-"}) /\ IsInteger(text) /\ type # ":"
           /\ ~(len = -1) /\ ~(len < -1)
  <2>1. len \in Nat
    <3>1. len \in Int
      BY <1>3, IntegerParsed
    <3> HIDE DEF len
    <3> QED BY <1>3, <3>1
  <2>2. CASE type = "$"
    <3> DEFINE r == ReadBulk(b, pos, len)
               s == ReadBulk(b \o x, pos, len)
    <3>1. AfterLine(v, b, type, text, pos) = Mapped(r, BulkString)
      BY <1>3, <2>2 DEF AfterLine
    <3>2. AfterLine(w, b \o x, type, text, pos) = Mapped(s, BulkString)
      BY <1>3, <2>2 DEF AfterLine
    <3>3. ResultIn(r, pos + 2 .. Len(b) + 1)
      BY <2>1, BulkResult
    <3>4. ResultIn(r, pos .. Len(b) + 1)
      <4>1. \A n \in pos + 2 .. Len(b) + 1 : n \in pos .. Len(b) + 1
        BY <1>1
      <4> HIDE DEF r
      <4> QED BY <3>3, <4>1 DEF ResultIn
    <3>5. Same(r, s, exact)
      <4>1. CASE exact
        <5>1. b \o x = b
          BY <4>1 DEF Bytes
        <5> QED BY <5>1 DEF Same
      <4>2. CASE ~exact
        BY <2>1, <4>2, BulkKept DEF Same
      <4> QED BY <4>1, <4>2
    <3>6. ResultIn(Mapped(r, BulkString), pos .. Len(b) + 1)
      <4> HIDE DEF r
      <4> QED BY <3>4, MappedResult
    <3>7. r = Incomplete => Mapped(r, BulkString) = Incomplete
      BY Results DEF Mapped
    <3> HIDE DEF r, s
    <3> QED BY <3>1, <3>2, <3>5, <3>6, <3>7 DEF Same
  <2>3. CASE type # "$"
    <3> DEFINE r == ParseItems(v, pos, len)
               s == ParseItems(w, pos, len)
    <3>1. AfterLine(v, b, type, text, pos) = Mapped(r, Array)
      BY <1>3, <2>3 DEF AfterLine
    <3>2. AfterLine(w, b \o x, type, text, pos) = Mapped(s, Array)
      BY <1>3, <2>3 DEF AfterLine
    <3>3. ResultIn(r, pos .. Len(b) + 1) /\ Same(r, s, exact)
      <4>1. Len(b) + 1 \in Nat
        BY <1>1
      <4> HIDE DEF len
      <4> QED BY <2>1, <4>1, ItemsAgree
    <3>6. ResultIn(Mapped(r, Array), pos .. Len(b) + 1)
      <4> HIDE DEF r
      <4> QED BY <3>3, MappedResult
    <3>7. r = Incomplete => Mapped(r, Array) = Incomplete
      BY Results DEF Mapped
    <3> HIDE DEF r, s
    <3> QED BY <3>1, <3>2, <3>3, <3>6, <3>7 DEF Same
  <2> QED BY <2>2, <2>3
<1> QED BY <1>2, <1>3


\* A value ends where the input does, or before, and what it is depends on the
\* bytes that were there and on the values behind.
LEMMA ValueAgrees ==
  ASSUME NEW b \in Bytes, NEW x \in Bytes, NEW exact \in BOOLEAN, exact => x = << >>,
         NEW v, NEW w, NEW p \in 1 .. Len(b) + 1,
         AllIn(v, p + 1, Len(b) + 1), Agree(v, w, p + 1, Len(b) + 1, exact)
  PROVE  /\ ResultIn(ParseValue(v, b, p), p + 1 .. Len(b) + 1)
         /\ Same(ParseValue(v, b, p), ParseValue(w, b \o x, p), exact)
<1>1. /\ b \o x \in Bytes /\ Len(b \o x) = Len(b) + Len(x) /\ Len(b) \in Nat /\ Len(x) \in Nat
      /\ \A i \in 1 .. Len(b) : (b \o x)[i] = b[i]
      /\ exact => b \o x = b
  <2>1. exact => b \o x = b
    BY DEF Bytes
  <2> QED BY <2>1, SubSeqKept
<1> DEFINE line == ReadLine(b, p + 1)
           later == ReadLine(b \o x, p + 1)
<1>2. CASE p > Len(b)
  <2>1. ParseValue(v, b, p) = Incomplete
    BY <1>2 DEF ParseValue
  <2>2. exact => ParseValue(w, b \o x, p) = Incomplete
    BY <1>1, <1>2 DEF ParseValue
  <2> QED BY <2>1, <2>2 DEF ResultIn, Same
<1>3. CASE ~(p > Len(b)) /\ b[p] \notin {"+", "-", ":", "$", "*"}
  <2>1. ParseValue(v, b, p) = Invalid
    BY <1>3 DEF ParseValue
  <2>2. p \in 1 .. Len(b) /\ ~(p > Len(b \o x))
    BY <1>1, <1>3
  <2>3. ParseValue(w, b \o x, p) = Invalid
    BY <1>1, <1>3, <2>2 DEF ParseValue
  <2> QED BY <2>1, <2>3 DEF ResultIn, Same
<1>4. CASE ~(p > Len(b)) /\ b[p] \in {"+", "-", ":", "$", "*"}
  <2>1. p \in 1 .. Len(b) /\ ~(p > Len(b \o x)) /\ p + 1 \in 1 .. Len(b) + 2
    BY <1>1, <1>4
  <2>2. ParseValue(v, b, p) = IF line.status # "ok" THEN line
                              ELSE AfterLine(v, b, b[p], line.value, line.next)
    BY <1>4 DEF ParseValue
  <2>3. ParseValue(w, b \o x, p) = IF later.status # "ok" THEN later
                                   ELSE AfterLine(w, b \o x, b[p], later.value, later.next)
    BY <1>1, <1>4, <2>1 DEF ParseValue
  <2>4. Same(line, later, exact)
    <3>1. CASE exact
      BY <1>1, <3>1 DEF Same
    <3>2. CASE ~exact
      BY <2>1, <3>2, LineKept DEF Same
    <3> QED BY <3>1, <3>2
  <2>5. \/ line = Incomplete
        \/ \E e \in p + 1 .. Len(b) - 1 : line = Parsed(SubSeq(b, p + 1, e - 1), e + 2)
    BY <2>1, LineResult
  <2>6. CASE line = Incomplete
    <3> HIDE DEF line, later
    <3>1. ParseValue(v, b, p) = Incomplete
      BY <2>2, <2>6, Results
    <3>2. exact => ParseValue(w, b \o x, p) = Incomplete
      BY <2>3, <2>4, <2>6, Results DEF Same
    <3> QED BY <3>1, <3>2 DEF ResultIn, Same
  <2>7. CASE \E e \in p + 1 .. Len(b) - 1 : line = Parsed(SubSeq(b, p + 1, e - 1), e + 2)
    <3> HIDE DEF line, later
    <3>1. PICK e \in p + 1 .. Len(b) - 1 : line = Parsed(SubSeq(b, p + 1, e - 1), e + 2)
      BY <2>7
    <3> DEFINE text == SubSeq(b, p + 1, e - 1)
               next == e + 2
    <3>2. line.status = "ok" /\ line.value = text /\ line.next = next /\ later = line
      BY <2>4, <3>1, Results DEF Same
    <3>3. text \in Bytes
      BY <1>1, <2>1 DEF Bytes
    <3>4. next \in 1 .. Len(b) + 1 /\ next \in p + 1 .. Len(b) + 1
      BY <1>1, <2>1
    <3>5. AllIn(v, next, Len(b) + 1) /\ Agree(v, w, next, Len(b) + 1, exact)
      <4>1. \A q \in next .. Len(b) + 1 : q \in p + 1 .. Len(b) + 1
        BY <1>1, <2>1
      <4> HIDE DEF next
      <4> QED BY <4>1 DEF AllIn, Agree
    <3> HIDE DEF text, next
    <3>6. /\ ResultIn(AfterLine(v, b, b[p], text, next), next .. Len(b) + 1)
          /\ Same(AfterLine(v, b, b[p], text, next), AfterLine(w, b \o x, b[p], text, next), exact)
      BY <3>3, <3>4, <3>5, AfterLineAgrees
    <3>7. ResultIn(AfterLine(v, b, b[p], text, next), p + 1 .. Len(b) + 1)
      <4>1. \A q \in next .. Len(b) + 1 : q \in p + 1 .. Len(b) + 1
        BY <1>1, <2>1, <3>4
      <4> QED BY <3>6, <4>1 DEF ResultIn
    <3> QED BY <2>2, <2>3, <3>2, <3>6, <3>7
  <2> QED BY <2>5, <2>6, <2>7
<1> QED BY <1>2, <1>3, <1>4

-----------------------------------------------------------------------------
(***************************************************************************)
(* The whole parser.                                                       *)
(***************************************************************************)

\* The values of all positions, as ParseResp defines them.
IsValues(values, input) ==
  values = [pos \in 1 .. Len(input) + 1 |-> ParseValue(values, input, pos)]

\* The values from a position on, each parsed with those behind it.
ValuesFrom(values, input, first) ==
  \A q \in first .. Len(input) + 1 : values[q] = ParseValue(values, input, q)

\* Values that are parsed end where the input does, or before.
LEMMA ValuesBounded ==
  ASSUME NEW b \in Bytes, NEW v, NEW first \in 1 .. Len(b) + 2, ValuesFrom(v, b, first)
  PROVE  AllIn(v, first, Len(b) + 1)
<1> DEFINE S == {q \in 1 .. Len(b) + 1 : q >= first => ResultIn(v[q], q + 1 .. Len(b) + 1)}
<1>1. Len(b) \in Nat
  BY DEF Bytes
<1>2. ASSUME NEW p \in 1 .. Len(b) + 1, \A q \in p + 1 .. Len(b) + 1 : q \in S PROVE p \in S
  <2> SUFFICES ASSUME p >= first PROVE ResultIn(v[p], p + 1 .. Len(b) + 1)
    OBVIOUS
  <2>1. AllIn(v, p + 1, Len(b) + 1)
    <3>1. ASSUME NEW q \in p + 1 .. Len(b) + 1 PROVE ResultIn(v[q], q + 1 .. Len(b) + 1)
      <4>1. q \in S /\ q >= first
        BY <1>1, <1>2
      <4> QED BY <4>1
    <3> QED BY <3>1 DEF AllIn
  <2>2. Agree(v, v, p + 1, Len(b) + 1, TRUE)
    BY DEF Agree, Same
  <2>3. << >> \in Bytes /\ TRUE \in BOOLEAN
    BY DEF Bytes
  <2>4. ResultIn(ParseValue(v, b, p), p + 1 .. Len(b) + 1)
    <3> HIDE DEF S
    <3> QED BY <2>1, <2>2, <2>3, ValueAgrees
  <2>5. p \in first .. Len(b) + 1
    BY <1>1
  <2> QED BY <2>4, <2>5 DEF ValuesFrom
<1>3. \A p \in 1 .. Len(b) + 1 : p \in S
  <2> HIDE DEF S
  <2> QED BY <1>1, <1>2, DownTo
<1>4. ASSUME NEW q \in first .. Len(b) + 1 PROVE ResultIn(v[q], q + 1 .. Len(b) + 1)
  <2>1. q \in 1 .. Len(b) + 1 /\ q >= first
    BY <1>1
  <2> QED BY <1>3, <2>1
<1> QED BY <1>4 DEF AllIn

\* The parser is well defined: a value needs those behind it only.
LEMMA ValuesExist ==
  ASSUME NEW b \in Bytes
  PROVE  \E values : IsValues(values, b)
<1> DEFINE last == Len(b) + 1
           S == {p \in 1 .. last : \E v : v = [q \in p .. last |-> ParseValue(v, b, q)]}
<1>1. Len(b) \in Nat /\ << >> \in Bytes /\ TRUE \in BOOLEAN /\ b \o << >> = b
  BY DEF Bytes
<1>2. ASSUME NEW p \in 1 .. last, \A q \in p + 1 .. last : q \in S PROVE p \in S
  <2>1. PICK v : v = [q \in p + 1 .. last |-> ParseValue(v, b, q)]
    <3>1. CASE p = last
      <4>1. \A q : q \notin p + 1 .. last
        BY <1>1, <3>1
      <4> DEFINE v == [q \in p + 1 .. last |-> q]
      <4>2. v = [q \in p + 1 .. last |-> ParseValue(v, b, q)]
        BY <4>1
      <4> QED BY <4>2
    <3>2. CASE p # last
      <4>1. p + 1 \in p + 1 .. last
        BY <1>1, <3>2
      <4>2. p + 1 \in S
        BY <1>2, <4>1
      <4> QED BY <4>2
    <3> QED BY <3>1, <3>2
  <2>2. \A q \in p + 1 .. last : v[q] = ParseValue(v, b, q)
    BY <2>1
  <2> DEFINE w == [q \in p .. last |-> IF q = p THEN ParseValue(v, b, p) ELSE v[q]]
  <2>3. \A q \in p + 1 .. last : q \in p .. last /\ q # p /\ w[q] = v[q]
    BY <1>1
  <2>4. p \in p .. last /\ w[p] = ParseValue(v, b, p)
    BY <1>1
  <2> HIDE DEF w
  <2>5. AllIn(v, p + 1, last)
    <3>1. p + 1 \in 1 .. Len(b) + 2 /\ ValuesFrom(v, b, p + 1)
      BY <1>1, <2>2 DEF ValuesFrom
    <3> QED BY <3>1, ValuesBounded
  <2>6. ASSUME NEW q \in p .. last PROVE ParseValue(w, b, q) = ParseValue(v, b, q)
    <3>1. q \in 1 .. Len(b) + 1 /\ \A r \in q + 1 .. last : r \in p + 1 .. last
      BY <1>1
    <3>2. AllIn(v, q + 1, last) /\ Agree(v, w, q + 1, last, TRUE)
      BY <2>3, <2>5, <3>1 DEF AllIn, Agree, Same
    <3>3. Same(ParseValue(v, b, q), ParseValue(w, b \o << >>, q), TRUE)
      BY <1>1, <3>1, <3>2, ValueAgrees
    <3> QED BY <1>1, <3>3 DEF Same
  <2>7. ASSUME NEW q \in p .. last PROVE w[q] = ParseValue(w, b, q)
    <3>1. q = p \/ q \in p + 1 .. last
      BY <1>1
    <3> QED BY <2>2, <2>3, <2>4, <2>6, <3>1
  <2>8. w = [q \in p .. last |-> w[q]]
    BY DEF w
  <2>9. w = [q \in p .. last |-> ParseValue(w, b, q)]
    BY <2>7, <2>8
  <2> QED BY <2>9
<1>3. \A p \in 1 .. last : p \in S
  <2> HIDE DEF S
  <2> QED BY <1>1, <1>2, DownTo
<1>4. 1 \in S
  BY <1>1, <1>3
<1> QED BY <1>4 DEF IsValues

\* What the parser returns is the value of the first position.
LEMMA ParsedValue ==
  ASSUME NEW b \in Bytes
  PROVE  \E values : ValuesFrom(values, b, 1) /\ ParseResp(b) = values[1]
<1> DEFINE values == CHOOSE v : IsValues(v, b)
<1>1. IsValues(values, b)
  BY ValuesExist
<1>2. ParseResp(b) = values[1]
  BY Zenon DEF ParseResp, IsValues
<1>3. ValuesFrom(values, b, 1)
  <2> HIDE DEF values
  <2> QED BY <1>1 DEF IsValues, ValuesFrom
<1> QED BY <1>2, <1>3

\* No bytes are no frame yet.
LEMMA NothingYet == ParseResp(<< >>) = Incomplete
<1>1. << >> \in Bytes /\ Len(<< >>) = 0 /\ 1 \in 1 .. 0 + 1 /\ 1 > 0
  BY DEF Bytes
<1>2. PICK v : ValuesFrom(v, << >>, 1) /\ ParseResp(<< >>) = v[1]
  BY <1>1, ParsedValue
<1>3. v[1] = ParseValue(v, << >>, 1)
  BY <1>1, <1>2 DEF ValuesFrom
<1> QED BY <1>1, <1>2, <1>3 DEF ParseValue

\* A value never ends behind the bytes it was parsed from: read_value may cut it
\* off the buffer (parse_resp, split_to).
THEOREM ParseBounded ==
  ASSUME NEW b \in Bytes
  PROVE  ResultIn(ParseResp(b), 2 .. Len(b) + 1)
<1>1. PICK v : ValuesFrom(v, b, 1) /\ ParseResp(b) = v[1]
  BY ParsedValue
<1>2. 1 \in 1 .. Len(b) + 2 /\ 1 \in 1 .. Len(b) + 1 /\ 1 + 1 = 2
  BY DEF Bytes
<1>3. AllIn(v, 1, Len(b) + 1)
  BY <1>1, <1>2, ValuesBounded
<1> QED BY <1>1, <1>2, <1>3 DEF AllIn

\* A request that was found, or a protocol error, is not changed by the bytes
\* that arrive behind it: however the stream is cut into reads, the parser sees
\* the same requests (parse_resp returns Incomplete until it can tell).
THEOREM ParseKept ==
  ASSUME NEW b \in Bytes, NEW x \in Bytes, ParseResp(b) # Incomplete
  PROVE  ParseResp(b \o x) = ParseResp(b)
<1>1. PICK v : ValuesFrom(v, b, 1) /\ ParseResp(b) = v[1]
  BY ParsedValue
<1>2. /\ b \o x \in Bytes /\ Len(b \o x) = Len(b) + Len(x) /\ Len(b) \in Nat /\ Len(x) \in Nat
  BY SubSeqKept
<1>3. PICK w : ValuesFrom(w, b \o x, 1) /\ ParseResp(b \o x) = w[1]
  BY <1>2, ParsedValue
<1>4. AllIn(v, 1, Len(b) + 1)
  <2>1. 1 \in 1 .. Len(b) + 2
    BY <1>2
  <2> QED BY <1>1, <2>1, ValuesBounded
<1> DEFINE S == {p \in 1 .. Len(b) + 1 : Same(v[p], w[p], FALSE)}
<1>5. ASSUME NEW p \in 1 .. Len(b) + 1, \A q \in p + 1 .. Len(b) + 1 : q \in S PROVE p \in S
  <2>1. Agree(v, w, p + 1, Len(b) + 1, FALSE)
    BY <1>5 DEF Agree
  <2>2. AllIn(v, p + 1, Len(b) + 1)
    <3>1. \A q \in p + 1 .. Len(b) + 1 : q \in 1 .. Len(b) + 1
      BY <1>2
    <3> QED BY <1>4, <3>1 DEF AllIn
  <2>3. Same(ParseValue(v, b, p), ParseValue(w, b \o x, p), FALSE)
    <3> HIDE DEF S
    <3> QED BY <2>1, <2>2, ValueAgrees
  <2>4. p \in 1 .. Len(b \o x) + 1
    BY <1>2
  <2>5. v[p] = ParseValue(v, b, p) /\ w[p] = ParseValue(w, b \o x, p)
    BY <1>1, <1>3, <2>4 DEF ValuesFrom
  <2> QED BY <2>3, <2>5
<1>6. \A p \in 1 .. Len(b) + 1 : p \in S
  <2> HIDE DEF S
  <2> QED BY <1>2, <1>5, DownTo
<1>7. 1 \in S
  <2>1. 1 \in 1 .. Len(b) + 1
    BY <1>2
  <2> HIDE DEF S
  <2> QED BY <1>6, <2>1
<1> QED BY <1>1, <1>3, <1>7 DEF Same

-----------------------------------------------------------------------------
(***************************************************************************)
(* Bytes one after the other.                                              *)
(***************************************************************************)

\* Bytes that are joined are bytes.
LEMMA Joined ==
  ASSUME NEW a \in Bytes, NEW b \in Bytes
  PROVE  /\ a \o b \in Bytes /\ Len(a \o b) = Len(a) + Len(b) /\ Len(a) \in Nat /\ Len(b) \in Nat
         /\ a \o << >> = a /\ << >> \o a = a /\ << >> \in Bytes
<1>1. /\ a \o b \in Bytes /\ Len(a \o b) = Len(a) + Len(b) /\ Len(a) \in Nat /\ Len(b) \in Nat
  BY DEF Bytes
<1>2. a \o << >> = a /\ << >> \o a = a /\ << >> \in Bytes
  BY DEF Bytes
<1> QED BY <1>1, <1>2

\* What is joined to the same is the same.
LEMMA JoinCancelled ==
  ASSUME NEW a \in Bytes, NEW b \in Bytes, NEW c \in Bytes, a \o b = a \o c
  PROVE  b = c
BY ConcatSimplifications DEF Bytes

\* It does not matter which are joined first.
LEMMA JoinedThree ==
  ASSUME NEW a \in Bytes, NEW b \in Bytes, NEW c \in Bytes
  PROVE  (a \o b) \o c = a \o (b \o c)
BY ConcatAssociative DEF Bytes

\* Bytes can be cut anywhere.
LEMMA CutAnywhere ==
  ASSUME NEW a \in Bytes, NEW n \in 0 .. Len(a)
  PROVE  /\ SubSeq(a, 1, n) \in Bytes /\ Len(SubSeq(a, 1, n)) = n
         /\ SubSeq(a, n + 1, Len(a)) \in Bytes /\ Len(SubSeq(a, n + 1, Len(a))) = Len(a) - n
         /\ SubSeq(a, 1, n) \o SubSeq(a, n + 1, Len(a)) = a
<1> DEFINE front == SubSeq(a, 1, n)
           back == SubSeq(a, n + 1, Len(a))
<1>1. Len(a) \in Nat /\ n \in Int
  BY DEF Bytes
<1>2. front \in Bytes /\ Len(front) = n /\ \A i \in 1 .. n : front[i] = a[i]
  BY <1>1 DEF Bytes
<1>3. back \in Bytes /\ Len(back) = Len(a) - n /\ \A i \in 1 .. Len(a) - n : back[i] = a[n + i]
  BY <1>1 DEF Bytes
<1>4. front \o back = a
  <2> HIDE DEF front, back
  <2>1. front \o back \in Bytes /\ Len(front \o back) = Len(a)
    <3>1. front \o back \in Bytes /\ Len(front \o back) = Len(front) + Len(back)
      BY <1>2, <1>3, Joined
    <3>2. n + (Len(a) - n) = Len(a)
      BY <1>1
    <3> QED BY <1>2, <1>3, <3>1, <3>2
  <2>2. ASSUME NEW i \in 1 .. Len(a) PROVE (front \o back)[i] = a[i]
    <3>1. CASE i <= n
      BY <1>1, <1>2, <1>3, <3>1 DEF Bytes
    <3>2. CASE ~(i <= n)
      <4>1. i - n \in 1 .. Len(a) - n /\ n + (i - n) = i
        BY <1>1, <3>2
      <4>2. (front \o back)[i] = back[i - n]
        BY <1>1, <1>2, <1>3, <3>2, <4>1 DEF Bytes
      <4> QED BY <1>3, <4>1, <4>2
    <3> QED BY <3>1, <3>2
  <2> QED BY <2>1, <2>2, SeqEqual DEF Bytes
<1> QED BY <1>2, <1>3, <1>4

\* The bytes c begin with a.
Begins(a, c) == \E e \in Bytes : c = a \o e

\* Of two beginnings of the same bytes the longer begins with the shorter.
LEMMA BeginningsNest ==
  ASSUME NEW a \in Bytes, NEW b \in Bytes, NEW c \in Bytes, NEW d \in Bytes,
         a \o b = c \o d, Len(a) <= Len(c)
  PROVE  /\ a = SubSeq(c, 1, Len(a))
         /\ Begins(a, c)
<1>1. Len(a) \in 0 .. Len(c) /\ Len(c) \in Nat /\ Len(a) \in Nat
  BY DEF Bytes
<1> DEFINE e == SubSeq(c, Len(a) + 1, Len(c))
<1>2. SubSeq(c, 1, Len(a)) = a
  <2>1. SubSeq(c, 1, Len(a)) \in Bytes /\ Len(SubSeq(c, 1, Len(a))) = Len(a)
    BY <1>1, CutAnywhere
  <2>2. ASSUME NEW i \in 1 .. Len(a) PROVE SubSeq(c, 1, Len(a))[i] = a[i]
    <3>1. SubSeq(c, 1, Len(a))[i] = c[i]
      BY <1>1 DEF Bytes
    <3>2. (a \o b)[i] = a[i]
      BY <1>1 DEF Bytes
    <3>3. (c \o d)[i] = c[i]
      BY <1>1 DEF Bytes
    <3> QED BY <3>1, <3>2, <3>3
  <2> QED BY <2>1, <2>2, SeqEqual DEF Bytes
<1>3. e \in Bytes /\ Len(e) = Len(c) - Len(a) /\ SubSeq(c, 1, Len(a)) \o e = c
  BY <1>1, CutAnywhere
<1>4. Begins(a, c)
  <2> HIDE DEF e
  <2> QED BY <1>2, <1>3 DEF Begins
<1> QED BY <1>2, <1>4

-----------------------------------------------------------------------------
(***************************************************************************)
(* Pieces one after the other.                                             *)
(***************************************************************************)

\* g[n] is what the first n of the pieces make.
Gathers(g, pieces) == g[0] = << >> /\ \A n \in 1 .. Len(pieces) : g[n] = g[n - 1] \o pieces[n]

\* FlattenSeq's own function.
IsFlat(f, pieces) ==
  f = [i \in 1 .. Len(pieces) |-> IF i = 1 THEN pieces[i] ELSE f[i - 1] \o pieces[i]]

\* FlattenSeq gathers its pieces.
LEMMA Flattened ==
  ASSUME NEW pieces \in Seq(Bytes)
  PROVE  \E g \in [0 .. Len(pieces) -> Bytes] :
           Gathers(g, pieces) /\ FlattenSeq(pieces) = g[Len(pieces)]
<1> DEFINE N == Len(pieces)
<1>1. N \in Nat /\ \A i \in 1 .. N : pieces[i] \in Bytes
  BY ElementOfSeq
<1>2. PICK g \in [0 .. N -> Bytes] : Gathers(g, pieces)
  <2> DEFINE step == [p \in (1 .. N) \X Bytes |-> p[2] \o pieces[p[1]]]
  <2>1. \A n \in 1 .. N, d \in Bytes : step[<<n, d>>] = d \o pieces[n]
    OBVIOUS
  <2> HIDE DEF step
  <2>2. ASSUME NEW n \in 1 .. N, NEW d \in Bytes PROVE step[<<n, d>>] \in Bytes
    <3>1. d \o pieces[n] \in Bytes
      BY <1>1, Joined
    <3> QED BY <2>1, <3>1
  <2>3. << >> \in Bytes
    BY DEF Bytes
  <2>4. PICK g \in [0 .. N -> Bytes] : Recurs(g, N, << >>, step)
    BY <1>1, <2>2, <2>3, Recursion
  <2>5. g[0] = << >>
    BY <2>4 DEF Recurs
  <2>6. ASSUME NEW n \in 1 .. N PROVE g[n] = g[n - 1] \o pieces[n]
    <3>1. n - 1 \in 0 .. N
      BY <1>1
    <3>2. g[n - 1] \in Bytes
      BY <3>1
    <3> QED BY <2>1, <2>4, <3>2 DEF Recurs
  <2> QED BY <2>5, <2>6 DEF Gathers
<1>3. CASE N = 0
  <2>1. FlattenSeq(pieces) = pieces /\ pieces = << >>
    BY <1>3 DEF FlattenSeq
  <2> QED BY <1>2, <1>3, <2>1 DEF Gathers
<1>4. CASE N # 0
  <2> DEFINE f == CHOOSE h : IsFlat(h, pieces)
  <2>1. FlattenSeq(pieces) = f[N]
    BY <1>4, Zenon DEF FlattenSeq, IsFlat
  <2>2. \E h : IsFlat(h, pieces)
    <3> DEFINE h == [i \in 1 .. N |-> g[i]]
    <3>1. ASSUME NEW i \in 1 .. N PROVE h[i] = IF i = 1 THEN pieces[i] ELSE h[i - 1] \o pieces[i]
      <4>1. CASE i = 1
        <5>1. h[1] = g[0] \o pieces[1] /\ g[0] = << >> /\ pieces[1] \in Bytes
          BY <1>1, <1>2, <4>1 DEF Gathers
        <5> QED BY <4>1, <5>1, Joined
      <4>2. CASE i # 1
        <5>1. i - 1 \in 1 .. N
          BY <4>2
        <5> QED BY <1>2, <4>2, <5>1 DEF Gathers
      <4> QED BY <4>1, <4>2
    <3>2. h = [i \in 1 .. N |-> h[i]]
      OBVIOUS
    <3>3. IsFlat(h, pieces)
      <4> HIDE DEF h
      <4> QED BY <3>1, <3>2 DEF IsFlat
    <3> HIDE DEF h
    <3> QED BY <3>3
  <2>3. IsFlat(f, pieces)
    BY <2>2
  <2> HIDE DEF f
  <2>4. \A i \in 1 .. N : f[i] = IF i = 1 THEN pieces[i] ELSE f[i - 1] \o pieces[i]
    BY <2>3 DEF IsFlat
  <2> DEFINE S == {n \in 0 .. N : n # 0 => f[n] = g[n]}
  <2>5. 0 \in S
    BY <1>1
  <2>6. ASSUME NEW n \in 0 .. N, n \in S, n < N PROVE n + 1 \in S
    <3>1. n + 1 \in 1 .. N /\ n + 1 - 1 = n /\ n + 1 \in 0 .. N
      BY <1>1, <2>6
    <3>2. g[n + 1] = g[n] \o pieces[n + 1]
      BY <1>2, <3>1 DEF Gathers
    <3>3. CASE n = 0
      <4>0. 1 \in 1 .. N
        BY <3>1, <3>3
      <4>1. g[1] = g[1 - 1] \o pieces[1] /\ g[0] = << >> /\ 1 - 1 = 0
        BY <1>2, <4>0 DEF Gathers
      <4>2. f[1] = pieces[1] /\ pieces[1] \in Bytes
        BY <1>1, <2>4, <4>0
      <4>3. << >> \o pieces[1] = pieces[1]
        BY <4>2, Joined
      <4>4. g[1] = g[0] \o pieces[1]
        BY <4>1
      <4>5. g[1] = f[1]
        BY <4>1, <4>2, <4>3, <4>4
      <4> QED BY <3>1, <3>3, <4>5
    <3>4. CASE n # 0
      <4>1. f[n + 1] = f[n] \o pieces[n + 1] /\ f[n] = g[n]
        BY <2>4, <2>6, <3>1, <3>4
      <4> QED BY <3>1, <3>2, <4>1
    <3> QED BY <3>3, <3>4
  <2>7. \A n \in 0 .. N : n \in S
    <3> HIDE DEF S, N
    <3> QED BY <1>1, <2>5, <2>6, UpTo
  <2>8. f[N] = g[N]
    BY <1>1, <1>4, <2>7
  <2> QED BY <1>2, <2>1, <2>8
<1> QED BY <1>3, <1>4

\* Pieces make bytes, none make none, and one more piece comes behind the others.
LEMMA OneMorePiece ==
  ASSUME NEW pieces \in Seq(Bytes), NEW piece \in Bytes
  PROVE  /\ FlattenSeq(pieces) \in Bytes
         /\ FlattenSeq(Append(pieces, piece)) = FlattenSeq(pieces) \o piece
<1> DEFINE more == Append(pieces, piece)
           N == Len(pieces)
<1>1. /\ more \in Seq(Bytes) /\ Len(more) = N + 1 /\ N \in Nat
      /\ \A i \in 1 .. N : more[i] = pieces[i]
      /\ more[N + 1] = piece
  BY AppendProperties
<1>2. PICK g \in [0 .. N -> Bytes] : Gathers(g, pieces) /\ FlattenSeq(pieces) = g[N]
  BY Flattened
<1>3. PICK k \in [0 .. Len(more) -> Bytes] : Gathers(k, more) /\ FlattenSeq(more) = k[Len(more)]
  <2> HIDE DEF more
  <2> QED BY <1>1, Flattened
<1> HIDE DEF more
<1> DEFINE S == {n \in 0 .. N : k[n] = g[n]}
<1>4. 0 \in S
  BY <1>1, <1>2, <1>3 DEF Gathers
<1>5. ASSUME NEW n \in 0 .. N, n \in S, n < N PROVE n + 1 \in S
  <2>1. n + 1 \in 1 .. N /\ n + 1 \in 1 .. Len(more) /\ n + 1 - 1 = n /\ n + 1 \in 0 .. N
    BY <1>1, <1>5
  <2>2. g[n + 1] = g[n] \o pieces[n + 1] /\ k[n + 1] = k[n] \o more[n + 1]
    BY <1>2, <1>3, <2>1 DEF Gathers
  <2> QED BY <1>1, <1>5, <2>1, <2>2
<1>6. \A n \in 0 .. N : n \in S
  <2> HIDE DEF S, N
  <2> QED BY <1>1, <1>4, <1>5, UpTo
<1>7. k[N] = g[N] /\ N + 1 \in 1 .. Len(more) /\ N + 1 - 1 = N /\ g[N] \in Bytes
  BY <1>1, <1>2, <1>6
<1>8. k[N + 1] = k[N] \o piece
  <2>1. k[N + 1] = k[N + 1 - 1] \o more[N + 1]
    BY <1>3, <1>7 DEF Gathers
  <2> QED BY <1>1, <1>7, <2>1
<1> QED BY <1>1, <1>2, <1>3, <1>7, <1>8 DEF more

\* What comes behind the first n pieces is the next one.
LEMMA NextPiece ==
  ASSUME NEW pieces \in Seq(Bytes), NEW n \in 0 .. Len(pieces), n < Len(pieces)
  PROVE  \E y \in Bytes :
           FlattenSeq(pieces) = FlattenSeq(SubSeq(pieces, 1, n)) \o (pieces[n + 1] \o y)
<1> DEFINE N == Len(pieces)
           first(m) == SubSeq(pieces, 1, m)
           start == FlattenSeq(first(n))
           next == pieces[n + 1]
           S == {m \in 0 .. N : m > n => \E y \in Bytes : FlattenSeq(first(m)) = start \o (next \o y)}
<1>1. N \in Nat /\ next \in Bytes /\ \A i \in 1 .. N : pieces[i] \in Bytes
  BY ElementOfSeq
<1>2. \A m \in 0 .. N : first(m) \in Seq(Bytes)
  BY <1>1
<1>3. start \in Bytes
  <2>1. first(n) \in Seq(Bytes)
    BY <1>1
  <2> HIDE DEF first
  <2> QED BY <1>1, <2>1, OneMorePiece
<1>4. 0 \in S
  <2>1. ~(0 > n) /\ 0 \in 0 .. N
    BY <1>1
  <2> QED BY <2>1
<1>5. ASSUME NEW m \in 0 .. N, m \in S, m < N PROVE m + 1 \in S
  <2>1. m + 1 \in 0 .. N /\ m + 1 \in 1 .. N
    BY <1>1, <1>5
  <2>2. first(m + 1) = Append(first(m), pieces[m + 1])
    BY <1>1, <2>1
  <2>3. FlattenSeq(first(m + 1)) = FlattenSeq(first(m)) \o pieces[m + 1]
    <3> HIDE DEF first
    <3> QED BY <1>1, <1>2, <2>1, <2>2, OneMorePiece
  <2>4. pieces[m + 1] \in Bytes
    BY <1>1, <2>1
  <2>5. CASE m > n
    <3>1. PICK y \in Bytes : FlattenSeq(first(m)) = start \o (next \o y)
      BY <1>5, <2>5
    <3> HIDE DEF first, start, next
    <3>2. (start \o (next \o y)) \o pieces[m + 1] = start \o (next \o (y \o pieces[m + 1]))
      <4>1. next \o y \in Bytes
        BY <1>1, Joined
      <4>2. (next \o y) \o pieces[m + 1] = next \o (y \o pieces[m + 1])
        BY <1>1, <2>4, JoinedThree
      <4>3. (start \o (next \o y)) \o pieces[m + 1] = start \o ((next \o y) \o pieces[m + 1])
        BY <1>3, <2>4, <4>1, JoinedThree
      <4> QED BY <4>2, <4>3
    <3>3. y \o pieces[m + 1] \in Bytes
      BY <2>4, Joined
    <3>4. \E z \in Bytes : FlattenSeq(first(m + 1)) = start \o (next \o z)
      BY <2>3, <3>1, <3>2, <3>3
    <3> QED BY <2>1, <3>4
  <2>6. CASE m = n
    <3>1. << >> \in Bytes /\ next \o << >> = next
      BY <1>1, Joined
    <3>2. FlattenSeq(first(m + 1)) = start \o (next \o << >>)
      BY <2>3, <2>6, <3>1
    <3>3. \E z \in Bytes : FlattenSeq(first(m + 1)) = start \o (next \o z)
      <4> HIDE DEF first, start, next
      <4> QED BY <3>1, <3>2
    <3> QED BY <2>1, <3>3
  <2>7. CASE m < n
    <3>1. ~(m + 1 > n)
      BY <1>1, <2>7
    <3> QED BY <2>1, <3>1
  <2>8. m \in Int /\ n \in Int
    OBVIOUS
  <2> HIDE DEF S
  <2> QED BY <2>5, <2>6, <2>7, <2>8
<1>6. \A m \in 0 .. N : m \in S
  <2> HIDE DEF S, N
  <2> QED BY <1>1, <1>4, <1>5, UpTo
<1>7. N \in S /\ N > n
  <2>1. N \in 0 .. N
    BY <1>1
  <2> HIDE DEF S
  <2> QED BY <1>6, <2>1
<1>8. first(N) = pieces
  BY SubSeqFull
<1> QED BY <1>7, <1>8

-----------------------------------------------------------------------------
(***************************************************************************)
(* Numbers that were written are read back.                                *)
(***************************************************************************)

\* A text of digits, as parse_i64 takes it behind the sign.
DigitText(t) == t \in Bytes /\ \A i \in 1 .. Len(t) : Contains(Digits, t[i])

\* The number its digits add up to.
Amount(t) == (CHOOSE size : IsSize(size, t))[Len(t)]

\* The digit of n.
LEMMA DigitOf ==
  ASSUME NEW n \in 0 .. 9
  PROVE  /\ Contains(Digits, Digits[n + 1]) /\ Digit(Digits[n + 1]) = n
         /\ Digits[n + 1] \in Byte /\ Digits[n + 1] \notin {"CR", "LF", "+", "-"}
<1>1. /\ Digits[1] = "0" /\ Digits[2] = "1" /\ Digits[3] = "2" /\ Digits[4] = "3" /\ Digits[5] = "4"
      /\ Digits[6] = "5" /\ Digits[7] = "6" /\ Digits[8] = "7" /\ Digits[9] = "8" /\ Digits[10] = "9"
      /\ Len(Digits) = 10
  BY DEF Digits
<1>2. n + 1 \in 1 .. 10
  OBVIOUS
<1>3. \A i, j \in 1 .. 10 : Digits[i] = Digits[j] => i = j
  <2> SUFFICES ASSUME NEW i \in 1 .. 10, NEW j \in 1 .. 10, Digits[i] = Digits[j] PROVE i = j
    OBVIOUS
  <2>1. CASE i \in {1, 2, 3, 4, 5}
    BY <1>1, <2>1
  <2>2. CASE i \in {6, 7, 8, 9, 10}
    BY <1>1, <2>2
  <2> QED BY <2>1, <2>2
<1>4. Contains(Digits, Digits[n + 1])
  BY <1>1, <1>2 DEF Contains
<1>5. Digit(Digits[n + 1]) = n
  <2> SUFFICES ASSUME NEW c, c = Digits[n + 1] PROVE Digit(c) = n
    OBVIOUS
  <2> DEFINE k == CHOOSE i \in 1 .. 10 : Digits[i] = c
  <2>1. k = n + 1
    <3>1. \A i \in 1 .. 10 : Digits[i] = c => i = n + 1
      BY <1>2, <1>3
    <3> QED BY <1>2, <3>1
  <2>2. Digit(c) = k - 1
    BY DEF Digit
  <2> HIDE DEF k
  <2> QED BY <2>1, <2>2
<1>6. Digits[n + 1] \in Byte /\ Digits[n + 1] \notin {"CR", "LF", "+", "-"}
  <2>1. Digits[n + 1] \in Byte
    BY <1>2, RespAssumption
  <2>2. CASE n \in {0, 1, 2, 3, 4}
    BY <1>1, <2>1, <2>2
  <2>3. CASE n \in {5, 6, 7, 8, 9}
    BY <1>1, <2>1, <2>3
  <2> QED BY <2>2, <2>3
<1> QED BY <1>4, <1>5, <1>6

\* Every digit is one of ten.
LEMMA DigitIs ==
  ASSUME NEW d, Contains(Digits, d)
  PROVE  d \in Byte /\ d \notin {"CR", "LF", "FF", "+", "-"}
<1>1. /\ Digits[1] = "0" /\ Digits[2] = "1" /\ Digits[3] = "2" /\ Digits[4] = "3" /\ Digits[5] = "4"
      /\ Digits[6] = "5" /\ Digits[7] = "6" /\ Digits[8] = "7" /\ Digits[9] = "8" /\ Digits[10] = "9"
      /\ Len(Digits) = 10
  BY DEF Digits
<1>2. PICK i \in 1 .. 10 : Digits[i] = d
  BY <1>1 DEF Contains
<1>3. i \in {1, 2, 3, 4, 5} => d \notin {"CR", "LF", "FF", "+", "-"}
  BY <1>1, <1>2
<1>4. i \in {6, 7, 8, 9, 10} => d \notin {"CR", "LF", "FF", "+", "-"}
  BY <1>1, <1>2
<1>5. d \in Byte
  BY <1>2, RespAssumption
<1> QED BY <1>3, <1>4, <1>5

\* What the digits add up to, whichever function says so.
LEMMA AmountIs ==
  ASSUME NEW t, DigitText(t), NEW size, IsSize(size, t)
  PROVE  size[Len(t)] = Amount(t) /\ Amount(t) \in Nat
<1>1. Len(t) \in Nat /\ \A i \in 1 .. Len(t) : Digit(t[i]) \in Nat
  BY DigitFacts DEF DigitText, Bytes
<1> DEFINE other == CHOOSE f : IsSize(f, t)
<1>2. IsSize(other, t)
  OBVIOUS
<1>3. Amount(t) = other[Len(t)]
  BY DEF Amount
<1> HIDE DEF other
<1> DEFINE S == {n \in 0 .. Len(t) : size[n] = other[n] /\ size[n] \in Nat}
<1>4. 0 \in S
  BY <1>1, <1>2 DEF IsSize
<1>5. ASSUME NEW n \in 0 .. Len(t), n \in S, n < Len(t) PROVE n + 1 \in S
  <2>1. n + 1 \in 1 .. Len(t) /\ n + 1 # 0 /\ n + 1 - 1 = n /\ n + 1 \in 0 .. Len(t)
    BY <1>1, <1>5
  <2>2. size[n + 1] = 10 * size[n] + Digit(t[n + 1]) /\ other[n + 1] = 10 * other[n] + Digit(t[n + 1])
    BY <1>2, <2>1 DEF IsSize
  <2>3. size[n] \in Nat /\ Digit(t[n + 1]) \in Nat /\ size[n] = other[n]
    BY <1>1, <1>5, <2>1
  <2> QED BY <2>1, <2>2, <2>3
<1>6. \A n \in 0 .. Len(t) : n \in S
  <2> HIDE DEF S
  <2> QED BY <1>1, <1>4, <1>5, UpTo
<1>7. Len(t) \in S
  BY <1>1, <1>6
<1> QED BY <1>3, <1>7

\* No digits, and one digit more.
LEMMA AmountOfNone == DigitText(<< >>) /\ Amount(<< >>) = 0
<1>1. DigitText(<< >>)
  BY DEF DigitText, Bytes
<1>2. PICK size : IsSize(size, << >>)
  BY SizeExists
<1>3. size[Len(<< >>)] = 0
  BY <1>2 DEF IsSize
<1> QED BY <1>1, <1>2, <1>3, AmountIs

LEMMA AmountOfMore ==
  ASSUME NEW t, DigitText(t), NEW n \in 0 .. 9
  PROVE  /\ DigitText(t \o <<Digits[n + 1]>>) /\ Len(t \o <<Digits[n + 1]>>) = Len(t) + 1
         /\ Amount(t \o <<Digits[n + 1]>>) = 10 * Amount(t) + n
<1> DEFINE d == Digits[n + 1]
           u == t \o <<d>>
           N == Len(t)
<1>1. Contains(Digits, d) /\ Digit(d) = n /\ d \in Byte
  BY DigitOf
<1> HIDE DEF d
<1>2. t \in Bytes /\ N \in Nat /\ \A i \in 1 .. N : Contains(Digits, t[i])
  BY DEF DigitText, Bytes
<1>3. u \in Bytes /\ Len(u) = N + 1 /\ u[N + 1] = d /\ \A i \in 1 .. N : u[i] = t[i]
  <2>1. <<d>> \in Bytes /\ Len(<<d>>) = 1 /\ <<d>>[1] = d
    BY <1>1 DEF Bytes
  <2>2. u \in Bytes /\ Len(u) = N + 1
    BY <1>2, <2>1, Joined
  <2>3. t \in Seq(Byte) /\ <<d>> \in Seq(Byte)
    BY <1>2, <2>1 DEF Bytes
  <2>4. u[N + 1] = d /\ \A i \in 1 .. N : u[i] = t[i]
    BY <1>2, <2>1, <2>3
  <2> QED BY <2>2, <2>4
<1>4. DigitText(u)
  <2>1. ASSUME NEW i \in 1 .. Len(u) PROVE Contains(Digits, u[i])
    <3>1. i \in 1 .. N \/ i = N + 1
      BY <1>2, <1>3
    <3> HIDE DEF u
    <3> QED BY <1>1, <1>2, <1>3, <3>1
  <2> QED BY <1>3, <2>1 DEF DigitText
<1> HIDE DEF u
<1>5. Len(u) \in Nat /\ (\A i \in 1 .. Len(u) : Digit(u[i]) \in Nat) /\ \A i \in 1 .. N : Digit(t[i]) \in Nat
  BY <1>2, <1>3, <1>4, DigitFacts DEF DigitText
<1>6. PICK f : IsSize(f, t)
  BY <1>2, <1>5, SizeExists
<1>7. PICK g : IsSize(g, u)
  BY <1>5, SizeExists
<1> DEFINE S == {k \in 0 .. N : g[k] = f[k]}
<1>8. 0 \in S
  BY <1>2, <1>3, <1>6, <1>7 DEF IsSize
<1>9. ASSUME NEW k \in 0 .. N, k \in S, k < N PROVE k + 1 \in S
  <2>1. k + 1 \in 1 .. N /\ k + 1 # 0 /\ k + 1 - 1 = k /\ k + 1 \in 0 .. N /\ k + 1 \in 0 .. Len(u)
    BY <1>2, <1>3, <1>9
  <2>2. g[k + 1] = 10 * g[k] + Digit(u[k + 1])
    BY <1>7, <2>1 DEF IsSize
  <2>3. f[k + 1] = 10 * f[k] + Digit(t[k + 1])
    BY <1>6, <2>1 DEF IsSize
  <2>4. u[k + 1] = t[k + 1] /\ g[k] = f[k]
    BY <1>3, <1>9, <2>1
  <2> QED BY <2>1, <2>2, <2>3, <2>4
<1>10. \A k \in 0 .. N : k \in S
  <2> HIDE DEF S
  <2> QED BY <1>2, <1>8, <1>9, UpTo
<1>11. g[N] = f[N]
  BY <1>2, <1>10
<1>12. g[N + 1] = 10 * g[N] + Digit(u[N + 1])
  <2>1. N + 1 \in 0 .. Len(u) /\ N + 1 # 0 /\ N + 1 - 1 = N
    BY <1>2, <1>3
  <2> QED BY <1>7, <2>1 DEF IsSize
<1>13. f[N] = Amount(t) /\ g[N + 1] = Amount(u)
  BY <1>2, <1>3, <1>4, <1>6, <1>7, AmountIs
<1>14. Amount(u) = 10 * Amount(t) + n
  BY <1>1, <1>3, <1>11, <1>12, <1>13
<1> QED BY <1>3, <1>4, <1>14 DEF u, d

\* The digits of n, given by f those of smaller numbers.
DigitsOf(f, n) ==
  IF n < 10 THEN <<Digits[n + 1]>> ELSE f[n \div 10] \o <<Digits[(n % 10) + 1]>>

\* Decimal's own function, for the numbers of S.
IsDecimal(f, S) == f = [n \in S |-> DigitsOf(f, n)]

\* The last digit, and the number before it, which is smaller.
LEMMA LastDigit ==
  ASSUME NEW n \in Nat
  PROVE  /\ n \div 10 \in Nat /\ (n % 10) \in 0 .. 9 /\ n = 10 * (n \div 10) + (n % 10)
         /\ n >= 10 => n \div 10 < n /\ n \div 10 >= 1
<1> DEFINE q == n \div 10
           r == n % 10
<1>1. q \in Int /\ r \in 0 .. 9 /\ n = 10 * q + r
  OBVIOUS
<1> HIDE DEF q, r
<1>2. q \in Nat /\ (n >= 10 => q < n /\ q >= 1)
  BY <1>1
<1> QED BY <1>1, <1>2 DEF q, r

\* Up to every number there is one.
LEMMA DecimalUpTo ==
  ASSUME NEW N \in Nat
  PROVE  \E f : IsDecimal(f, 0 .. N)
<1> DEFINE S == {m \in 0 .. N : \E f : IsDecimal(f, 0 .. m)}
<1>1. 0 \in S
  <2> DEFINE f == [n \in 0 .. 0 |-> <<Digits[n + 1]>>]
  <2>1. ASSUME NEW n \in 0 .. 0 PROVE DigitsOf(f, n) = <<Digits[n + 1]>>
    BY DEF DigitsOf
  <2>2. f = [n \in 0 .. 0 |-> DigitsOf(f, n)]
    BY <2>1
  <2>3. IsDecimal(f, 0 .. 0)
    BY <2>2 DEF IsDecimal
  <2> HIDE DEF f
  <2> QED BY <2>3
<1>2. ASSUME NEW m \in 0 .. N, m \in S, m < N PROVE m + 1 \in S
  <2>1. PICK f : IsDecimal(f, 0 .. m)
    BY <1>2
  <2>2. \A n \in 0 .. m : f[n] = DigitsOf(f, n)
    BY <2>1 DEF IsDecimal
  <2> DEFINE g == [n \in 0 .. m + 1 |-> IF n = m + 1 THEN DigitsOf(f, n) ELSE f[n]]
  <2>3. ASSUME NEW n \in 0 .. m + 1 PROVE DigitsOf(g, n) = DigitsOf(f, n)
    <3>1. CASE n < 10
      BY <3>1 DEF DigitsOf
    <3>2. CASE ~(n < 10)
      <4>1. n \div 10 \in Nat /\ n \div 10 < n
        BY <3>2, LastDigit
      <4>2. n \div 10 \in 0 .. m + 1 /\ n \div 10 # m + 1
        BY <4>1
      <4>3. \A k \in 0 .. m + 1 : k # m + 1 => g[k] = f[k]
        OBVIOUS
      <4> HIDE DEF g
      <4> QED BY <3>2, <4>2, <4>3 DEF DigitsOf
    <3> QED BY <3>1, <3>2
  <2>4. ASSUME NEW n \in 0 .. m + 1 PROVE g[n] = DigitsOf(f, n)
    <3>1. m \in Int /\ n \in Int
      OBVIOUS
    <3>2. n = m + 1 \/ (n \in 0 .. m /\ n # m + 1)
      BY <3>1
    <3> QED BY <2>2, <3>2
  <2>5. g = [n \in 0 .. m + 1 |-> g[n]]
    OBVIOUS
  <2>6. IsDecimal(g, 0 .. m + 1)
    <3> HIDE DEF g
    <3> QED BY <2>3, <2>4, <2>5 DEF IsDecimal
  <2>7. m + 1 \in 0 .. N
    BY <1>2
  <2> HIDE DEF g
  <2> QED BY <2>6, <2>7
<1>3. \A n \in 0 .. N : n \in S
  <2> HIDE DEF S
  <2> QED BY <1>1, <1>2, UpTo
<1> QED BY <1>3

\* And they agree where both are defined.
LEMMA DecimalsAgree ==
  ASSUME NEW m \in Nat, NEW N \in Nat, m <= N,
         NEW f, IsDecimal(f, 0 .. m), NEW g, IsDecimal(g, 0 .. N)
  PROVE  f[m] = g[m]
<1> DEFINE S == {n \in 0 .. m : \A k \in 0 .. n : f[k] = g[k]}
<1>1. \A n \in 0 .. m : f[n] = DigitsOf(f, n) /\ g[n] = DigitsOf(g, n)
  <2>1. \A n \in 0 .. m : n \in 0 .. N
    OBVIOUS
  <2> QED BY <2>1 DEF IsDecimal
<1>2. 0 \in S
  <2>1. f[0] = DigitsOf(f, 0) /\ g[0] = DigitsOf(g, 0)
    BY <1>1
  <2>2. DigitsOf(f, 0) = DigitsOf(g, 0)
    BY DEF DigitsOf
  <2> QED BY <2>1, <2>2
<1>3. ASSUME NEW n \in 0 .. m, n \in S, n < m PROVE n + 1 \in S
  <2>1. n + 1 \in 0 .. m /\ \A k \in 0 .. n : f[k] = g[k]
    BY <1>3
  <2>2. DigitsOf(f, n + 1) = DigitsOf(g, n + 1)
    <3>1. CASE n + 1 < 10
      BY <3>1 DEF DigitsOf
    <3>2. CASE ~(n + 1 < 10)
      <4>1. (n + 1) \div 10 \in Nat /\ (n + 1) \div 10 < n + 1
        BY <3>2, LastDigit
      <4>2. (n + 1) \div 10 \in 0 .. n
        BY <4>1
      <4> QED BY <2>1, <3>2, <4>2 DEF DigitsOf
    <3> QED BY <3>1, <3>2
  <2>3. f[n + 1] = g[n + 1]
    BY <1>1, <2>1, <2>2
  <2>4. \A k \in 0 .. n + 1 : k \in 0 .. n \/ k = n + 1
    OBVIOUS
  <2> QED BY <2>1, <2>3, <2>4
<1>4. \A n \in 0 .. m : n \in S
  <2> HIDE DEF S
  <2> QED BY <1>2, <1>3, UpTo
<1> QED BY <1>4

\* So Decimal is what it says, for every number.
LEMMA DecimalIs == \A n \in Nat : Decimal[n] = DigitsOf(Decimal, n)
<1> DEFINE part(n) == CHOOSE f : IsDecimal(f, 0 .. n)
           d == [n \in Nat |-> part(n)[n]]
<1>1. \A n \in Nat : IsDecimal(part(n), 0 .. n)
  BY DecimalUpTo
<1>2. ASSUME NEW n \in Nat PROVE d[n] = DigitsOf(d, n)
  <2>1. part(n)[n] = DigitsOf(part(n), n)
    <3>1. IsDecimal(part(n), 0 .. n) /\ n \in 0 .. n
      BY <1>1
    <3> HIDE DEF part
    <3> QED BY <3>1 DEF IsDecimal
  <2>2. DigitsOf(part(n), n) = DigitsOf(d, n)
    <3>1. CASE n < 10
      BY <3>1 DEF DigitsOf
    <3>2. CASE ~(n < 10)
      <4>1. PICK k : k = n \div 10
        OBVIOUS
      <4>2. k \in Nat /\ k <= n
        BY <3>2, <4>1, LastDigit
      <4>3. IsDecimal(part(k), 0 .. k) /\ IsDecimal(part(n), 0 .. n)
        BY <1>1, <4>2
      <4>4. d[k] = part(k)[k]
        BY <4>2
      <4> HIDE DEF part, d
      <4>5. part(k)[k] = part(n)[k]
        BY <4>2, <4>3, DecimalsAgree
      <4> QED BY <3>2, <4>1, <4>4, <4>5 DEF DigitsOf
    <3> QED BY <3>1, <3>2
  <2> QED BY <2>1, <2>2
<1>3. IsDecimal(d, Nat)
  <2>1. d = [n \in Nat |-> d[n]]
    OBVIOUS
  <2> HIDE DEF d
  <2> QED BY <1>2, <2>1 DEF IsDecimal
<1>4. Decimal = CHOOSE f : IsDecimal(f, Nat)
  BY Zenon DEF Decimal, IsDecimal, DigitsOf
<1>5. IsDecimal(Decimal, Nat)
  <2> HIDE DEF d
  <2> QED BY <1>3, <1>4
<1> QED BY <1>5 DEF IsDecimal

\* Decimal writes the digits of a number.
LEMMA DecimalFacts ==
  ASSUME NEW N \in Nat
  PROVE  DigitText(Decimal[N]) /\ Len(Decimal[N]) > 0 /\ Amount(Decimal[N]) = N
<1> DEFINE Good(k) == DigitText(Decimal[k]) /\ Len(Decimal[k]) > 0 /\ Amount(Decimal[k]) = k
           S == {n \in 0 .. N : \A k \in 0 .. n : Good(k)}
<1>1. ASSUME NEW k \in 0 .. 9 PROVE Good(k)
  <2>1. Decimal[k] = << >> \o <<Digits[k + 1]>>
    <3>1. Decimal[k] = <<Digits[k + 1]>>
      <4>1. Decimal[k] = DigitsOf(Decimal, k)
        BY DecimalIs
      <4>2. k < 10
        OBVIOUS
      <4> QED BY <4>1, <4>2 DEF DigitsOf
    <3>2. Digits[k + 1] \in Byte
      BY DigitOf
    <3>3. <<Digits[k + 1]>> \in Bytes /\ << >> \in Bytes
      BY <3>2 DEF Bytes
    <3> QED BY <3>1, <3>3, Joined
  <2>2. DigitText(<< >>) /\ Amount(<< >>) = 0 /\ Len(<< >>) = 0
    BY AmountOfNone
  <2>3. PICK t : t = << >>
    OBVIOUS
  <2>4. DigitText(t) /\ Amount(t) = 0 /\ Len(t) = 0 /\ Decimal[k] = t \o <<Digits[k + 1]>>
    BY <2>1, <2>2, <2>3
  <2>5. /\ DigitText(t \o <<Digits[k + 1]>>) /\ Len(t \o <<Digits[k + 1]>>) = Len(t) + 1
        /\ Amount(t \o <<Digits[k + 1]>>) = 10 * Amount(t) + k
    BY <2>4, AmountOfMore
  <2> QED BY <2>4, <2>5
<1>2. 0 \in S
  <2>1. \A k \in 0 .. 0 : k \in 0 .. 9
    OBVIOUS
  <2> HIDE DEF Good
  <2> QED BY <1>1, <2>1
<1>3. ASSUME NEW n \in 0 .. N, n \in S, n < N PROVE n + 1 \in S
  <2>1. n + 1 \in 0 .. N /\ \A k \in 0 .. n : Good(k)
    BY <1>3
  <2>2. Good(n + 1)
    <3>1. CASE n + 1 < 10
      <4>1. n + 1 \in 0 .. 9
        BY <3>1
      <4> HIDE DEF Good
      <4> QED BY <1>1, <4>1
    <3>2. CASE ~(n + 1 < 10)
      <4>1. PICK q, r : q = (n + 1) \div 10 /\ r = (n + 1) % 10
        OBVIOUS
      <4>2. q \in Nat /\ r \in 0 .. 9 /\ n + 1 = 10 * q + r /\ q < n + 1
        BY <3>2, <4>1, LastDigit
      <4>3. Good(q)
        BY <2>1, <4>2
      <4>4. Decimal[n + 1] = Decimal[q] \o <<Digits[r + 1]>>
        <5>1. Decimal[n + 1] = DigitsOf(Decimal, n + 1)
          BY DecimalIs
        <5> QED BY <3>2, <4>1, <5>1 DEF DigitsOf
      <4>5. PICK t : t = Decimal[q]
        OBVIOUS
      <4>6. DigitText(t) /\ Len(t) > 0 /\ Amount(t) = q
        BY <4>3, <4>5
      <4>7. /\ DigitText(t \o <<Digits[r + 1]>>) /\ Len(t \o <<Digits[r + 1]>>) = Len(t) + 1
            /\ Amount(t \o <<Digits[r + 1]>>) = 10 * Amount(t) + r
        BY <4>2, <4>6, AmountOfMore
      <4>8. Len(t) \in Nat
        BY <4>6 DEF DigitText, Bytes
      <4> QED BY <4>2, <4>4, <4>5, <4>6, <4>7, <4>8
    <3> QED BY <3>1, <3>2
  <2>3. \A k \in 0 .. n + 1 : k \in 0 .. n \/ k = n + 1
    OBVIOUS
  <2> HIDE DEF Good
  <2> QED BY <2>1, <2>2, <2>3
<1>4. \A n \in 0 .. N : n \in S
  <2> HIDE DEF S
  <2> QED BY <1>2, <1>3, UpTo
<1> QED BY <1>4

\* parse_i64 takes the sign off and adds up the digits.
LEMMA ToIntegerIs ==
  ASSUME NEW text
  PROVE  ToInteger(text) = IF Head(text) = "-" THEN -Amount(Unsigned(text)) ELSE Amount(Unsigned(text))
BY Zenon DEF ToInteger, Amount, IsSize, Digit

\* A text of bytes none of which is a CR.
NoReturn(t) == t \in Bytes /\ \A i \in 1 .. Len(t) : t[i] # "CR"

\* What Decimal writes is read as the number, without a sign.
LEMMA DecimalRead ==
  ASSUME NEW n \in Nat
  PROVE  /\ NoReturn(Decimal[n]) /\ Len(Decimal[n]) > 0 /\ IsUtf8(Decimal[n])
         /\ Head(Decimal[n]) \notin {"+", "-"}
         /\ IsInteger(Decimal[n]) /\ ToInteger(Decimal[n]) = n
<1>1. PICK t : t = Decimal[n]
  OBVIOUS
<1>2. DigitText(t) /\ Len(t) > 0 /\ Amount(t) = n
  BY <1>1, DecimalFacts
<1>3. t \in Bytes /\ Len(t) \in Nat /\ \A i \in 1 .. Len(t) : Contains(Digits, t[i])
  BY <1>2 DEF DigitText, Bytes
<1>4. \A i \in 1 .. Len(t) : t[i] \notin {"CR", "FF", "+", "-"}
  BY <1>3, DigitIs
<1>5. t # << >> /\ Head(t) = t[1] /\ 1 \in 1 .. Len(t)
  BY <1>2, <1>3 DEF Bytes
<1>6. Head(t) \notin {"+", "-"}
  BY <1>4, <1>5
<1>7. Unsigned(t) = t
  BY <1>6 DEF Unsigned
<1>8. IsInteger(t)
  BY <1>3, <1>5, <1>7 DEF IsInteger
<1>9. ToInteger(t) = n
  BY <1>2, <1>6, <1>7, ToIntegerIs
<1>10. NoReturn(t) /\ IsUtf8(t)
  BY <1>3, <1>4 DEF NoReturn, IsUtf8
<1> QED BY <1>1, <1>2, <1>6, <1>8, <1>9, <1>10

\* What number.to_string() writes is read as the number.
LEMMA IntegerRead ==
  ASSUME NEW n \in Int
  PROVE  /\ NoReturn(IntegerText(n)) /\ IsInteger(IntegerText(n)) /\ ToInteger(IntegerText(n)) = n
<1>1. CASE n >= 0
  <2>1. n \in Nat /\ IntegerText(n) = Decimal[n]
    BY <1>1 DEF IntegerText
  <2> QED BY <2>1, DecimalRead
<1>2. CASE n < 0
  <2>1. PICK m, t : m = -n /\ t = Decimal[m]
    OBVIOUS
  <2>2. m \in Nat /\ IntegerText(n) = <<"-">> \o t
    BY <1>2, <2>1 DEF IntegerText
  <2>3. DigitText(t) /\ Len(t) > 0 /\ Amount(t) = m
    BY <2>1, <2>2, DecimalFacts
  <2>4. NoReturn(t)
    BY <2>1, <2>2, DecimalRead
  <2>5. t \in Bytes /\ Len(t) \in Nat /\ \A i \in 1 .. Len(t) : Contains(Digits, t[i]) /\ t[i] # "CR"
    BY <2>3, <2>4 DEF DigitText, NoReturn, Bytes
  <2>6. PICK s : s = <<"-">> \o t
    OBVIOUS
  <2>7. "-" \in Byte
    BY RespAssumption
  <2>8. <<"-">> \in Bytes /\ Len(<<"-">>) = 1 /\ <<"-">>[1] = "-"
    BY <2>7 DEF Bytes
  <2>9. s \in Bytes /\ Len(s) = 1 + Len(t)
    BY <2>5, <2>6, <2>8, Joined
  <2>10. s[1] = "-" /\ \A i \in 1 .. Len(t) : s[i + 1] = t[i]
    BY <2>5, <2>6, <2>8 DEF Bytes
  <2>11. s # << >> /\ Head(s) = "-" /\ Tail(s) = t
    <3>1. s # << >> /\ Head(s) = "-"
      BY <2>5, <2>9, <2>10 DEF Bytes
    <3>2. Tail(s) \in Bytes /\ Len(Tail(s)) = Len(t) /\ \A i \in 1 .. Len(t) : Tail(s)[i] = s[i + 1]
      BY <2>5, <2>9, <3>1 DEF Bytes
    <3>3. Tail(s) = t
      BY <2>5, <2>10, <3>2, SeqEqual DEF Bytes
    <3> QED BY <3>1, <3>3
  <2>12. Unsigned(s) = t
    BY <2>11 DEF Unsigned
  <2>13. t # << >>
    BY <2>3
  <2>14. IsInteger(s)
    BY <2>5, <2>12, <2>13 DEF IsInteger
  <2>15. ToInteger(s) = n
    <3>1. ToInteger(s) = -m
      BY <2>3, <2>11, <2>12, ToIntegerIs
    <3> QED BY <2>1, <3>1
  <2>16. ASSUME NEW i \in 1 .. Len(s) PROVE s[i] # "CR"
    <3>1. i = 1 \/ (i - 1 \in 1 .. Len(t) /\ i = (i - 1) + 1)
      BY <2>5, <2>9
    <3> QED BY <2>5, <2>10, <3>1
  <2>17. NoReturn(s)
    BY <2>9, <2>16 DEF NoReturn
  <2> QED BY <2>2, <2>6, <2>14, <2>15, <2>17
<1> QED BY <1>1, <1>2

-----------------------------------------------------------------------------
(***************************************************************************)
(* Lines and bulk strings that were written are read back.                 *)
(***************************************************************************)

\* The bytes w stand in b at position p.
At(w, b, p) == p + Len(w) <= Len(b) + 1 /\ \A i \in 1 .. Len(w) : b[p + i - 1] = w[i]

\* One part stands behind the other.
LEMMA AtParts ==
  ASSUME NEW u \in Bytes, NEW w \in Bytes, NEW b \in Bytes, NEW p \in Nat \ {0}, At(u \o w, b, p)
  PROVE  At(u, b, p) /\ At(w, b, p + Len(u))
<1>1. Len(u) \in Nat /\ Len(w) \in Nat /\ Len(b) \in Nat /\ Len(u \o w) = Len(u) + Len(w)
  BY Joined
<1>2. /\ \A i \in 1 .. Len(u) : (u \o w)[i] = u[i]
      /\ \A i \in 1 .. Len(w) : (u \o w)[Len(u) + i] = w[i]
  BY <1>1 DEF Bytes
<1>3. PICK c : c = u \o w
  OBVIOUS
<1>4. p + Len(c) <= Len(b) + 1 /\ \A i \in 1 .. Len(c) : b[p + i - 1] = c[i]
  BY <1>3 DEF At
<1>5. At(u, b, p)
  <2>1. \A i \in 1 .. Len(u) : i \in 1 .. Len(c)
    BY <1>1, <1>3
  <2>2. p + Len(u) <= Len(b) + 1
    BY <1>1, <1>3, <1>4
  <2> QED BY <1>2, <1>3, <1>4, <2>1, <2>2 DEF At
<1>6. At(w, b, p + Len(u))
  <2>1. ASSUME NEW i \in 1 .. Len(w) PROVE b[p + Len(u) + i - 1] = w[i]
    <3>1. Len(u) + i \in 1 .. Len(c) /\ p + (Len(u) + i) - 1 = p + Len(u) + i - 1
      BY <1>1, <1>3
    <3>2. b[p + (Len(u) + i) - 1] = c[Len(u) + i]
      BY <1>4, <3>1
    <3> QED BY <1>2, <1>3, <3>1, <3>2
  <2>2. p + Len(u) + Len(w) <= Len(b) + 1
    BY <1>1, <1>3, <1>4
  <2> QED BY <2>1, <2>2 DEF At
<1> QED BY <1>5, <1>6

\* What stands there is cut out there.
LEMMA AtSlice ==
  ASSUME NEW w \in Bytes, NEW b \in Bytes, NEW p \in Nat \ {0}, At(w, b, p)
  PROVE  SubSeq(b, p, p + Len(w) - 1) = w
<1>1. Len(w) \in Nat /\ Len(b) \in Nat
  BY DEF Bytes
<1>2. p + Len(w) <= Len(b) + 1 /\ \A i \in 1 .. Len(w) : b[p + i - 1] = w[i]
  BY DEF At
<1> DEFINE s == SubSeq(b, p, p + Len(w) - 1)
<1>3. s \in Bytes /\ Len(s) = Len(w) /\ \A i \in 1 .. Len(w) : s[i] = b[p + i - 1]
  BY <1>1, <1>2 DEF Bytes
<1> HIDE DEF s
<1>4. s = w
  BY <1>1, <1>2, <1>3, SeqEqual DEF Bytes
<1> QED BY <1>4 DEF s

\* The line end.
LEMMA LineEnd == CRLF \in Bytes /\ Len(CRLF) = 2 /\ CRLF[1] = "CR" /\ CRLF[2] = "LF"
<1>1. "CR" \in Byte /\ "LF" \in Byte
  BY RespAssumption
<1> QED BY <1>1 DEF CRLF, Bytes

\* Two bytes that are a line end.
LEMMA EndsLine ==
  ASSUME NEW b \in Bytes, NEW e \in Nat \ {0}, e < Len(b)
  PROVE  SubSeq(b, e, e + 1) = CRLF <=> b[e] = "CR" /\ b[e + 1] = "LF"
<1>1. Len(b) \in Nat
  BY DEF Bytes
<1> DEFINE s == SubSeq(b, e, e + 1)
<1>2. s \in Bytes /\ Len(s) = 2 /\ s[1] = b[e] /\ s[2] = b[e + 1]
  BY <1>1 DEF Bytes
<1> HIDE DEF s
<1>3. s = CRLF <=> s[1] = "CR" /\ s[2] = "LF"
  <2>1. s[1] = "CR" /\ s[2] = "LF" => s = CRLF
    <3> SUFFICES ASSUME s[1] = "CR", s[2] = "LF" PROVE s = CRLF
      OBVIOUS
    <3>1. \A i \in 1 .. 2 : s[i] = CRLF[i]
      <4>1. \A i \in 1 .. 2 : i = 1 \/ i = 2
        OBVIOUS
      <4> QED BY <4>1, LineEnd
    <3> QED BY <1>2, <3>1, LineEnd, SeqEqual DEF Bytes
  <2> QED BY <2>1, LineEnd
<1> QED BY <1>2, <1>3 DEF s

\* A text no line end is in.
OneLine(t) == t \in Bytes /\ \A i \in 1 .. Len(t) - 1 : SubSeq(t, i, i + 1) # CRLF

LEMMA NoReturnOneLine ==
  ASSUME NEW t, NoReturn(t)
  PROVE  OneLine(t)
<1>1. t \in Bytes /\ Len(t) \in Nat /\ \A i \in 1 .. Len(t) : t[i] # "CR"
  BY DEF NoReturn, Bytes
<1>2. ASSUME NEW i \in 1 .. Len(t) - 1 PROVE SubSeq(t, i, i + 1) # CRLF
  <2>1. i \in Nat \ {0} /\ i < Len(t) /\ i \in 1 .. Len(t)
    BY <1>1
  <2> QED BY <1>1, <2>1, EndsLine
<1> QED BY <1>1, <1>2 DEF OneLine

\* read_line finds a line that stands there.
LEMMA LineRead ==
  ASSUME NEW t, OneLine(t), NEW b \in Bytes, NEW p \in Nat \ {0}, At(t \o CRLF, b, p)
  PROVE  ReadLine(b, p) = Parsed(t, p + Len(t) + 2)
<1> DEFINE ends == {e \in p .. Len(b) - 1 : SubSeq(b, e, e + 1) = CRLF}
<1>1. t \in Bytes /\ Len(t) \in Nat /\ Len(b) \in Nat /\ CRLF \in Bytes
  BY LineEnd DEF OneLine, Bytes
<1>2. PICK end : end = p + Len(t)
  OBVIOUS
<1>3. At(t, b, p) /\ At(CRLF, b, end)
  BY <1>1, <1>2, AtParts
<1>4. end \in Nat \ {0} /\ end < Len(b) /\ end \in p .. Len(b) - 1 /\ end - 1 = p + Len(t) - 1
  BY <1>1, <1>2, <1>3, LineEnd DEF At
<1>5. b[end] = "CR" /\ b[end + 1] = "LF"
  <2>1. 1 \in 1 .. Len(CRLF) /\ 2 \in 1 .. Len(CRLF) /\ end + 1 - 1 = end /\ end + 2 - 1 = end + 1
    BY <1>4, LineEnd
  <2> QED BY <1>3, <2>1, LineEnd DEF At
<1>6. end \in ends
  BY <1>1, <1>4, <1>5, EndsLine
<1>7. ASSUME NEW e \in ends, e < end PROVE FALSE
  <2>1. e \in p .. Len(b) - 1 /\ SubSeq(b, e, e + 1) = CRLF
    OBVIOUS
  <2>2. e \in Nat \ {0} /\ e < Len(b)
    BY <1>1, <2>1
  <2>3. b[e] = "CR" /\ b[e + 1] = "LF"
    BY <2>1, <2>2, EndsLine
  <2>4. CASE e + 1 = end
    BY <1>5, <2>3, <2>4
  <2>5. CASE e + 1 # end
    <3>1. PICK i : i = e - p + 1
      OBVIOUS
    <3>2. i \in 1 .. Len(t) - 1 /\ i \in Nat \ {0} /\ i < Len(t) /\ p + i - 1 = e /\ p + (i + 1) - 1 = e + 1
      BY <1>1, <1>2, <1>4, <1>7, <2>1, <2>5, <3>1
    <3>3. t[i] = b[p + i - 1] /\ t[i + 1] = b[p + (i + 1) - 1]
      <4>1. i \in 1 .. Len(t) /\ i + 1 \in 1 .. Len(t)
        BY <1>1, <3>2
      <4> QED BY <1>3, <4>1 DEF At
    <3>4. SubSeq(t, i, i + 1) = CRLF
      BY <1>1, <2>3, <3>2, <3>3, EndsLine
    <3> QED BY <3>2, <3>4 DEF OneLine
  <2> QED BY <2>4, <2>5
<1>8. (CHOOSE e \in ends : \A f \in ends : e <= f) = end
  <2>1. ends \subseteq Nat
    BY <1>1
  <2> HIDE DEF ends
  <2>2. \A f \in ends : end <= f
    BY <1>4, <1>7, <2>1
  <2>3. \A e \in ends : (\A f \in ends : e <= f) => e = end
    BY <1>4, <1>6, <2>1, <2>2
  <2> QED BY <1>6, <2>2, <2>3
<1>9. ReadLine(b, p) = Parsed(SubSeq(b, p, end - 1), end + 2)
  <2>1. ends # {}
    BY <1>6
  <2> QED BY <1>8, <2>1 DEF ReadLine
<1>10. SubSeq(b, p, p + Len(t) - 1) = t
  BY <1>1, <1>3, AtSlice
<1> QED BY <1>2, <1>4, <1>9, <1>10

\* And read_bulk_bytes the bytes.
LEMMA BulkRead ==
  ASSUME NEW t \in Bytes, NEW b \in Bytes, NEW p \in Nat \ {0}, At(t \o CRLF, b, p)
  PROVE  ReadBulk(b, p, Len(t)) = Parsed(t, p + Len(t) + 2)
<1>1. Len(t) \in Nat /\ Len(b) \in Nat /\ CRLF \in Bytes
  BY LineEnd DEF Bytes
<1>2. PICK end : end = p + Len(t)
  OBVIOUS
<1>3. At(t, b, p) /\ At(CRLF, b, end)
  BY <1>1, <1>2, AtParts
<1>4. end \in Nat \ {0} /\ end < Len(b) /\ end - 1 = p + Len(t) - 1 /\ end + 2 = p + Len(t) + 2
  BY <1>1, <1>2, <1>3, LineEnd DEF At
<1>5. SubSeq(b, end, end + 1) = CRLF
  <2>1. SubSeq(b, end, end + Len(CRLF) - 1) = CRLF
    BY <1>1, <1>3, <1>4, AtSlice
  <2>2. end + Len(CRLF) - 1 = end + 1
    BY <1>4, LineEnd
  <2> QED BY <2>1, <2>2
<1>6. SubSeq(b, p, end - 1) = t
  BY <1>1, <1>3, <1>4, AtSlice
<1>7. ~(end + 1 > Len(b))
  BY <1>1, <1>4
<1>8. ReadBulk(b, p, Len(t)) = Parsed(SubSeq(b, p, end - 1), end + 2)
  BY <1>2, <1>5, <1>7 DEF ReadBulk
<1> QED BY <1>4, <1>6, <1>8

-----------------------------------------------------------------------------
(***************************************************************************)
(* Values that were written are read back.                                 *)
(***************************************************************************)

\* What a line can say, the values that are no array, and arrays of them.
Texts == {t \in Bytes : IsUtf8(t) /\ OneLine(t)}

Items ==
  {SimpleString(t) : t \in Texts} \cup {ErrorText(t) : t \in Texts}
    \cup {Integer(n) : n \in Int} \cup {BulkString(s) : s \in Bytes} \cup {Null}

Encodable == Items \cup {Array(items) : items \in Seq(Items)}

\* The bytes of a value's first line.
FirstLine(type, t) == <<type>> \o t \o CRLF

LEMMA FirstLineBytes ==
  ASSUME NEW type \in {"+", "-", ":", "$", "*"}, NEW t \in Bytes
  PROVE  /\ FirstLine(type, t) \in Bytes /\ Len(FirstLine(type, t)) = Len(t) + 3 /\ Len(t) \in Nat
         /\ FirstLine(type, t) = <<type>> \o (t \o CRLF)
         /\ <<type>> \in Bytes /\ Len(<<type>>) = 1 /\ t \o CRLF \in Bytes
<1>1. type \in Byte
  BY RespAssumption
<1>2. <<type>> \in Bytes /\ Len(<<type>>) = 1
  BY <1>1 DEF Bytes
<1>3. PICK c : c = <<type>>
  OBVIOUS
<1>4. c \in Bytes /\ Len(c) = 1 /\ CRLF \in Bytes /\ Len(CRLF) = 2
  BY <1>2, <1>3, LineEnd
<1>5. c \o t \in Bytes /\ Len(c \o t) = Len(c) + Len(t) /\ Len(t) \in Nat
  BY <1>4, Joined
<1>6. (c \o t) \o CRLF \in Bytes /\ Len((c \o t) \o CRLF) = Len(c \o t) + Len(CRLF)
  BY <1>4, <1>5, Joined
<1>7. (c \o t) \o CRLF = c \o (t \o CRLF)
  BY <1>4, JoinedThree
<1>8. t \o CRLF \in Bytes
  BY <1>4, Joined
<1> QED BY <1>2, <1>3, <1>4, <1>5, <1>6, <1>7, <1>8 DEF FirstLine

\* The parser reads the line, and goes on with what it announces.
LEMMA FirstLineRead ==
  ASSUME NEW type \in {"+", "-", ":", "$", "*"}, NEW t, OneLine(t), NEW b \in Bytes, NEW p \in Nat \ {0},
         At(FirstLine(type, t), b, p), NEW values
  PROVE  ParseValue(values, b, p) = AfterLine(values, b, type, t, p + Len(t) + 3)
<1>0. t \in Bytes
  BY DEF OneLine
<1>1. /\ FirstLine(type, t) = <<type>> \o (t \o CRLF) /\ Len(t) \in Nat
      /\ <<type>> \in Bytes /\ Len(<<type>>) = 1 /\ t \o CRLF \in Bytes
  BY <1>0, FirstLineBytes
<1>2. PICK c, l : c = <<type>> /\ l = t \o CRLF
  OBVIOUS
<1>3. c \in Bytes /\ l \in Bytes /\ At(c \o l, b, p) /\ Len(c) = 1 /\ c[1] = type
  BY <1>1, <1>2
<1>4. At(c, b, p) /\ At(l, b, p + 1)
  BY <1>3, AtParts
<1>5. Len(b) \in Nat
  BY DEF Bytes
<1>6. b[p] = type /\ p <= Len(b)
  <2>1. 1 \in 1 .. Len(c) /\ p + 1 - 1 = p
    BY <1>3
  <2>2. p + Len(c) <= Len(b) + 1 /\ b[p + 1 - 1] = c[1]
    BY <1>4, <2>1 DEF At
  <2> QED BY <1>3, <1>5, <2>1, <2>2
<1>7. ReadLine(b, p + 1) = Parsed(t, p + 1 + Len(t) + 2)
  <2>1. p + 1 \in Nat \ {0}
    OBVIOUS
  <2>2. At(t \o CRLF, b, p + 1)
    BY <1>2, <1>4
  <2> QED BY <2>1, <2>2, LineRead
<1>8. p + 1 + Len(t) + 2 = p + Len(t) + 3
  BY <1>1
<1>9. PICK line : line = ReadLine(b, p + 1)
  OBVIOUS
<1>10. line.status = "ok" /\ line.value = t /\ line.next = p + Len(t) + 3
  BY <1>7, <1>8, <1>9, Results
<1>11. ~(p > Len(b))
  BY <1>5, <1>6
<1> QED BY <1>6, <1>9, <1>10, <1>11 DEF ParseValue

\* Two and three bytes, one after the other.
LEMMA TwoAndThree ==
  ASSUME NEW x \in Byte, NEW y \in Byte, NEW z \in Byte
  PROVE  <<x>> \o <<y>> = <<x, y>> /\ <<x>> \o <<y, z>> = <<x, y, z>>
<1>1. PICK a, b, c, d, e : a = <<x>> /\ b = <<y>> /\ c = <<x, y>> /\ d = <<y, z>> /\ e = <<x, y, z>>
  OBVIOUS
<1>2. /\ a \in Bytes /\ b \in Bytes /\ c \in Bytes /\ d \in Bytes /\ e \in Bytes
      /\ Len(a) = 1 /\ Len(b) = 1 /\ Len(c) = 2 /\ Len(d) = 2 /\ Len(e) = 3
      /\ a[1] = x /\ b[1] = y /\ c[1] = x /\ c[2] = y /\ d[1] = y /\ d[2] = z
      /\ e[1] = x /\ e[2] = y /\ e[3] = z
  BY <1>1 DEF Bytes
<1>3. a \o b \in Bytes /\ Len(a \o b) = 2 /\ a \o d \in Bytes /\ Len(a \o d) = 3
  <2>1. a \o b \in Bytes /\ Len(a \o b) = Len(a) + Len(b)
    BY <1>2, Joined
  <2>2. a \o d \in Bytes /\ Len(a \o d) = Len(a) + Len(d)
    BY <1>2, Joined
  <2> QED BY <1>2, <2>1, <2>2
<1>4. (a \o b)[1] = x /\ (a \o b)[2] = y /\ (a \o d)[1] = x /\ (a \o d)[2] = y /\ (a \o d)[3] = z
  <2>1. \A w \in Bytes : At(w, w, 1)
    <3> SUFFICES ASSUME NEW w \in Bytes PROVE At(w, w, 1)
      OBVIOUS
    <3>1. Len(w) \in Nat
      BY DEF Bytes
    <3>2. \A i \in 1 .. Len(w) : 1 + i - 1 = i
      BY <3>1
    <3> QED BY <3>1, <3>2 DEF At
  <2>2. PICK u, w : u = a \o b /\ w = a \o d
    OBVIOUS
  <2>3. At(u, u, 1) /\ At(w, w, 1)
    BY <1>3, <2>1, <2>2
  <2>4. At(a, u, 1) /\ At(b, u, 1 + 1) /\ At(a, w, 1) /\ At(d, w, 1 + 1)
    <3>1. At(a \o b, u, 1) /\ At(a \o d, w, 1) /\ 1 \in Nat \ {0} /\ u \in Bytes /\ w \in Bytes
      BY <1>3, <2>2, <2>3
    <3>2. At(a, u, 1) /\ At(b, u, 1 + Len(a))
      BY <1>2, <3>1, AtParts
    <3>3. At(a, w, 1) /\ At(d, w, 1 + Len(a))
      BY <1>2, <3>1, AtParts
    <3> QED BY <1>2, <3>2, <3>3
  <2>5. u[1] = a[1] /\ u[2] = b[1] /\ w[1] = a[1] /\ w[2] = d[1] /\ w[3] = d[2]
    <3>1. /\ 1 \in 1 .. Len(a) /\ 1 \in 1 .. Len(b) /\ 1 \in 1 .. Len(d) /\ 2 \in 1 .. Len(d)
          /\ 1 + 1 - 1 = 1 /\ 1 + 1 + 1 - 1 = 2 /\ 1 + 1 + 2 - 1 = 3
      BY <1>2
    <3>2. u[1 + 1 - 1] = a[1] /\ w[1 + 1 - 1] = a[1]
      BY <2>4, <3>1 DEF At
    <3>3. u[1 + 1 + 1 - 1] = b[1] /\ w[1 + 1 + 1 - 1] = d[1] /\ w[1 + 1 + 2 - 1] = d[2]
      BY <2>4, <3>1 DEF At
    <3> QED BY <3>1, <3>2, <3>3
  <2> QED BY <1>2, <2>2, <2>5
<1>5. a \o b = c
  <2>1. \A i \in 1 .. 2 : i = 1 \/ i = 2
    OBVIOUS
  <2>2. \A i \in 1 .. 2 : (a \o b)[i] = c[i]
    BY <1>2, <1>4, <2>1
  <2> QED BY <1>2, <1>3, <2>2, SeqEqual DEF Bytes
<1>6. a \o d = e
  <2>1. \A i \in 1 .. 3 : i = 1 \/ i = 2 \/ i = 3
    OBVIOUS
  <2>2. \A i \in 1 .. 3 : (a \o d)[i] = e[i]
    BY <1>2, <1>4, <2>1
  <2> QED BY <1>2, <1>3, <2>2, SeqEqual DEF Bytes
<1> QED BY <1>1, <1>5, <1>6

\* A value that is no array.
ReadAs(v, w, values, b, p) == ParseValue(values, b, p) = Parsed(v, p + Len(w))

LEMMA ItemRead ==
  ASSUME NEW v \in Items
  PROVE  /\ EncodeItem(v) \in Bytes /\ v.type # "*"
         /\ \A values : \A b \in Bytes, p \in Nat \ {0} :
              At(EncodeItem(v), b, p) => ReadAs(v, EncodeItem(v), values, b, p)
<1>1. ASSUME NEW type \in {"+", "-"}, NEW t \in Texts, v = [type |-> type, text |-> t]
      PROVE  /\ EncodeItem(v) \in Bytes /\ v.type # "*"
             /\ \A values : \A b \in Bytes, p \in Nat \ {0} :
                  At(EncodeItem(v), b, p) => ReadAs(v, EncodeItem(v), values, b, p)
  <2>1. EncodeItem(v) = FirstLine(type, t) /\ v.type # "*"
    BY <1>1 DEF EncodeItem, FirstLine
  <2>2. t \in Bytes /\ OneLine(t) /\ IsUtf8(t)
    BY DEF Texts
  <2>3. FirstLine(type, t) \in Bytes /\ Len(FirstLine(type, t)) = Len(t) + 3 /\ Len(t) \in Nat
    BY <2>2, FirstLineBytes
  <2>4. ASSUME NEW b \in Bytes, NEW p \in Nat \ {0}, NEW values, At(EncodeItem(v), b, p)
        PROVE  ReadAs(v, EncodeItem(v), values, b, p)
    <3>1. ParseValue(values, b, p) = AfterLine(values, b, type, t, p + Len(t) + 3)
      BY <2>1, <2>2, <2>4, FirstLineRead
    <3>2. AfterLine(values, b, type, t, p + Len(t) + 3) = Parsed(v, p + Len(t) + 3)
      BY <1>1, <2>2 DEF AfterLine
    <3> QED BY <2>1, <2>3, <3>1, <3>2 DEF ReadAs
  <2> QED BY <2>1, <2>3, <2>4
<1>2. ASSUME NEW n \in Int, v = Integer(n)
      PROVE  /\ EncodeItem(v) \in Bytes /\ v.type # "*"
             /\ \A values : \A b \in Bytes, p \in Nat \ {0} :
                  At(EncodeItem(v), b, p) => ReadAs(v, EncodeItem(v), values, b, p)
  <2>0. PICK t : t = IntegerText(n)
    OBVIOUS
  <2>1. EncodeItem(v) = FirstLine(":", t) /\ v.type # "*"
    BY <1>2, <2>0 DEF EncodeItem, FirstLine, Integer
  <2>2. NoReturn(t) /\ IsInteger(t) /\ ToInteger(t) = n
    BY <2>0, IntegerRead
  <2>3. OneLine(t) /\ t \in Bytes
    BY <2>2, NoReturnOneLine DEF OneLine
  <2>4. FirstLine(":", t) \in Bytes /\ Len(FirstLine(":", t)) = Len(t) + 3 /\ Len(t) \in Nat
    BY <2>3, FirstLineBytes
  <2>5. ASSUME NEW b \in Bytes, NEW p \in Nat \ {0}, NEW values, At(EncodeItem(v), b, p)
        PROVE  ReadAs(v, EncodeItem(v), values, b, p)
    <3>1. ParseValue(values, b, p) = AfterLine(values, b, ":", t, p + Len(t) + 3)
      BY <2>1, <2>3, <2>5, FirstLineRead
    <3>2. AfterLine(values, b, ":", t, p + Len(t) + 3) = Parsed(v, p + Len(t) + 3)
      BY <1>2, <2>2 DEF AfterLine
    <3> QED BY <2>1, <2>4, <3>1, <3>2 DEF ReadAs
  <2> QED BY <2>1, <2>4, <2>5
<1>3. ASSUME NEW s \in Bytes, v = BulkString(s)
      PROVE  /\ EncodeItem(v) \in Bytes /\ v.type # "*"
             /\ \A values : \A b \in Bytes, p \in Nat \ {0} :
                  At(EncodeItem(v), b, p) => ReadAs(v, EncodeItem(v), values, b, p)
  <2>0. PICK t, l, m : t = IntegerText(Len(s)) /\ l = FirstLine("$", t) /\ m = s \o CRLF
    OBVIOUS
  <2>1. Len(s) \in Nat /\ v.type = "$"
    BY <1>3 DEF Bytes, BulkString
  <2>2. NoReturn(t) /\ IsInteger(t) /\ ToInteger(t) = Len(s)
    BY <2>0, <2>1, IntegerRead
  <2>3. OneLine(t) /\ t \in Bytes
    BY <2>2, NoReturnOneLine DEF OneLine
  <2>4. l \in Bytes /\ Len(l) = Len(t) + 3 /\ Len(t) \in Nat
    BY <2>0, <2>3, FirstLineBytes
  <2>5. m \in Bytes /\ Len(m) = Len(s) + 2 /\ CRLF \in Bytes
    BY <2>0, LineEnd, Joined
  <2>6. EncodeItem(v) = l \o m
    <3>1. EncodeItem(v) = (l \o s) \o CRLF
      BY <1>3, <2>0 DEF EncodeItem, FirstLine, BulkString
    <3> QED BY <2>0, <2>4, <2>5, <3>1, JoinedThree
  <2>7. l \o m \in Bytes /\ Len(l \o m) = Len(t) + 3 + (Len(s) + 2)
    BY <2>4, <2>5, Joined
  <2>8. ASSUME NEW b \in Bytes, NEW p \in Nat \ {0}, NEW values, At(EncodeItem(v), b, p)
        PROVE  ReadAs(v, EncodeItem(v), values, b, p)
    <3>1. At(l, b, p) /\ At(m, b, p + Len(l))
      BY <2>4, <2>5, <2>6, <2>8, AtParts
    <3>2. ParseValue(values, b, p) = AfterLine(values, b, "$", t, p + Len(t) + 3)
      <4>1. At(FirstLine("$", t), b, p)
        BY <2>0, <3>1
      <4> QED BY <2>3, <4>1, FirstLineRead
    <3>3. PICK q \in Nat \ {0} : q = p + Len(t) + 3
      BY <2>4
    <3>4. ReadBulk(b, q, Len(s)) = Parsed(s, q + Len(s) + 2)
      <4>1. At(s \o CRLF, b, q)
        BY <2>0, <2>4, <3>1, <3>3
      <4> QED BY <4>1, BulkRead
    <3>5. AfterLine(values, b, "$", t, q) = Mapped(ReadBulk(b, q, Len(s)), BulkString)
      BY <2>1, <2>2 DEF AfterLine
    <3>6. Mapped(Parsed(s, q + Len(s) + 2), BulkString) = Parsed(v, q + Len(s) + 2)
      BY <1>3, Results DEF Mapped
    <3>7. q + Len(s) + 2 = p + (Len(t) + 3 + (Len(s) + 2))
      BY <2>1, <2>4, <3>3
    <3> QED BY <2>6, <2>7, <3>2, <3>3, <3>4, <3>5, <3>6, <3>7 DEF ReadAs
  <2> QED BY <2>1, <2>6, <2>7, <2>8
<1>4. ASSUME v = Null
      PROVE  /\ EncodeItem(v) \in Bytes /\ v.type # "*"
             /\ \A values : \A b \in Bytes, p \in Nat \ {0} :
                  At(EncodeItem(v), b, p) => ReadAs(v, EncodeItem(v), values, b, p)
  <2>0. PICK t : t = IntegerText(-1)
    OBVIOUS
  <2>1. NoReturn(t) /\ IsInteger(t) /\ ToInteger(t) = -1
    BY <2>0, IntegerRead
  <2>2. t = <<"-", "1">>
    <3>1. Decimal[1] = DigitsOf(Decimal, 1)
      BY DecimalIs
    <3>2. Decimal[1] = <<"1">>
      BY <3>1 DEF DigitsOf, Digits
    <3>3. t = <<"-">> \o Decimal[1]
      BY <2>0 DEF IntegerText
    <3>4. "-" \in Byte /\ "1" \in Byte
      BY RespAssumption DEF Digits
    <3> QED BY <3>2, <3>3, <3>4, TwoAndThree
  <2>3. OneLine(t) /\ t \in Bytes
    BY <2>1, NoReturnOneLine DEF OneLine
  <2>4. EncodeItem(v) = FirstLine("$", t) /\ v.type # "*"
    <3>1. EncodeItem(v) = <<"$", "-", "1">> \o CRLF /\ v.type # "*"
      BY <1>4 DEF EncodeItem, Null
    <3>2. "-" \in Byte /\ "1" \in Byte /\ "$" \in Byte
      BY RespAssumption DEF Digits
    <3>3. <<"$">> \o t = <<"$", "-", "1">>
      BY <2>2, <3>2, TwoAndThree
    <3> QED BY <3>1, <3>3 DEF FirstLine
  <2>5. FirstLine("$", t) \in Bytes /\ Len(FirstLine("$", t)) = Len(t) + 3 /\ Len(t) \in Nat
    BY <2>3, FirstLineBytes
  <2>6. ASSUME NEW b \in Bytes, NEW p \in Nat \ {0}, NEW values, At(EncodeItem(v), b, p)
        PROVE  ReadAs(v, EncodeItem(v), values, b, p)
    <3>1. ParseValue(values, b, p) = AfterLine(values, b, "$", t, p + Len(t) + 3)
      BY <2>3, <2>4, <2>6, FirstLineRead
    <3>2. AfterLine(values, b, "$", t, p + Len(t) + 3) = Parsed(v, p + Len(t) + 3)
      BY <1>4, <2>1 DEF AfterLine
    <3> QED BY <2>4, <2>5, <3>1, <3>2 DEF ReadAs
  <2> QED BY <2>4, <2>5, <2>6
<1> QED BY <1>1, <1>2, <1>3, <1>4 DEF Items, SimpleString, ErrorText


\* The pieces of an array, and what the first of them make.
ItemPieces(items) == [i \in 1 .. Len(items) |-> EncodeItem(items[i])]

LEMMA ItemPiecesFacts ==
  ASSUME NEW items \in Seq(Items)
  PROVE  /\ ItemPieces(items) \in Seq(Bytes) /\ Len(ItemPieces(items)) = Len(items) /\ Len(items) \in Nat
         /\ \A i \in 1 .. Len(items) : items[i] \in Items /\ ItemPieces(items)[i] = EncodeItem(items[i])
<1>1. Len(items) \in Nat /\ \A i \in 1 .. Len(items) : items[i] \in Items
  BY ElementOfSeq
<1>2. \A i \in 1 .. Len(items) : EncodeItem(items[i]) \in Bytes
  BY <1>1, ItemRead
<1> QED BY <1>1, <1>2 DEF ItemPieces

\* Behind the first n pieces stands the next.
StandsNext(pieces, g, b, p, n) ==
  /\ At(pieces[n + 1], b, p + Len(g[n]))
  /\ p + Len(g[n]) \in Nat \ {0}
  /\ p + Len(g[n + 1]) = p + Len(g[n]) + Len(pieces[n + 1])

\* Where all the pieces stand, each does.
LEMMA PieceAt ==
  ASSUME NEW pieces \in Seq(Bytes), NEW g \in [0 .. Len(pieces) -> Bytes], Gathers(g, pieces),
         NEW b \in Bytes, NEW p \in Nat \ {0}, At(g[Len(pieces)], b, p),
         NEW n \in 0 .. Len(pieces), n < Len(pieces)
  PROVE  StandsNext(pieces, g, b, p, n)
<1> DEFINE N == Len(pieces)
           S == {m \in 1 .. N : At(g[m], b, p)}
<1>1. N \in Nat /\ \A i \in 1 .. N : pieces[i] \in Bytes
  BY ElementOfSeq
<1>2. \A m \in 1 .. N : m - 1 \in 0 .. N /\ m \in 0 .. N /\ g[m] = g[m - 1] \o pieces[m]
  <2>1. \A m \in 1 .. N : m - 1 \in 0 .. N /\ m \in 0 .. N
    BY <1>1
  <2>2. \A m \in 1 .. N : g[m] = g[m - 1] \o pieces[m]
    BY Zenon DEF Gathers
  <2> QED BY <2>1, <2>2
<1>3. ASSUME NEW m \in 1 .. N, At(g[m], b, p)
      PROVE  At(g[m - 1], b, p) /\ At(pieces[m], b, p + Len(g[m - 1]))
  <2>1. g[m - 1] \in Bytes /\ pieces[m] \in Bytes /\ At(g[m - 1] \o pieces[m], b, p)
    BY <1>1, <1>2, <1>3
  <2> QED BY <2>1, AtParts
<1>4. ASSUME NEW m \in 1 .. N, \A k \in m + 1 .. N : k \in S PROVE m \in S
  <2>1. CASE m = N
    BY <1>1, <2>1
  <2>2. CASE m # N
    <3>1. m + 1 \in m + 1 .. N /\ m + 1 \in 1 .. N /\ m + 1 - 1 = m
      BY <1>1, <2>2
    <3>2. At(g[m + 1], b, p)
      BY <1>4, <3>1
    <3>3. At(g[m + 1 - 1], b, p)
      BY <1>3, <3>1, <3>2
    <3> QED BY <3>1, <3>3
  <2> QED BY <2>1, <2>2
<1>5. \A m \in 1 .. N : m \in S
  <2>1. PICK k \in Nat : k + 1 = N
    <3>1. N - 1 \in Nat /\ (N - 1) + 1 = N
      BY <1>1
    <3> QED BY <3>1
  <2> HIDE DEF S, N
  <2>2. \A m \in 1 .. k + 1 : (\A i \in m + 1 .. k + 1 : i \in S) => m \in S
    BY <1>4, <2>1
  <2>3. \A m \in 1 .. k + 1 : m \in S
    BY <2>2, DownTo
  <2> QED BY <2>1, <2>3
<1>6. n + 1 \in 1 .. N /\ n + 1 - 1 = n
  BY <1>1
<1>7. At(g[n + 1], b, p)
  BY <1>5, <1>6
<1>8. g[n] \in Bytes /\ g[n + 1] = g[n] \o pieces[n + 1] /\ pieces[n + 1] \in Bytes
  <2>1. PICK m \in 1 .. N : m = n + 1
    BY <1>6
  <2>2. g[m] = g[m - 1] \o pieces[m] /\ m - 1 = n
    BY <1>2, <1>6, <2>1
  <2> QED BY <1>1, <2>1, <2>2
<1>9. Len(g[n + 1]) = Len(g[n]) + Len(pieces[n + 1]) /\ Len(g[n]) \in Nat /\ Len(pieces[n + 1]) \in Nat
  BY <1>8, Joined
<1>10. At(pieces[n + 1], b, p + Len(g[n]))
  <2>1. At(g[n] \o pieces[n + 1], b, p)
    BY <1>7, <1>8
  <2> QED BY <1>8, <2>1, AtParts
<1>11. p + Len(g[n]) \in Nat \ {0} /\ p + Len(g[n + 1]) = p + Len(g[n]) + Len(pieces[n + 1])
  BY <1>9
<1> QED BY <1>10, <1>11 DEF StandsNext

\* The elements of an array are read one after the other.
LEMMA ItemsRead ==
  ASSUME NEW items \in Seq(Items), NEW b \in Bytes, NEW p \in Nat \ {0},
         At(FlattenSeq(ItemPieces(items)), b, p), NEW values, ValuesFrom(values, b, 1)
  PROVE  ParseItems(values, p, Len(items)) = Parsed(items, p + Len(FlattenSeq(ItemPieces(items))))
<1>1. PICK pieces : pieces = ItemPieces(items)
  OBVIOUS
<1>2. PICK N : N = Len(items)
  OBVIOUS
<1>3. /\ pieces \in Seq(Bytes) /\ Len(pieces) = N /\ N \in Nat
      /\ \A i \in 1 .. N : items[i] \in Items /\ pieces[i] = EncodeItem(items[i])
  BY <1>1, <1>2, ItemPiecesFacts
<1>4. PICK g \in [0 .. N -> Bytes] : Gathers(g, pieces) /\ FlattenSeq(pieces) = g[N]
  BY <1>3, Flattened
<1>5. PICK f : ParseItems(values, p, N) = f[N] /\ ItemByItem(f, values, p, N)
  BY <1>3, ItemsSteps
<1> DEFINE S == {n \in 0 .. N : f[n] = Parsed(SubSeq(items, 1, n), p + Len(g[n]))}
<1>6. 0 \in S
  <2>1. SubSeq(items, 1, 0) = << >>
    OBVIOUS
  <2>2. g[0] = << >> /\ p + Len(<< >>) = p
    BY <1>4 DEF Gathers
  <2>3. f[0] = Parsed(<< >>, p)
    BY <1>5 DEF ItemByItem
  <2>4. f[0] = Parsed(SubSeq(items, 1, 0), p + Len(g[0]))
    BY <2>1, <2>2, <2>3
  <2> QED BY <1>3, <2>4
<1>7. ASSUME NEW n \in 0 .. N, n \in S, n < N PROVE n + 1 \in S
  <2>1. n + 1 \in 1 .. N /\ n + 1 - 1 = n /\ n + 1 \in 0 .. N
    BY <1>3, <1>7
  <2>2. PICK q : q = p + Len(g[n])
    OBVIOUS
  <2>3. At(pieces[n + 1], b, q) /\ q \in Nat \ {0} /\ p + Len(g[n + 1]) = q + Len(pieces[n + 1])
    <3>1. At(g[Len(pieces)], b, p)
      BY <1>1, <1>3, <1>4
    <3>2. g \in [0 .. Len(pieces) -> Bytes] /\ Gathers(g, pieces) /\ n \in 0 .. Len(pieces) /\ n < Len(pieces)
      BY <1>3, <1>4, <1>7
    <3>3. StandsNext(pieces, g, b, p, n)
      BY <1>3, <3>1, <3>2, PieceAt
    <3> QED BY <2>2, <3>3 DEF StandsNext
  <2>4. PICK v : v = items[n + 1]
    OBVIOUS
  <2>5. v \in Items /\ pieces[n + 1] = EncodeItem(v)
    BY <1>3, <2>1, <2>4
  <2>6. values[q] = Parsed(v, q + Len(pieces[n + 1]))
    <3>1. ParseValue(values, b, q) = Parsed(v, q + Len(pieces[n + 1]))
      BY <2>3, <2>5, ItemRead DEF ReadAs
    <3>2. q \in 1 .. Len(b) + 1
      <4>1. pieces[n + 1] \in Bytes
        BY <1>3, <2>1, ElementOfSeq
      <4>2. Len(pieces[n + 1]) \in Nat /\ Len(b) \in Nat
        BY <4>1 DEF Bytes
      <4> QED BY <2>3, <4>2 DEF At
    <3> QED BY <3>1, <3>2 DEF ValuesFrom
  <2>7. PICK first : first = SubSeq(items, 1, n)
    OBVIOUS
  <2>8. f[n] = Parsed(first, q)
    BY <1>7, <2>2, <2>7
  <2>9. f[n + 1] = WithItem(values, f[n])
    BY <1>5, <1>7 DEF ItemByItem
  <2>10. WithItem(values, f[n]) = Parsed(Append(first, v), q + Len(pieces[n + 1]))
    BY <2>6, <2>8, Results DEF WithItem, Mapped
  <2>11. Append(first, v) = SubSeq(items, 1, n + 1)
    BY <1>2, <1>3, <2>1, <2>4, <2>7
  <2> QED BY <2>1, <2>3, <2>9, <2>10, <2>11
<1>8. \A n \in 0 .. N : n \in S
  <2> HIDE DEF S
  <2> QED BY <1>3, <1>6, <1>7, UpTo
<1>9. f[N] = Parsed(SubSeq(items, 1, N), p + Len(g[N]))
  <2>1. N \in 0 .. N
    BY <1>3
  <2> QED BY <1>8, <2>1
<1>10. SubSeq(items, 1, N) = items
  BY <1>2
<1> QED BY <1>1, <1>2, <1>4, <1>5, <1>9, <1>10

-----------------------------------------------------------------------------
\* What encode_into writes parse_resp gives back, whatever bytes come behind it,
\* and it takes exactly the bytes that were written: a request the CLI, the log
\* or a test sends is the request the server, the replay or the reader sees, and
\* so is an answer.
THEOREM EncodedParsed ==
  ASSUME NEW v \in Encodable, NEW x \in Bytes
  PROVE  /\ Encode(v) \in Bytes
         /\ ParseResp(Encode(v) \o x) = Parsed(v, Len(Encode(v)) + 1)
<1>1. \A w \in Bytes : /\ w \o x \in Bytes /\ 1 \in 1 .. Len(w \o x) + 1 /\ At(w, w \o x, 1)
  <2> SUFFICES ASSUME NEW w \in Bytes
               PROVE  w \o x \in Bytes /\ 1 \in 1 .. Len(w \o x) + 1 /\ At(w, w \o x, 1)
    OBVIOUS
  <2>1. w \o x \in Bytes /\ Len(w \o x) = Len(w) + Len(x) /\ Len(w) \in Nat /\ Len(x) \in Nat
    BY Joined
  <2>2. ASSUME NEW i \in 1 .. Len(w) PROVE (w \o x)[1 + i - 1] = w[i]
    <3>1. 1 + i - 1 = i
      BY <2>1
    <3>2. (w \o x)[i] = w[i]
      BY DEF Bytes
    <3> QED BY <3>1, <3>2
  <2> QED BY <2>1, <2>2 DEF At
<1>2. CASE v \in Items
  <2>1. Encode(v) = EncodeItem(v) /\ Encode(v) \in Bytes
    BY <1>2, ItemRead DEF Encode
  <2>2. PICK b : b = Encode(v) \o x
    OBVIOUS
  <2>3. b \in Bytes /\ 1 \in 1 .. Len(b) + 1 /\ At(EncodeItem(v), b, 1)
    BY <1>1, <2>1, <2>2
  <2>4. PICK values : ValuesFrom(values, b, 1) /\ ParseResp(b) = values[1]
    BY <2>3, ParsedValue
  <2>5. values[1] = ParseValue(values, b, 1)
    BY <2>3, <2>4 DEF ValuesFrom
  <2>6. ReadAs(v, EncodeItem(v), values, b, 1)
    <3>1. 1 \in Nat \ {0}
      OBVIOUS
    <3> QED BY <1>2, <2>3, <3>1, ItemRead
  <2>7. ParseValue(values, b, 1) = Parsed(v, 1 + Len(Encode(v)))
    BY <2>1, <2>6 DEF ReadAs
  <2>8. 1 + Len(Encode(v)) = Len(Encode(v)) + 1
    BY <2>1 DEF Bytes
  <2> QED BY <2>1, <2>2, <2>4, <2>5, <2>7, <2>8
<1>3. CASE \E items \in Seq(Items) : v = Array(items)
  <2>1. PICK items \in Seq(Items) : v = Array(items)
    BY <1>3
  <2>2. PICK n, t, l, m : n = Len(items) /\ t = IntegerText(n) /\ l = FirstLine("*", t) /\ m = FlattenSeq(ItemPieces(items))
    OBVIOUS
  <2>3. n \in Nat
    BY <2>2, ItemPiecesFacts
  <2>4. NoReturn(t) /\ IsInteger(t) /\ ToInteger(t) = n
    BY <2>2, <2>3, IntegerRead
  <2>5. OneLine(t) /\ t \in Bytes
    BY <2>4, NoReturnOneLine DEF OneLine
  <2>6. l \in Bytes /\ Len(l) = Len(t) + 3 /\ Len(t) \in Nat
    BY <2>2, <2>5, FirstLineBytes
  <2>7. m \in Bytes
    <3>1. PICK pieces : pieces = ItemPieces(items)
      OBVIOUS
    <3>2. pieces \in Seq(Bytes)
      BY <3>1, ItemPiecesFacts
    <3>3. PICK g \in [0 .. Len(pieces) -> Bytes] : FlattenSeq(pieces) = g[Len(pieces)]
      BY <3>2, Flattened
    <3>4. Len(pieces) \in 0 .. Len(pieces)
      BY <3>2, ElementOfSeq
    <3> QED BY <2>2, <3>1, <3>3, <3>4
  <2>8. Encode(v) = l \o m
    <3>1. v.type = "*" /\ v.items = items
      BY <2>1 DEF Array
    <3> QED BY <2>2, <3>1 DEF Encode, FirstLine, ItemPieces
  <2>9. l \o m \in Bytes /\ Len(l \o m) = Len(l) + Len(m) /\ Len(m) \in Nat
    BY <2>6, <2>7, Joined
  <2>10. PICK b : b = Encode(v) \o x
    OBVIOUS
  <2>11. b \in Bytes /\ 1 \in 1 .. Len(b) + 1 /\ At(l \o m, b, 1)
    BY <1>1, <2>8, <2>9, <2>10
  <2>12. At(l, b, 1) /\ At(m, b, 1 + Len(l))
    <3>1. 1 \in Nat \ {0}
      OBVIOUS
    <3> QED BY <2>6, <2>7, <2>11, <3>1, AtParts
  <2>13. PICK values : ValuesFrom(values, b, 1) /\ ParseResp(b) = values[1]
    BY <2>11, ParsedValue
  <2>14. values[1] = ParseValue(values, b, 1)
    BY <2>11, <2>13 DEF ValuesFrom
  <2>15. PICK q \in Nat \ {0} : q = 1 + Len(t) + 3
    BY <2>6
  <2>16. ParseValue(values, b, 1) = AfterLine(values, b, "*", t, q)
    <3>1. At(FirstLine("*", t), b, 1) /\ 1 \in Nat \ {0}
      BY <2>2, <2>12
    <3> QED BY <2>5, <2>11, <2>15, <3>1, FirstLineRead
  <2>17. ParseItems(values, q, n) = Parsed(items, q + Len(m))
    <3>1. At(m, b, q)
      BY <2>6, <2>12, <2>15
    <3> QED BY <2>2, <2>11, <2>13, <3>1, ItemsRead
  <2>18. AfterLine(values, b, "*", t, q) = Mapped(ParseItems(values, q, n), Array)
    BY <2>3, <2>4 DEF AfterLine
  <2>19. Mapped(Parsed(items, q + Len(m)), Array) = Parsed(v, q + Len(m))
    BY <2>1, Results DEF Mapped
  <2>20. q + Len(m) = Len(Encode(v)) + 1
    BY <2>6, <2>8, <2>9, <2>15
  <2> QED BY <2>8, <2>9, <2>10, <2>13, <2>14, <2>16, <2>17, <2>18, <2>19, <2>20
<1> QED BY <1>2, <1>3 DEF Encodable


-----------------------------------------------------------------------------
(***************************************************************************)
(* What a value that was parsed holds.                                     *)
(***************************************************************************)

\* Its text, or its bytes, are bytes; a text is UTF-8.
Plain(v) ==
  /\ v.type \in {"+", "-"} => v.text \in Bytes /\ IsUtf8(v.text)
  /\ v.type = "$" => v.bytes \in Bytes

\* The plain values of a set.
PlainOf(S) == {v \in S : Plain(v)}

\* And so do the elements of an array.
TypedValue(v) == Plain(v) /\ (v.type = "*" => \E S : v.items \in Seq(PlainOf(S)))

LEMMA PlainParsed ==
  ASSUME NEW b \in Bytes, NEW p \in Nat \ {0}, NEW values, NEW r, r = ParseValue(values, b, p),
         r.status = "ok"
  PROVE  /\ Plain(r.value)
         /\ r.value.type = "*" =>
              \E pos \in p + 1 .. Len(b) + 1, count \in Nat :
                 r = Mapped(ParseItems(values, pos, count), Array)
<1>1. Len(b) \in Nat
  BY DEF Bytes
<1>2. PICK type, line : type = b[p] /\ line = ReadLine(b, p + 1)
  OBVIOUS
<1>3. /\ p <= Len(b) /\ type \in {"+", "-", ":", "$", "*"} /\ line.status = "ok"
      /\ r = AfterLine(values, b, type, line.value, line.next)
  BY <1>1, <1>2, Results DEF ParseValue
<1>4. PICK e \in p + 1 .. Len(b) - 1 : line = Parsed(SubSeq(b, p + 1, e - 1), e + 2)
  <2>1. p + 1 \in 1 .. Len(b) + 2
    BY <1>1, <1>3
  <2> QED BY <1>2, <1>3, <2>1, LineResult, Results
<1>5. PICK text, pos : text = line.value /\ pos = line.next
  OBVIOUS
<1>6. text \in Bytes /\ pos \in p + 1 .. Len(b) + 1
  <2>1. text = SubSeq(b, p + 1, e - 1) /\ pos = e + 2
    BY <1>4, <1>5, Results
  <2>2. p + 1 \in 1 .. Len(b) + 1 /\ e - 1 \in 0 .. Len(b)
    BY <1>1, <1>3
  <2> QED BY <1>1, <2>1, <2>2 DEF Bytes
<1>7. r = AfterLine(values, b, type, text, pos)
  BY <1>3, <1>5
<1>8. CASE type \in {"+", "-"}
  <2>1. IsUtf8(text) /\ r = Parsed([type |-> type, text |-> text], pos)
    BY <1>7, <1>8, Results DEF AfterLine
  <2> QED BY <1>6, <1>8, <2>1, Results DEF Plain
<1>9. CASE type \notin {"+", "-"}
  <2> DEFINE len == ToInteger(text)
  <2>1. IsInteger(text)
    BY <1>7, <1>9, Results DEF AfterLine
  <2>2. len \in Int
    BY <1>6, <2>1, IntegerParsed
  <2> HIDE DEF len
  <2>3. r = IF type = ":" THEN Parsed(Integer(len), pos)
            ELSE IF len = -1 THEN Parsed(Null, pos)
            ELSE IF len < -1 THEN Invalid
            ELSE IF type = "$" THEN Mapped(ReadBulk(b, pos, len), BulkString)
            ELSE Mapped(ParseItems(values, pos, len), Array)
    BY <1>7, <1>9, <2>1 DEF AfterLine, len
  <2>4. CASE type = ":"
    <3>1. r.value = Integer(len)
      BY <2>3, <2>4, Results
    <3> QED BY <3>1 DEF Plain, Integer
  <2>5. CASE type # ":" /\ len = -1
    <3>1. r.value = Null
      BY <2>3, <2>5, Results
    <3> QED BY <3>1 DEF Plain, Null
  <2>6. CASE type # ":" /\ len # -1
    <3>1. ~(len < -1) /\ len \in Nat
      <4>1. ~(len < -1)
        BY <2>3, <2>6, Results
      <4> QED BY <2>2, <2>6, <4>1
    <3>2. CASE type = "$"
      <4>1. PICK bulk : bulk = ReadBulk(b, pos, len)
        OBVIOUS
      <4>2. r = Mapped(bulk, BulkString)
        BY <2>3, <2>6, <3>1, <3>2, <4>1
      <4>3. bulk.status = "ok" /\ r = Parsed(BulkString(bulk.value), bulk.next)
        BY <4>2, Results DEF Mapped
      <4>4. bulk = Parsed(SubSeq(b, pos, pos + len - 1), pos + len + 2) /\ ~(pos + len + 1 > Len(b))
        <5>1. CASE pos + len + 1 > Len(b)
          <6>1. bulk = Incomplete
            BY <4>1, <5>1 DEF ReadBulk
          <6> QED BY <4>3, <6>1, Results
        <5>2. CASE ~(pos + len + 1 > Len(b))
          <6>1. CASE SubSeq(b, pos + len, pos + len + 1) # CRLF
            <7>1. bulk = Invalid
              BY <4>1, <5>2, <6>1 DEF ReadBulk
            <7> QED BY <4>3, <7>1, Results
          <6>2. CASE SubSeq(b, pos + len, pos + len + 1) = CRLF
            <7>1. bulk = Parsed(SubSeq(b, pos, pos + len - 1), pos + len + 2)
              <8>1. PICK end : end = pos + len
                OBVIOUS
              <8>2. ReadBulk(b, pos, len) = Parsed(SubSeq(b, pos, end - 1), end + 2)
                BY <5>2, <6>2, <8>1 DEF ReadBulk
              <8>3. end - 1 = pos + len - 1 /\ end + 2 = pos + len + 2
                BY <1>6, <3>1, <8>1
              <8> QED BY <4>1, <8>2, <8>3
            <7> QED BY <5>2, <7>1
          <6> QED BY <6>1, <6>2
        <5> QED BY <5>1, <5>2
      <4>5. SubSeq(b, pos, pos + len - 1) \in Bytes
        <5>1. pos \in 1 .. Len(b) + 1 /\ pos + len - 1 \in 0 .. Len(b)
          BY <1>1, <1>6, <3>1, <4>4
        <5> QED BY <1>1, <5>1 DEF Bytes
      <4>6. r.value = BulkString(SubSeq(b, pos, pos + len - 1))
        BY <4>3, <4>4, Results
      <4> QED BY <4>5, <4>6 DEF Plain, BulkString
    <3>3. CASE type # "$"
      <4>1. PICK items : items = ParseItems(values, pos, len)
        OBVIOUS
      <4>2. r = Mapped(items, Array)
        BY <2>3, <2>6, <3>1, <3>3, <4>1
      <4>3. r = Parsed(Array(items.value), items.next)
        BY <4>2, Results DEF Mapped
      <4>4. r.value = Array(items.value)
        BY <4>3, Results
      <4>5. Plain(r.value)
        BY <4>4 DEF Plain, Array
      <4> QED BY <1>6, <3>1, <4>1, <4>2, <4>5
    <3> QED BY <3>2, <3>3
  <2> QED BY <2>4, <2>5, <2>6
<1> QED BY <1>8, <1>9

\* The elements of an array are plain.
LEMMA PlainItems ==
  ASSUME NEW b \in Bytes, NEW values, ValuesFrom(values, b, 1),
         NEW pos \in 1 .. Len(b) + 1, NEW count \in Nat, ParseItems(values, pos, count).status = "ok"
  PROVE  \E S : ParseItems(values, pos, count).value \in Seq(PlainOf(S))
<1>1. Len(b) \in Nat
  BY DEF Bytes
<1>2. AllIn(values, 1, Len(b) + 1)
  <2>1. 1 \in 1 .. Len(b) + 2
    BY <1>1
  <2> QED BY <2>1, ValuesBounded
<1>3. PICK f : ParseItems(values, pos, count) = f[count] /\ ItemByItem(f, values, pos, count)
  BY ItemsSteps
<1> DEFINE S == {values[q].value : q \in 1 .. Len(b) + 1}
           P == PlainOf(S)
           Good(r) == r.status = "ok" => r.value \in Seq(P) /\ r.next \in 1 .. Len(b) + 1
           T == {n \in 0 .. count : Good(f[n])}
<1>4. 0 \in T
  <2> HIDE DEF P
  <2>1. f[0] = Parsed(<< >>, pos) /\ << >> \in Seq(P)
    BY <1>3 DEF ItemByItem
  <2>2. f[0].value = << >> /\ f[0].next = pos
    BY <2>1, Results
  <2>3. f[0].value \in Seq(P)
    BY <2>1, <2>2, Zenon
  <2>4. Good(f[0])
    BY <2>2, <2>3
  <2>5. 0 \in 0 .. count
    OBVIOUS
  <2> HIDE DEF Good
  <2> QED BY <2>4, <2>5
<1>5. ASSUME NEW n \in 0 .. count, n \in T, n < count PROVE n + 1 \in T
  <2>1. PICK r, s : r = f[n] /\ s = f[n + 1]
    OBVIOUS
  <2>2. Good(r) /\ s = WithItem(values, r)
    BY <1>3, <1>5, <2>1 DEF ItemByItem
  <2>3. ASSUME s.status = "ok" PROVE s.value \in Seq(P) /\ s.next \in 1 .. Len(b) + 1
    <3>1. r.status = "ok"
      BY <2>2, <2>3 DEF WithItem
    <3>2. PICK q : q = r.next
      OBVIOUS
    <3>3. PICK v : v = values[q]
      OBVIOUS
    <3>4. q \in 1 .. Len(b) + 1 /\ r.value \in Seq(P)
      BY <2>2, <3>1, <3>2
    <3>5. s = Mapped(v, LAMBDA x : Append(r.value, x))
      BY <2>2, <3>1, <3>2, <3>3 DEF WithItem
    <3>6. v.status = "ok" /\ s = Parsed(Append(r.value, v.value), v.next)
      BY <2>3, <3>5, Results DEF Mapped
    <3>7. v.next \in 1 .. Len(b) + 1
      <4>1. ResultIn(v, q + 1 .. Len(b) + 1)
        BY <1>2, <3>3, <3>4 DEF AllIn
      <4>2. PICK m \in q + 1 .. Len(b) + 1 : \E a : v = Parsed(a, m)
        BY <3>6, <4>1, Results DEF ResultIn
      <4>3. v.next = m
        BY <4>2, Results
      <4> QED BY <1>1, <3>4, <4>3
    <3>8. v.value \in P
      <4>1. v = ParseValue(values, b, q) /\ q \in Nat \ {0}
        BY <3>3, <3>4 DEF ValuesFrom
      <4>2. Plain(v.value)
        BY <3>6, <4>1, PlainParsed
      <4> QED BY <3>3, <3>4, <4>2 DEF PlainOf
    <3>9. Append(r.value, v.value) \in Seq(P)
      <4> HIDE DEF P
      <4> QED BY <3>4, <3>8
    <3> HIDE DEF P
    <3> QED BY <3>6, <3>7, <3>9, Results
  <2>4. n + 1 \in 0 .. count
    BY <1>5
  <2> HIDE DEF P
  <2> QED BY <2>1, <2>3, <2>4
<1>6. \A n \in 0 .. count : n \in T
  <2> HIDE DEF T
  <2> QED BY <1>4, <1>5, UpTo
<1>7. count \in T
  <2>1. count \in 0 .. count
    OBVIOUS
  <2> HIDE DEF T
  <2> QED BY <1>6, <2>1
<1>8. f[count].value \in Seq(P)
  <2> HIDE DEF P
  <2> QED BY <1>3, <1>7
<1> HIDE DEF S, T
<1> QED BY <1>3, <1>8

\* What the parser returns is typed.
LEMMA ParsedTyped ==
  ASSUME NEW b \in Bytes, ParseResp(b).status = "ok"
  PROVE  TypedValue(ParseResp(b).value)
<1>1. PICK values : ValuesFrom(values, b, 1) /\ ParseResp(b) = values[1]
  BY ParsedValue
<1>2. PICK r : r = ParseResp(b)
  OBVIOUS
<1>3. Len(b) \in Nat /\ 1 \in 1 .. Len(b) + 1 /\ 1 \in Nat \ {0}
  BY DEF Bytes
<1>4. r = ParseValue(values, b, 1) /\ r.status = "ok"
  BY <1>1, <1>2, <1>3 DEF ValuesFrom
<1>5. /\ Plain(r.value)
      /\ r.value.type = "*" =>
           \E pos \in 1 + 1 .. Len(b) + 1, count \in Nat :
              r = Mapped(ParseItems(values, pos, count), Array)
  BY <1>3, <1>4, PlainParsed
<1>6. ASSUME r.value.type = "*" PROVE \E S : r.value.items \in Seq(PlainOf(S))
  <2>1. PICK pos \in 1 + 1 .. Len(b) + 1, count \in Nat : r = Mapped(ParseItems(values, pos, count), Array)
    BY <1>5, <1>6
  <2>2. PICK items : items = ParseItems(values, pos, count)
    OBVIOUS
  <2>3. items.status = "ok" /\ r = Parsed(Array(items.value), items.next)
    BY <1>4, <2>1, <2>2, Results DEF Mapped
  <2>4. r.value.items = items.value
    BY <2>3, Results DEF Array
  <2>5. pos \in 1 .. Len(b) + 1
    BY <1>3
  <2>6. \E S : items.value \in Seq(PlainOf(S))
    BY <1>1, <2>2, <2>3, <2>5, PlainItems
  <2> QED BY <2>4, <2>6
<1> QED BY <1>2, <1>5, <1>6 DEF TypedValue


-----------------------------------------------------------------------------
(***************************************************************************)
(* The arguments of a request.                                             *)
(***************************************************************************)

\* Words' own function.
IsSplit(f, line) ==
  f = [n \in 0 .. Len(line) |->
        IF n = 0 THEN [words |-> << >>, word |-> << >>] ELSE SplitAt(f[n - 1], line[n])]

\* The words so far.
Splits == [words : Seq(Bytes), word : Bytes]

LEMMA SplitsKept ==
  ASSUME NEW split \in Splits, NEW byte \in Byte
  PROVE  SplitAt(split, byte) \in Splits /\ Ended(split) \in Seq(Bytes)
<1>1. split.words \in Seq(Bytes) /\ split.word \in Bytes
  BY DEF Splits
<1>2. Ended(split) \in Seq(Bytes)
  BY <1>1 DEF Ended
<1>3. << >> \in Bytes /\ Append(split.word, byte) \in Bytes
  BY <1>1 DEF Bytes
<1> QED BY <1>1, <1>2, <1>3 DEF SplitAt, Splits

\* The words of a line are made of its bytes.
LEMMA WordsTyped ==
  ASSUME NEW line \in Bytes
  PROVE  Words(line) \in Seq(Bytes)
<1> DEFINE N == Len(line)
           none == [words |-> << >>, word |-> << >>]
<1>1. N \in Nat /\ \A n \in 1 .. N : line[n] \in Byte
  BY DEF Bytes
<1>2. none \in Splits
  BY DEF Splits, Bytes
<1>3. \E f : IsSplit(f, line)
  <2> DEFINE step == [p \in (1 .. N) \X Splits |-> SplitAt(p[2], line[p[1]])]
  <2>1. \A n \in 1 .. N, d \in Splits : step[<<n, d>>] = SplitAt(d, line[n])
    OBVIOUS
  <2> HIDE DEF step, none
  <2>2. \A n \in 1 .. N, d \in Splits : step[<<n, d>>] \in Splits
    BY <1>1, <2>1, SplitsKept
  <2>3. PICK g \in [0 .. N -> Splits] : Recurs(g, N, none, step)
    BY <1>1, <1>2, <2>2, Recursion
  <2>4. ASSUME NEW n \in 0 .. N PROVE g[n] = IF n = 0 THEN none ELSE SplitAt(g[n - 1], line[n])
    <3>1. CASE n = 0
      BY <2>3, <3>1 DEF Recurs
    <3>2. CASE n # 0
      <4>1. n \in 1 .. N /\ n - 1 \in 0 .. N
        BY <1>1, <3>2
      <4>2. g[n - 1] \in Splits /\ g[n] = step[<<n, g[n - 1]>>]
        BY <2>3, <4>1 DEF Recurs
      <4> QED BY <2>1, <3>2, <4>1, <4>2
    <3> QED BY <3>1, <3>2
  <2>5. g = [n \in 0 .. N |-> g[n]]
    OBVIOUS
  <2>6. IsSplit(g, line)
    BY <2>4, <2>5 DEF IsSplit, none
  <2> QED BY <2>6
<1> DEFINE f == CHOOSE h : IsSplit(h, line)
<1>4. IsSplit(f, line)
  BY <1>3
<1>5. Words(line) = Ended(f[N])
  BY Zenon DEF Words, IsSplit
<1> HIDE DEF f
<1> DEFINE S == {n \in 0 .. N : f[n] \in Splits}
<1>6. 0 \in S
  <2>1. f[0] = none
    BY <1>1, <1>4 DEF IsSplit
  <2> HIDE DEF none
  <2> QED BY <1>1, <1>2, <2>1
<1>7. ASSUME NEW n \in 0 .. N, n \in S, n < N PROVE n + 1 \in S
  <2>1. n + 1 \in 1 .. N /\ n + 1 # 0 /\ n + 1 - 1 = n /\ n + 1 \in 0 .. N
    BY <1>1, <1>7
  <2>2. f[n + 1] = SplitAt(f[n], line[n + 1])
    BY <1>4, <2>1 DEF IsSplit
  <2> QED BY <1>1, <1>7, <2>1, <2>2, SplitsKept
<1>8. \A n \in 0 .. N : n \in S
  <2> HIDE DEF S, N
  <2> QED BY <1>1, <1>6, <1>7, UpTo
<1>9. f[N] \in Splits
  <2>1. N \in 0 .. N
    BY <1>1
  <2> QED BY <1>8, <2>1
<1>10. Ended(f[N]) \in Seq(Bytes)
  <2>1. PICK c \in Byte : TRUE
    BY RespAssumption
  <2> QED BY <1>9, <2>1, SplitsKept
<1> QED BY <1>5, <1>10

\* The arguments of a value that was parsed are bytes.
LEMMA ArgsTyped ==
  ASSUME NEW v, TypedValue(v)
  PROVE  Args(v) \in Seq(Bytes)
<1>0. << >> \in Seq(Bytes)
  OBVIOUS
<1>1. CASE v.type = "*"
  <2> DEFINE arg(i) == IF v.items[i].type = "+" THEN v.items[i].text ELSE v.items[i].bytes
  <2>1. PICK S : v.items \in Seq(PlainOf(S))
    BY <1>1 DEF TypedValue
  <2>2. Len(v.items) \in Nat /\ \A i \in 1 .. Len(v.items) : Plain(v.items[i])
    <3>1. Len(v.items) \in Nat /\ \A i \in 1 .. Len(v.items) : v.items[i] \in PlainOf(S)
      BY <2>1, ElementOfSeq
    <3> QED BY <3>1 DEF PlainOf
  <2>3. CASE \A i \in 1 .. Len(v.items) : v.items[i].type \in {"+", "$"}
    <3>1. \A i \in 1 .. Len(v.items) : arg(i) \in Bytes
      BY <2>2, <2>3 DEF Plain
    <3>2. Args(v) = [i \in 1 .. Len(v.items) |-> arg(i)]
      BY <1>1, <2>3 DEF Args
    <3> HIDE DEF arg
    <3> QED BY <2>2, <3>1, <3>2
  <2>4. CASE ~(\A i \in 1 .. Len(v.items) : v.items[i].type \in {"+", "$"})
    <3>1. Args(v) = << >>
      BY <1>1, <2>4 DEF Args
    <3> QED BY <1>0, <3>1
  <2> QED BY <2>3, <2>4
<1>2. CASE v.type = "+"
  <2>1. Args(v) = Words(v.text) /\ v.text \in Bytes
    BY <1>2 DEF Args, TypedValue, Plain
  <2> QED BY <2>1, WordsTyped
<1>3. CASE v.type = "$"
  <2>1. Args(v) = (IF IsUtf8(v.bytes) THEN Words(v.bytes) ELSE << >>) /\ v.bytes \in Bytes
    BY <1>3 DEF Args, TypedValue, Plain
  <2> QED BY <1>0, <2>1, WordsTyped
<1>4. CASE v.type \notin {"*", "+", "$"}
  <2>1. Args(v) = << >>
    BY <1>4 DEF Args
  <2> QED BY <1>0, <2>1
<1> QED BY <1>1, <1>2, <1>3, <1>4

\* The arguments of a request are those it was made of: one frame, and the
\* server takes from it what the client put in (the clients' array of bulk
\* strings, Command::from_resp).
THEOREM ArgsSent ==
  ASSUME NEW args \in Seq(Bytes)
  PROVE  /\ Request(args) \in Bytes
         /\ ParseResp(Request(args)).status = "ok"
         /\ ParseResp(Request(args)).next = Len(Request(args)) + 1
         /\ Args(ParseResp(Request(args)).value) = args
<1> DEFINE items == [i \in 1 .. Len(args) |-> BulkString(args[i])]
<1>1. Len(args) \in Nat /\ \A i \in 1 .. Len(args) : args[i] \in Bytes
  BY ElementOfSeq
<1>2. items \in Seq(Items)
  <2>1. \A i \in 1 .. Len(args) : BulkString(args[i]) \in Items
    BY <1>1 DEF Items
  <2> QED BY <1>1, <2>1
<1>3. /\ Len(items) = Len(args)
      /\ \A i \in 1 .. Len(args) : items[i].type = "$" /\ items[i].bytes = args[i]
  BY <1>1 DEF BulkString
<1> HIDE DEF items
<1>4. Array(items) \in Encodable /\ << >> \in Bytes
  BY <1>2 DEF Encodable, Bytes
<1>5. PICK r : r = Request(args)
  OBVIOUS
<1>6. r = Encode(Array(items))
  BY <1>5 DEF Request, items
<1>7. r \in Bytes /\ ParseResp(r \o << >>) = Parsed(Array(items), Len(r) + 1) /\ r \o << >> = r
  BY <1>4, <1>6, EncodedParsed, Joined
<1>8. Args(Array(items)) = args
  <2>1. Array(items).type = "*" /\ Array(items).items = items
    BY DEF Array
  <2>2. \A i \in 1 .. Len(items) : items[i].type \in {"+", "$"} /\ ~(items[i].type = "+")
    BY <1>3
  <2>3. Args(Array(items)) = [i \in 1 .. Len(items) |->
          IF items[i].type = "+" THEN items[i].text ELSE items[i].bytes]
    BY <2>1, <2>2 DEF Args
  <2>4. Args(Array(items)) = [i \in 1 .. Len(args) |-> args[i]]
    BY <1>3, <2>2, <2>3
  <2>5. args = [i \in 1 .. Len(args) |-> args[i]]
    OBVIOUS
  <2> QED BY <2>4, <2>5
<1> QED BY <1>5, <1>7, <1>8, Results
=============================================================================
