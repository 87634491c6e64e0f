--------------------------- MODULE HttpClientProofs ---------------------------
(***************************************************************************)
(* What module HttpClient promises of an exchange, proved for all          *)
(* responses, sizes of reads and places where the stream is cut or breaks. *)
(*                                                                         *)
(* The inductive invariant ClientInv says that what was read is a          *)
(* beginning of the response and, unless it was cut off, the wire holds    *)
(* the rest of it.  What makes its answers right is DecodeWithin: a body   *)
(* that the decoder takes for complete in the beginning of a stream is the *)
(* one in all of it.  DecoderRight says which body that is, for every      *)
(* chunked coding.                                                         *)
(*                                                                         *)
(* The decoder and the chunk sizes are recursive functions.  That such a   *)
(* function exists, and what it yields, is shown by induction over         *)
(* positions, in lemma UpTo, from the least counterexample that a          *)
(* well-founded order provides.                                            *)
(***************************************************************************)
EXTENDS HttpClient, SequenceTheorems, WellFoundedInduction, TLAPS

-----------------------------------------------------------------------------
(* Pieces of a stream.                                                     *)

\* A beginning of a stream, and what is left of the stream after it.
IsCut(part, s) == part \in Seq(Bytes) /\ Len(part) <= Len(s) /\ part = SubSeq(s, 1, Len(part))
RestOf(part, s) == SubSeq(s, Len(part) + 1, Len(s))

\* A piece of a stream has the bytes that the stream has there.
LEMMA PieceIs ==
    ASSUME NEW s \in Seq(Bytes), NEW m \in Nat, NEW n \in Nat, 1 <= m, n <= Len(s), m <= n + 1
    PROVE  /\ SubSeq(s, m, n) \in Seq(Bytes) /\ Len(SubSeq(s, m, n)) = n - m + 1
           /\ \A i \in 1 .. n - m + 1 : SubSeq(s, m, n)[i] = s[m + i - 1]
  BY SMT

\* A beginning has the bytes of the stream, position by position.
LEMMA CutIs ==
    ASSUME NEW s \in Seq(Bytes), NEW part \in Seq(Bytes)
    PROVE  IsCut(part, s) <=> Len(part) <= Len(s) /\ \A i \in 1 .. Len(part) : part[i] = s[i]
<1>1. Len(part) \in Nat /\ Len(s) \in Nat
  BY LenProperties, Zenon
<1>2. ASSUME Len(part) <= Len(s)
      PROVE  /\ SubSeq(s, 1, Len(part)) \in Seq(Bytes) /\ Len(SubSeq(s, 1, Len(part))) = Len(part)
             /\ \A i \in 1 .. Len(part) : SubSeq(s, 1, Len(part))[i] = s[i]
  BY <1>1, <1>2, PieceIs, SMT
<1>3. ASSUME Len(part) <= Len(s), \A i \in 1 .. Len(part) : part[i] = s[i]
      PROVE  part = SubSeq(s, 1, Len(part))
  BY <1>2, <1>3, SeqEqual, Zenon
<1>4. QED
  BY <1>2, <1>3, Zenon DEF IsCut

\* Two streams, one behind the other.
LEMMA JoinIs ==
    ASSUME NEW a \in Seq(Bytes), NEW b \in Seq(Bytes)
    PROVE  /\ a \o b \in Seq(Bytes) /\ Len(a \o b) = Len(a) + Len(b)
           /\ \A i \in 1 .. Len(a) : (a \o b)[i] = a[i]
           /\ \A i \in 1 .. Len(b) : (a \o b)[Len(a) + i] = b[i]
  BY SMT

\* The rest begins where the beginning ends.
LEMMA RestIs ==
    ASSUME NEW s \in Seq(Bytes), NEW part, IsCut(part, s)
    PROVE  /\ RestOf(part, s) \in Seq(Bytes) /\ Len(RestOf(part, s)) = Len(s) - Len(part)
           /\ \A i \in 1 .. Len(s) - Len(part) : RestOf(part, s)[i] = s[Len(part) + i]
<1>1. Len(part) \in Nat /\ Len(s) \in Nat /\ Len(part) <= Len(s)
  BY LenProperties, Zenon DEF IsCut
<1>2. QED
  BY <1>1, PieceIs, SMT DEF RestOf

\* One more read, of n bytes of the rest.
LEMMA CutExtends ==
    ASSUME NEW s \in Seq(Bytes), NEW part, IsCut(part, s), NEW n \in 1 .. Len(RestOf(part, s))
    PROVE  LET rest == RestOf(part, s)
               next == part \o SubSeq(rest, 1, n)
           IN  /\ IsCut(next, s) /\ Len(next) = Len(part) + n
               /\ RestOf(next, s) = SubSeq(rest, n + 1, Len(rest))
<1> DEFINE rest == RestOf(part, s)
           more == SubSeq(rest, 1, n)
           next == part \o more
<1>1. /\ part \in Seq(Bytes) /\ Len(part) \in Nat /\ Len(s) \in Nat /\ Len(part) <= Len(s)
      /\ \A i \in 1 .. Len(part) : part[i] = s[i]
  BY CutIs, LenProperties, Zenon DEF IsCut
<1>2. /\ rest \in Seq(Bytes) /\ Len(rest) = Len(s) - Len(part)
      /\ \A i \in 1 .. Len(s) - Len(part) : rest[i] = s[Len(part) + i]
  BY RestIs, Zenon
<1>3. n \in Nat /\ 1 <= n /\ n <= Len(rest)
  BY <1>1, <1>2, SMT
<1> HIDE DEF rest
<1>4. more \in Seq(Bytes) /\ Len(more) = n /\ \A i \in 1 .. n : more[i] = rest[i]
  BY <1>2, <1>3, PieceIs, SMT
<1> HIDE DEF more
<1>5. /\ next \in Seq(Bytes) /\ Len(next) = Len(part) + n
      /\ \A i \in 1 .. Len(part) : next[i] = part[i]
      /\ \A i \in 1 .. n : next[Len(part) + i] = more[i]
  BY <1>1, <1>4, JoinIs, Zenon
<1> HIDE DEF next
<1>6. \A i \in 1 .. Len(next) : next[i] = s[i]
  <2>1. SUFFICES ASSUME NEW i \in 1 .. Len(next) PROVE next[i] = s[i]
    OBVIOUS
  <2>2. i \in Nat /\ 1 <= i /\ i <= Len(part) + n
    BY <1>1, <1>3, <1>5, SMT
  <2>3. CASE i <= Len(part)
    <3>1. i \in 1 .. Len(part)
      BY <1>1, <2>2, <2>3, SMT
    <3>2. QED
      BY <3>1, <1>1, <1>5, Zenon
  <2>4. CASE i > Len(part)
    <3> DEFINE j == i - Len(part)
    <3>1. j \in 1 .. n /\ i = Len(part) + j /\ j \in 1 .. Len(s) - Len(part)
      BY <1>1, <1>2, <1>3, <2>2, <2>4, SMT
    <3> HIDE DEF j
    <3>2. next[Len(part) + j] = more[j] /\ more[j] = rest[j] /\ rest[j] = s[Len(part) + j]
      BY <1>2, <1>4, <1>5, <3>1, Zenon
    <3>3. QED
      BY <3>1, <3>2, Zenon
  <2>5. QED
    BY <1>1, <2>2, <2>3, <2>4, SMT
<1>7. IsCut(next, s)
  <2>1. Len(next) <= Len(s)
    BY <1>1, <1>2, <1>3, <1>5, SMT
  <2>2. QED
    BY <1>5, <1>6, <2>1, CutIs, Zenon
<1>8. RestOf(next, s) = SubSeq(rest, n + 1, Len(rest))
  <2> DEFINE a == RestOf(next, s)
             b == SubSeq(rest, n + 1, Len(rest))
  <2>1. /\ a \in Seq(Bytes) /\ Len(a) = Len(s) - Len(next)
        /\ \A i \in 1 .. Len(s) - Len(next) : a[i] = s[Len(next) + i]
    BY <1>7, RestIs, Zenon
  <2>2. /\ b \in Seq(Bytes) /\ Len(b) = Len(rest) - (n + 1) + 1
        /\ \A i \in 1 .. Len(rest) - (n + 1) + 1 : b[i] = rest[(n + 1) + i - 1]
    <3>1. n + 1 \in Nat /\ Len(rest) \in Nat /\ 1 <= n + 1 /\ n + 1 <= Len(rest) + 1
      BY <1>1, <1>2, <1>3, SMT
    <3>2. QED
      BY <1>2, <3>1, PieceIs, SMT
  <2> HIDE DEF a, b
  <2>3. Len(a) = Len(b)
    BY <1>1, <1>2, <1>3, <1>5, <2>1, <2>2, SMT
  <2>4. ASSUME NEW i \in 1 .. Len(a) PROVE a[i] = b[i]
    <3>1. /\ i \in 1 .. Len(s) - Len(next) /\ i \in 1 .. Len(rest) - (n + 1) + 1
          /\ (n + 1) + i - 1 = n + i /\ Len(next) + i = Len(part) + (n + i)
          /\ n + i \in 1 .. Len(s) - Len(part)
      BY <1>1, <1>2, <1>3, <1>5, <2>1, <2>2, <2>3, SMT
    <3>2. a[i] = s[Len(part) + (n + i)]
      BY <2>1, <3>1, Zenon
    <3>3. b[i] = rest[n + i]
      BY <2>2, <3>1, Zenon
    <3>4. rest[n + i] = s[Len(part) + (n + i)]
      BY <1>2, <3>1, Zenon
    <3>5. QED
      BY <3>2, <3>3, <3>4, Zenon
  <2>5. QED
    BY <2>1, <2>2, <2>3, <2>4, SeqEqual, Zenon DEF a, b
<1>9. QED
  BY <1>5, <1>7, <1>8, Zenon DEF next, more, rest

-----------------------------------------------------------------------------
(* Induction, by a least counterexample.                                   *)

Below == { p \in Nat \X Nat : p[1] < p[2] }

\* A set of numbers has a least one.
LEMMA Least ==
    ASSUME NEW S, S \subseteq Nat, S # {}
    PROVE  \E n \in S : \A m \in S : n <= m
<1>1. OpToRel(<, Nat) = Below
  BY DEF OpToRel, Below
<1>2. IsWellFoundedOn(Below, Nat)
  BY <1>1, NatLessThanWellFounded, Zenon
<1>3. \E x \in S : \A y \in S : ~ (<<y, x>> \in Below)
  BY <1>2, WFMin, Zenon
<1>4. \A x, y \in Nat : y < x => <<y, x>> \in Below
  BY SMT DEF Below
<1>5. \A x, y \in Nat : ~(y < x) => x <= y
  BY SMT
<1>6. QED
  BY <1>3, <1>4, <1>5, Zenon

\* A set of numbers that holds 0, and the next of each up to n, holds n.
LEMMA UpTo ==
    ASSUME NEW S, NEW n \in Nat, 0 \in S,
           \A k \in Nat : k < n /\ k \in S => k + 1 \in S
    PROVE  \A k \in 0 .. n : k \in S
<1> DEFINE Rest == { k \in 0 .. n : k \notin S }
<1>1. SUFFICES ASSUME Rest # {} PROVE FALSE
  BY SMT
<1>2. Rest \subseteq Nat
  BY SMT
<1>3. PICK k \in Rest : \A m \in Rest : k <= m
  BY <1>1, <1>2, Least, Zenon
<1>4. k \in Nat /\ k <= n /\ k \notin S
  BY <1>3, SMT
<1>5. k # 0
  BY <1>4, Zenon
<1>6. k - 1 \in Nat /\ k - 1 < n /\ k - 1 \in 0 .. n /\ (k - 1) + 1 = k /\ ~(k <= k - 1)
  BY <1>4, <1>5, SMT
<1>7. k - 1 \in S
  BY <1>3, <1>6, Zenon
<1>8. QED
  BY <1>4, <1>6, <1>7, Zenon

-----------------------------------------------------------------------------
(* Searching.                                                              *)

Hits(s, from, t) ==
    { i \in from .. Len(s) + 1 - Len(t) : \A k \in 1 .. Len(t) : s[i + k - 1] = t[k] }

\* find_subslice finds the first occurrence.
LEMMA FindIs ==
    ASSUME NEW s, NEW t, NEW from \in Nat, Len(s) \in Nat, Len(t) \in Nat
    PROVE  /\ Hits(s, from, t) = {} => Find(s, from, t) = 0
           /\ Hits(s, from, t) # {} =>
                 /\ Find(s, from, t) \in Hits(s, from, t)
                 /\ \A i \in Hits(s, from, t) : Find(s, from, t) <= i
<1> DEFINE hits == Hits(s, from, t)
<1>1. Find(s, from, t) = IF hits = {} THEN 0 ELSE Min(hits)
  BY DEF Find, Hits
<1>2. hits \subseteq Nat
  BY SMT DEF Hits
<1> HIDE DEF hits
<1>3. hits # {} => \E n \in hits : \A m \in hits : n <= m
  BY <1>2, Least, Zenon
<1>4. hits # {} => Min(hits) \in hits /\ \A m \in hits : Min(hits) <= m
  BY <1>3, Zenon DEF Min
<1>5. QED
  BY <1>1, <1>4, Zenon DEF hits

\* A line end at a position.
EndsAt(s, i) == s[i] = "CR" /\ s[i + 1] = "LF"

\* The occurrences of a line end are the positions where one is.
LEMMA LineEnds ==
    ASSUME NEW s, NEW from \in Nat, Len(s) \in Nat
    PROVE  /\ Hits(s, from, CRLF) = { i \in from .. Len(s) - 1 : EndsAt(s, i) }
           /\ Len(CRLF) \in Nat
<1>1. Len(CRLF) = 2 /\ CRLF[1] = "CR" /\ CRLF[2] = "LF"
  BY SMT DEF CRLF
<1>2. ASSUME NEW i \in Int
      PROVE  (\A k \in 1 .. 2 : s[i + k - 1] = CRLF[k]) <=> EndsAt(s, i)
  <2>1. 1 \in 1 .. 2 /\ 2 \in 1 .. 2 /\ \A k \in 1 .. 2 : k = 1 \/ k = 2
    BY SMT
  <2>2. i + 1 - 1 = i /\ i + 2 - 1 = i + 1
    BY <1>2, SMT
  <2>3. QED
    BY <1>1, <2>1, <2>2, Zenon DEF EndsAt
<1>3. Len(s) + 1 - 2 = Len(s) - 1
  BY SMT
<1>4. from .. Len(s) - 1 \subseteq Int
  BY SMT
<1>5. QED
  BY <1>1, <1>2, <1>3, <1>4, SMT DEF Hits

\* A line end that is found in the beginning of a stream is the one that is
\* found in all of it.
LEMMA FindWithin ==
    ASSUME NEW s \in Seq(Bytes), NEW p, IsCut(p, s), NEW pos \in Nat, 1 <= pos,
           Find(p, pos, CRLF) # 0
    PROVE  /\ Find(s, pos, CRLF) = Find(p, pos, CRLF)
           /\ Find(p, pos, CRLF) \in pos .. Len(p) - 1
<1> DEFINE f == Find(p, pos, CRLF)
           g == Find(s, pos, CRLF)
<1>1. /\ p \in Seq(Bytes) /\ Len(p) \in Nat /\ Len(s) \in Nat /\ Len(p) <= Len(s)
      /\ \A i \in 1 .. Len(p) : p[i] = s[i]
  BY CutIs, LenProperties, Zenon DEF IsCut
<1>2. /\ Hits(p, pos, CRLF) = { i \in pos .. Len(p) - 1 : EndsAt(p, i) }
      /\ Hits(s, pos, CRLF) = { i \in pos .. Len(s) - 1 : EndsAt(s, i) }
      /\ Len(CRLF) \in Nat
  BY <1>1, LineEnds, Zenon
<1>3. f \in Hits(p, pos, CRLF) /\ \A i \in Hits(p, pos, CRLF) : f <= i
  BY <1>1, <1>2, FindIs, Zenon
<1> HIDE DEF f
<1>4. f \in pos .. Len(p) - 1 /\ f \in Nat /\ f + 1 \in 1 .. Len(p) /\ f \in 1 .. Len(p)
      /\ f \in pos .. Len(s) - 1
  BY <1>1, <1>2, <1>3, SMT
<1>5. EndsAt(s, f)
  BY <1>1, <1>2, <1>3, <1>4, Zenon DEF EndsAt
<1>6. f \in Hits(s, pos, CRLF)
  BY <1>2, <1>4, <1>5, Zenon
<1>7. g \in Hits(s, pos, CRLF) /\ \A i \in Hits(s, pos, CRLF) : g <= i
  BY <1>1, <1>2, <1>6, FindIs, Zenon
<1> HIDE DEF g
<1>8. g <= f /\ g \in pos .. Len(s) - 1 /\ EndsAt(s, g)
  BY <1>2, <1>6, <1>7, Zenon
<1>9. g \in pos .. Len(p) - 1 /\ g \in 1 .. Len(p) /\ g + 1 \in 1 .. Len(p) /\ g \in Int
  BY <1>1, <1>4, <1>8, SMT
<1>10. EndsAt(p, g)
  BY <1>1, <1>8, <1>9, Zenon DEF EndsAt
<1>11. f <= g
  BY <1>2, <1>3, <1>9, <1>10, Zenon
<1>12. f = g
  BY <1>4, <1>8, <1>9, <1>11, SMT
<1>13. QED
  BY <1>4, <1>12, Zenon DEF f, g

-----------------------------------------------------------------------------
(* Chunk sizes.                                                            *)

\* A digit has a value.
LEMMA DigitsAreNat == \A d \in DOMAIN DigitValue : DigitValue[d] \in Nat
  BY SMT DEF DigitValue

\* The numeral of a size line is a sequence of digits.
LEMMA NumeralIs ==
    ASSUME NEW line \in Seq(Bytes), IsSize(line)
    PROVE  /\ Len(Numeral(line)) \in Nat
           /\ \A i \in 1 .. Len(Numeral(line)) : DigitValue[Numeral(line)[i]] \in Nat
<1> DEFINE end == Find(line, 1, <<";">>)
           digits == Numeral(line)
<1>1. Len(line) \in Nat /\ Len(<<";">>) = 1 /\ 1 \in Nat
  BY LenProperties, SMT
<1>2. Hits(line, 1, <<";">>) \subseteq 1 .. Len(line)
  <2>1. Hits(line, 1, <<";">>) \subseteq 1 .. Len(line) + 1 - Len(<<";">>)
    BY Zenon DEF Hits
  <2>2. Len(line) + 1 - Len(<<";">>) = Len(line)
    BY <1>1, SMT
  <2>3. QED
    BY <2>1, <2>2, Zenon
<1>3. end = 0 \/ end \in 1 .. Len(line)
  <2>1. Len(<<";">>) \in Nat
    BY <1>1, SMT
  <2>2. QED
    BY <1>1, <1>2, <2>1, FindIs, Zenon
<1>4. digits = IF end = 0 THEN line ELSE SubSeq(line, 1, end - 1)
  BY DEF Numeral
<1> HIDE DEF end, digits
<1>5. digits \in Seq(Bytes)
  <2>1. CASE end = 0
    BY <1>4, <2>1, Zenon
  <2>2. CASE end \in 1 .. Len(line)
    <3>1. end - 1 \in Nat /\ 1 <= (end - 1) + 1 /\ end - 1 <= Len(line) /\ end # 0 /\ 1 <= 1
      BY <1>1, <2>2, SMT
    <3>2. SubSeq(line, 1, end - 1) \in Seq(Bytes)
      BY <3>1, PieceIs, SMT
    <3>3. QED
      BY <1>4, <3>1, <3>2, Zenon
  <2>3. QED
    BY <1>3, <2>1, <2>2, Zenon
<1>6. ToSet(digits) \subseteq DOMAIN DigitValue
  BY DEF IsSize, digits
<1>7. \A i \in 1 .. Len(digits) : digits[i] \in ToSet(digits)
  BY <1>5, LenProperties, Zenon DEF ToSet
<1>8. \A i \in 1 .. Len(digits) : DigitValue[digits[i]] \in Nat
  BY <1>6, <1>7, DigitsAreNat, Zenon
<1>9. QED
  BY <1>5, <1>8, LenProperties, Zenon DEF digits

\* The values of the numerals that a numeral begins with.
ValueAt(digits, i, value) == IF i = 0 THEN 0 ELSE 16 * value[i - 1] + DigitValue[digits[i]]

\* The recursion of ChunkSize defines a function.
LEMMA ValuesExist ==
    ASSUME NEW digits, NEW n \in Nat, \A i \in 1 .. n : DigitValue[digits[i]] \in Nat
    PROVE  \E f : f = [i \in 0 .. n |-> ValueAt(digits, i, f)]
<1> DEFINE IsValue(f, k) == f \in [0 .. k -> Nat] /\ \A i \in 0 .. k : f[i] = ValueAt(digits, i, f)
           S == { k \in Nat : \E f : IsValue(f, k) }
<1>1. 0 \in S
  <2> DEFINE f == [i \in 0 .. 0 |-> 0]
  <2>1. f \in [0 .. 0 -> Nat] /\ \A i \in 0 .. 0 : i = 0 /\ f[i] = 0
    BY SMT
  <2> HIDE DEF f
  <2>2. IsValue(f, 0)
    BY <2>1, Zenon DEF ValueAt
  <2>3. QED
    BY <2>2, SMT
<1>2. ASSUME NEW k \in Nat, k < n, k \in S PROVE k + 1 \in S
  <2>1. PICK f : IsValue(f, k)
    BY <1>2, Zenon
  <2> DEFINE d == DigitValue[digits[k + 1]]
             g == [i \in 0 .. k + 1 |-> IF i = k + 1 THEN 16 * f[k] + d ELSE f[i]]
  <2>2. d \in Nat
    <3>1. k + 1 \in 1 .. n
      BY <1>2, SMT
    <3>2. QED
      BY <3>1, Zenon
  <2> HIDE DEF d
  <2>3. f \in [0 .. k -> Nat] /\ \A i \in 0 .. k : f[i] = ValueAt(digits, i, f)
    BY <2>1
  <2>4. /\ g \in [0 .. k + 1 -> Nat] /\ g[k + 1] = 16 * f[k] + d /\ g[k] = f[k]
        /\ \A i \in 0 .. k : g[i] = f[i]
    BY <1>2, <2>2, <2>3, SMT
  <2> HIDE DEF g
  <2>5. ASSUME NEW i \in 0 .. k + 1 PROVE g[i] = ValueAt(digits, i, g)
    <3>1. CASE i = k + 1
      <4>1. i # 0 /\ i - 1 = k
        BY <1>2, <3>1, SMT
      <4>2. QED
        BY <2>4, <3>1, <4>1, Zenon DEF ValueAt, d
    <3>2. CASE i = 0
      <4>1. 0 \in 0 .. k
        BY <1>2, SMT
      <4>2. QED
        BY <2>3, <2>4, <3>2, <4>1, Zenon DEF ValueAt
    <3>3. CASE i # 0 /\ i # k + 1
      <4>1. i \in 0 .. k /\ i - 1 \in 0 .. k
        BY <1>2, <3>3, SMT
      <4>2. g[i] = f[i] /\ g[i - 1] = f[i - 1]
        BY <2>4, <4>1, Zenon
      <4>3. QED
        BY <2>3, <3>3, <4>1, <4>2, Zenon DEF ValueAt
    <3>4. QED
      BY <3>1, <3>2, <3>3, Zenon
  <2>6. IsValue(g, k + 1)
    BY <2>4, <2>5, Zenon
  <2>7. k + 1 \in Nat
    BY <1>2, SMT
  <2>8. QED
    BY <2>6, <2>7, Zenon
<1> HIDE DEF S
<1>3. n \in S
  <2>1. n \in 0 .. n
    BY SMT
  <2>2. QED
    BY <1>1, <1>2, <2>1, UpTo, Zenon
<1>4. PICK f : IsValue(f, n)
  BY <1>3, Zenon DEF S
<1>5. f = [i \in 0 .. n |-> ValueAt(digits, i, f)]
  BY <1>4, Zenon
<1>6. QED
  BY <1>5, Zenon

\* A size line has a size.
LEMMA SizeNat ==
    ASSUME NEW line \in Seq(Bytes), IsSize(line)
    PROVE  ChunkSize(line) \in Nat
<1> DEFINE digits == Numeral(line)
           n == Len(digits)
           value == CHOOSE f : f = [i \in 0 .. n |-> ValueAt(digits, i, f)]
           S == { k \in Nat : value[k] \in Nat }
<1>1. ChunkSize(line) = value[n]
  BY DEF ChunkSize, ValueAt
<1>2. n \in Nat /\ \A i \in 1 .. n : DigitValue[digits[i]] \in Nat
  BY NumeralIs, Zenon
<1> HIDE DEF digits, n
<1>3. value = [i \in 0 .. n |-> ValueAt(digits, i, value)]
  BY <1>2, ValuesExist, Zenon
<1> HIDE DEF value
<1>4. \A i \in 0 .. n : value[i] = ValueAt(digits, i, value)
  BY <1>3, Zenon
<1>5. 0 \in S
  <2>1. 0 \in 0 .. n /\ 0 \in Nat
    BY <1>2, SMT
  <2>2. value[0] = 0
    BY <1>4, <2>1, Zenon DEF ValueAt
  <2>3. QED
    BY <2>1, <2>2, Zenon
<1>6. ASSUME NEW k \in Nat, k < n, k \in S PROVE k + 1 \in S
  <2>1. k + 1 \in 0 .. n /\ k + 1 \in 1 .. n /\ k + 1 # 0 /\ (k + 1) - 1 = k /\ k + 1 \in Nat
    BY <1>2, <1>6, SMT
  <2>2. value[k + 1] = 16 * value[k] + DigitValue[digits[k + 1]]
    BY <1>4, <2>1, Zenon DEF ValueAt
  <2>3. value[k] \in Nat /\ DigitValue[digits[k + 1]] \in Nat
    BY <1>2, <1>6, <2>1, Zenon
  <2>4. value[k + 1] \in Nat
    BY <2>2, <2>3, SMT
  <2>5. QED
    BY <2>1, <2>4, Zenon
<1>7. n \in S
  <2>1. n \in 0 .. n
    BY <1>2, SMT
  <2> HIDE DEF S
  <2>2. QED
    BY <1>2, <1>5, <1>6, <2>1, UpTo, Zenon
<1>8. QED
  BY <1>1, <1>7, Zenon

-----------------------------------------------------------------------------
(* The decoder.                                                            *)

\* The parts of a chunk lie in the stream, one behind the other.
LEMMA ChunkParts ==
    ASSUME NEW s \in Seq(Bytes), NEW pos \in 1 .. Len(s) + 1,
           Find(s, pos, CRLF) # 0, IsSize(SubSeq(s, pos, Find(s, pos, CRLF) - 1))
    PROVE  /\ Find(s, pos, CRLF) \in pos .. Len(s) - 1
           /\ ChunkSize(SubSeq(s, pos, Find(s, pos, CRLF) - 1)) \in Nat
<1> DEFINE eol == Find(s, pos, CRLF)
<1>1. Len(s) \in Nat /\ pos \in Nat /\ 1 <= pos
  BY LenProperties, SMT
<1>2. Hits(s, pos, CRLF) = { i \in pos .. Len(s) - 1 : EndsAt(s, i) } /\ Len(CRLF) \in Nat
  BY <1>1, LineEnds, Zenon
<1>3. eol \in Hits(s, pos, CRLF)
  BY <1>1, <1>2, FindIs, Zenon
<1>4. eol \in pos .. Len(s) - 1
  BY <1>2, <1>3, Zenon
<1> HIDE DEF eol
<1>5. pos \in Nat /\ 1 <= pos /\ eol - 1 \in Nat /\ eol - 1 <= Len(s) /\ pos <= (eol - 1) + 1
  BY <1>1, <1>4, SMT
<1>6. SubSeq(s, pos, eol - 1) \in Seq(Bytes)
  BY <1>5, PieceIs, SMT
<1>7. ChunkSize(SubSeq(s, pos, eol - 1)) \in Nat
  BY <1>6, SizeNat, Zenon DEF eol
<1>8. QED
  BY <1>4, <1>7, Zenon DEF eol

\* What a chunk is depends on nothing but what follows it.
LEMMA ChunkLocal ==
    ASSUME NEW s \in Seq(Bytes), NEW pos \in 1 .. Len(s) + 1, NEW f, NEW g,
           \A i \in pos + 1 .. Len(s) + 1 : f[i] = g[i]
    PROVE  ChunkAt(s, pos, f) = ChunkAt(s, pos, g)
<1> DEFINE eol == Find(s, pos, CRLF)
           line == SubSeq(s, pos, eol - 1)
           size == ChunkSize(line)
           after == eol + 2 + size + 2
<1>1. SUFFICES ASSUME eol # 0, IsSize(line), ~(after > Len(s) + 1) PROVE f[after] = g[after]
  BY Zenon DEF ChunkAt
<1>2. eol \in pos .. Len(s) - 1 /\ size \in Nat /\ Len(s) \in Nat
  BY <1>1, ChunkParts, LenProperties, Zenon
<1> HIDE DEF eol, line, size
<1>3. after \in pos + 1 .. Len(s) + 1
  BY <1>1, <1>2, SMT
<1>4. QED
  BY <1>3, Zenon

IsDecoding(s, f, k) ==
    /\ f = [pos \in k .. Len(s) + 1 |-> f[pos]]
    /\ \A pos \in k .. Len(s) + 1 : f[pos] = ChunkAt(s, pos, f)

\* The recursion of DecodeChunkedBody defines a function.
LEMMA DecodingExists ==
    ASSUME NEW s \in Seq(Bytes)
    PROVE  \E f : f = [pos \in 1 .. Len(s) + 1 |-> ChunkAt(s, pos, f)]
<1> DEFINE n == Len(s)
           S == { m \in Nat : \E f : IsDecoding(s, f, n + 1 - m) }
<1>1. n \in Nat
  BY LenProperties, Zenon
<1>2. 0 \in S
  <2> DEFINE f == [pos \in n + 1 .. n + 1 |-> ChunkAt(s, pos, <<>>)]
  <2>1. n + 1 - 0 = n + 1 /\ n + 1 \in 1 .. n + 1 /\ n + 1 \in n + 1 .. n + 1
        /\ (\A pos \in n + 1 .. n + 1 : pos = n + 1) /\ (n + 1) + 1 .. n + 1 = {}
    BY <1>1, SMT
  <2>2. f = [pos \in n + 1 .. n + 1 |-> f[pos]] /\ f[n + 1] = ChunkAt(s, n + 1, <<>>)
    BY <2>1, Zenon
  <2> HIDE DEF f
  <2>3. ChunkAt(s, n + 1, <<>>) = ChunkAt(s, n + 1, f)
    BY <2>1, ChunkLocal, Zenon
  <2>4. IsDecoding(s, f, n + 1)
    BY <2>1, <2>2, <2>3, Zenon DEF IsDecoding
  <2>5. 0 \in Nat
    BY SMT
  <2>6. QED
    BY <2>1, <2>4, <2>5, Zenon
<1>3. ASSUME NEW m \in Nat, m < n, m \in S PROVE m + 1 \in S
  <2>1. PICK f : IsDecoding(s, f, n + 1 - m)
    BY <1>3, Zenon
  <2> DEFINE k == n + 1 - (m + 1)
             g == [pos \in k .. n + 1 |-> IF pos = k THEN ChunkAt(s, k, f) ELSE f[pos]]
  <2>2. /\ k \in 1 .. n + 1 /\ k \in k .. n + 1 /\ n + 1 - m = k + 1 /\ m + 1 \in Nat
        /\ \A pos \in k .. n + 1 : pos \in 1 .. n + 1 /\ (pos # k => pos \in k + 1 .. n + 1)
        /\ \A pos \in k + 1 .. n + 1 : pos # k /\ pos \in k .. n + 1
        /\ \A pos \in k .. n + 1 : \A i \in pos + 1 .. n + 1 : i \in k + 1 .. n + 1
    BY <1>1, <1>3, SMT
  <2> HIDE DEF k
  <2>3. /\ g = [pos \in k .. n + 1 |-> g[pos]] /\ g[k] = ChunkAt(s, k, f)
        /\ \A pos \in k + 1 .. n + 1 : g[pos] = f[pos]
    BY <2>2, Zenon
  <2> HIDE DEF g
  <2>4. ASSUME NEW pos \in k .. n + 1 PROVE g[pos] = ChunkAt(s, pos, g)
    <3>1. \A i \in pos + 1 .. n + 1 : f[i] = g[i]
      BY <2>2, <2>3, Zenon
    <3>2. pos \in 1 .. Len(s) + 1
      BY <2>2, Zenon
    <3>3. ChunkAt(s, pos, f) = ChunkAt(s, pos, g)
      BY <3>1, <3>2, ChunkLocal, Zenon
    <3>4. g[pos] = ChunkAt(s, pos, f)
      <4>1. CASE pos = k
        BY <2>3, <4>1, Zenon
      <4>2. CASE pos # k
        BY <2>1, <2>2, <2>3, <4>2, Zenon DEF IsDecoding
      <4>3. QED
        BY <4>1, <4>2, Zenon
    <3>5. QED
      BY <3>3, <3>4, Zenon
  <2>5. IsDecoding(s, g, k)
    BY <2>3, <2>4, Zenon DEF IsDecoding
  <2>6. QED
    BY <2>2, <2>5, Zenon DEF k
<1> HIDE DEF S
<1>4. n \in S
  <2>1. n \in 0 .. n
    BY <1>1, SMT
  <2>2. QED
    BY <1>1, <1>2, <1>3, <2>1, UpTo, Zenon
<1>5. PICK f : IsDecoding(s, f, n + 1 - n)
  BY <1>4, Zenon DEF S
<1>6. n + 1 - n = 1
  BY <1>1, SMT
<1>7. f = [pos \in 1 .. n + 1 |-> f[pos]] /\ \A pos \in 1 .. n + 1 : f[pos] = ChunkAt(s, pos, f)
  BY <1>5, <1>6, Zenon DEF IsDecoding
<1>8. [pos \in 1 .. n + 1 |-> f[pos]] = [pos \in 1 .. n + 1 |-> ChunkAt(s, pos, f)]
  BY <1>7, Zenon
<1>9. QED
  BY <1>7, <1>8, Zenon

\* The decoding of a stream, chunk by chunk.
LEMMA DecodingIs ==
    ASSUME NEW s \in Seq(Bytes)
    PROVE  \E f : /\ DecodeChunkedBody(s) = f[1]
                  /\ \A pos \in 1 .. Len(s) + 1 : f[pos] = ChunkAt(s, pos, f)
<1> DEFINE from == CHOOSE f : f = [pos \in 1 .. Len(s) + 1 |-> ChunkAt(s, pos, f)]
<1>1. DecodeChunkedBody(s) = from[1]
  BY DEF DecodeChunkedBody
<1>2. from = [pos \in 1 .. Len(s) + 1 |-> ChunkAt(s, pos, from)]
  BY DecodingExists, Zenon
<1> HIDE DEF from
<1>3. \A pos \in 1 .. Len(s) + 1 : from[pos] = ChunkAt(s, pos, from)
  BY <1>2, Zenon
<1>4. QED
  BY <1>1, <1>3, Zenon

\* A piece of a beginning is a piece of the whole.
LEMMA CutPiece ==
    ASSUME NEW s \in Seq(Bytes), NEW p, IsCut(p, s), NEW m \in Nat, NEW n \in Nat,
           1 <= m, n <= Len(p), m <= n + 1
    PROVE  SubSeq(p, m, n) = SubSeq(s, m, n)
<1> DEFINE a == SubSeq(p, m, n)
           b == SubSeq(s, m, n)
           k == n - m + 1
<1>1. /\ p \in Seq(Bytes) /\ Len(p) \in Nat /\ Len(s) \in Nat /\ n <= Len(s)
      /\ \A i \in 1 .. Len(p) : p[i] = s[i]
  <2>1. p \in Seq(Bytes) /\ Len(p) <= Len(s) /\ \A i \in 1 .. Len(p) : p[i] = s[i]
    BY CutIs, Zenon DEF IsCut
  <2>2. Len(p) \in Nat /\ Len(s) \in Nat
    BY <2>1, LenProperties, Zenon
  <2>3. n <= Len(s)
    BY <2>1, <2>2, SMT
  <2>4. QED
    BY <2>1, <2>2, <2>3, Zenon
<1>2. a \in Seq(Bytes) /\ Len(a) = k /\ \A i \in 1 .. k : a[i] = p[m + i - 1]
  BY <1>1, PieceIs, Zenon
<1>3. b \in Seq(Bytes) /\ Len(b) = k /\ \A i \in 1 .. k : b[i] = s[m + i - 1]
  BY <1>1, PieceIs, Zenon
<1>4. \A i \in 1 .. k : m + i - 1 \in 1 .. Len(p)
  BY <1>1, SMT
<1> HIDE DEF a, b, k
<1>5. \A i \in 1 .. k : a[i] = b[i]
  BY <1>1, <1>2, <1>3, <1>4, Zenon
<1>6. QED
  BY <1>2, <1>3, <1>5, SeqEqual, Zenon DEF a, b

\* What was decoded behind a position of p is decoded there of a longer stream.
Agree(p, pos, f, g) ==
    \A i \in pos + 1 .. Len(p) + 1 : f[i] # Incomplete => g[i] = f[i]

\* A chunk that is all there in the beginning of a stream is there in the
\* stream, if that holds of the chunks behind it.
LEMMA ChunkWithin ==
    ASSUME NEW s \in Seq(Bytes), NEW p, IsCut(p, s), NEW pos \in 1 .. Len(p) + 1, NEW f, NEW g,
           ChunkAt(p, pos, f) # Incomplete, Agree(p, pos, f, g)
    PROVE  ChunkAt(s, pos, g) = ChunkAt(p, pos, f)
<1> DEFINE eol == Find(p, pos, CRLF)
           line == SubSeq(p, pos, eol - 1)
           size == ChunkSize(line)
           data == eol + 2
           after == data + size + 2
           last == data + size - 1
<1>1. eol # 0 /\ IsSize(line)
  BY Zenon DEF ChunkAt
<1>2. p \in Seq(Bytes) /\ Len(p) \in Nat /\ Len(s) \in Nat /\ Len(p) <= Len(s)
  BY LenProperties, Zenon DEF IsCut
<1>3. eol \in pos .. Len(p) - 1 /\ size \in Nat
  BY <1>1, <1>2, ChunkParts, Zenon
<1>4. pos \in Nat /\ 1 <= pos
  BY <1>2, SMT
<1>5. Find(s, pos, CRLF) = eol
  BY <1>1, <1>4, FindWithin, Zenon
<1>6. SubSeq(s, pos, eol - 1) = line
  <2>1. eol - 1 \in Nat /\ eol - 1 <= Len(p) /\ pos <= (eol - 1) + 1
    BY <1>2, <1>3, <1>4, SMT
  <2>2. QED
    BY <1>4, <2>1, CutPiece, Zenon
<1>7. ChunkAt(p, pos, f) = IF size = 0 THEN <<>>
                           ELSE IF after > Len(p) + 1 THEN Incomplete
                           ELSE IF f[after] = Incomplete THEN Incomplete
                           ELSE SubSeq(p, data, last) \o f[after]
  BY <1>1, Zenon DEF ChunkAt
<1>8. ChunkAt(s, pos, g) = IF size = 0 THEN <<>>
                           ELSE IF after > Len(s) + 1 THEN Incomplete
                           ELSE IF g[after] = Incomplete THEN Incomplete
                           ELSE SubSeq(s, data, last) \o g[after]
  BY <1>1, <1>5, <1>6, Zenon DEF ChunkAt
<1>9. CASE size = 0
  BY <1>7, <1>8, <1>9, Zenon
<1>10. CASE size # 0
  <2>1. ~(after > Len(p) + 1) /\ f[after] # Incomplete
    BY <1>7, <1>10, Zenon
  <2> HIDE DEF eol, line, size
  <2>2. /\ after \in pos + 1 .. Len(p) + 1 /\ ~(after > Len(s) + 1)
        /\ data \in Nat /\ last \in Nat /\ 1 <= data /\ last <= Len(p) /\ data <= last + 1
    BY <1>2, <1>3, <1>4, <2>1, SMT
  <2>3. g[after] = f[after]
    BY <2>1, <2>2, Zenon DEF Agree
  <2> HIDE DEF after, data, last
  <2>4. SubSeq(p, data, last) = SubSeq(s, data, last)
    BY <2>2, CutPiece, Zenon
  <2>5. QED
    BY <1>7, <1>8, <1>10, <2>1, <2>2, <2>3, <2>4, Zenon
<1>11. QED
  BY <1>9, <1>10, Zenon

\* What is decoded from the beginning of a stream is what is decoded from all
\* of it: bytes that arrive behind a complete body change nothing.
LEMMA DecodeWithin ==
    ASSUME NEW s \in Seq(Bytes), NEW p, IsCut(p, s), DecodeChunkedBody(p) # Incomplete
    PROVE  DecodeChunkedBody(s) = DecodeChunkedBody(p)
<1>1. p \in Seq(Bytes) /\ Len(p) \in Nat /\ Len(s) \in Nat /\ Len(p) <= Len(s)
  BY LenProperties, Zenon DEF IsCut
<1>2. PICK f : /\ DecodeChunkedBody(p) = f[1]
               /\ \A pos \in 1 .. Len(p) + 1 : f[pos] = ChunkAt(p, pos, f)
  BY <1>1, DecodingIs, Zenon
<1>3. PICK g : /\ DecodeChunkedBody(s) = g[1]
               /\ \A pos \in 1 .. Len(s) + 1 : g[pos] = ChunkAt(s, pos, g)
  BY DecodingIs, Zenon
<1> DEFINE n == Len(p)
           Differs(pos) == f[pos] # Incomplete /\ g[pos] # f[pos]
           Bad == { m \in 0 .. n : Differs(n + 1 - m) }
<1>4. Bad = {}
  <2>1. SUFFICES ASSUME Bad # {} PROVE FALSE
    OBVIOUS
  <2>2. Bad \subseteq Nat
    BY <1>1, SMT
  <2>3. PICK m \in Bad : \A k \in Bad : m <= k
    BY <2>1, <2>2, Least, Zenon
  <2> DEFINE pos == n + 1 - m
  <2>4. m \in 0 .. n /\ Differs(pos)
    BY <2>3
  <2> HIDE DEF Differs
  <2>5. /\ pos \in 1 .. Len(p) + 1 /\ pos \in 1 .. Len(s) + 1
        /\ \A i \in pos + 1 .. Len(p) + 1 :
              n + 1 - i \in 0 .. n /\ n + 1 - (n + 1 - i) = i /\ ~(m <= n + 1 - i)
    BY <1>1, <2>4, SMT
  <2> HIDE DEF pos
  <2>6. \A i \in pos + 1 .. Len(p) + 1 : ~Differs(i)
    BY <2>3, <2>5, Zenon
  <2>7. ChunkAt(p, pos, f) # Incomplete
    <3>1. f[pos] # Incomplete
      BY <2>4, Zenon DEF Differs, pos
    <3>2. QED
      BY <1>2, <2>5, <3>1, Zenon
  <2> HIDE DEF n
  <2>8. ChunkAt(s, pos, g) = ChunkAt(p, pos, f)
    <3>1. Agree(p, pos, f, g)
      BY <2>6, Zenon DEF Differs, Agree
    <3>2. pos \in 1 .. Len(p) + 1
      BY <2>5, Zenon
    <3>3. QED
      BY <2>7, <3>1, <3>2, ChunkWithin, SMT
  <2>9. g[pos] = f[pos]
    BY <1>2, <1>3, <2>5, <2>8, Zenon
  <2>10. QED
    BY <2>4, <2>9, Zenon DEF Differs, pos
<1>5. n \in 0 .. n /\ n + 1 - n = 1
  BY <1>1, SMT
<1>6. g[1] = f[1]
  BY <1>2, <1>4, <1>5, Zenon
<1>7. QED
  BY <1>2, <1>3, <1>6, Zenon

\* The line of a chunk, from pos to its end, and the size that it gives.
ChunkBegins(s, pos, eol, size) ==
    /\ eol \in pos .. Len(s) - 1
    /\ EndsAt(s, eol) /\ \A i \in pos .. eol - 1 : ~EndsAt(s, i)
    /\ IsSize(SubSeq(s, pos, eol - 1)) /\ ChunkSize(SubSeq(s, pos, eol - 1)) = size

\* s begins with a coding of m in n chunks and a last one of size zero: chunk i
\* begins at at[i], its line ends at eol[i], and done[i] bytes precede its data.
IsCodingBy(s, m, n, at, eol, done) ==
    /\ at[0] = 1 /\ done[0] = 0 /\ done[n] = Len(m)
    /\ ChunkBegins(s, at[n], eol[n], 0)
    /\ \A i \in 0 .. n - 1 :
          /\ done[i] < done[i + 1]
          /\ ChunkBegins(s, at[i], eol[i], done[i + 1] - done[i])
          /\ at[i + 1] = eol[i] + (done[i + 1] - done[i]) + 4
          /\ SubSeq(s, eol[i] + 2, eol[i] + (done[i + 1] - done[i]) + 1)
                = SubSeq(m, done[i] + 1, done[i + 1])
IsCoding(s, m) ==
    \E n \in Nat : \E at \in [0 .. n -> Nat \ {0}], eol \in [0 .. n -> Nat], done \in [0 .. n -> 0 .. Len(m)] :
       IsCodingBy(s, m, n, at, eol, done)

\* find_subslice ends the size line of a chunk where it ends.
LEMMA BeginsIs ==
    ASSUME NEW s \in Seq(Bytes), NEW pos \in Nat \ {0}, NEW eol, NEW size, ChunkBegins(s, pos, eol, size)
    PROVE  /\ Find(s, pos, CRLF) = eol /\ eol \in Nat /\ eol # 0 /\ pos \in 1 .. Len(s) + 1
           /\ IsSize(SubSeq(s, pos, eol - 1)) /\ ChunkSize(SubSeq(s, pos, eol - 1)) = size
           /\ pos <= eol /\ eol <= Len(s) - 1 /\ size \in Nat
<1>1. Len(s) \in Nat /\ pos \in Nat /\ 1 <= pos
  BY LenProperties, SMT
<1>2. Hits(s, pos, CRLF) = { i \in pos .. Len(s) - 1 : EndsAt(s, i) } /\ Len(CRLF) \in Nat
  BY <1>1, LineEnds, Zenon
<1>3. /\ eol \in pos .. Len(s) - 1 /\ EndsAt(s, eol) /\ (\A i \in pos .. eol - 1 : ~EndsAt(s, i))
      /\ IsSize(SubSeq(s, pos, eol - 1)) /\ ChunkSize(SubSeq(s, pos, eol - 1)) = size
  BY Zenon DEF ChunkBegins
<1>4. eol \in Hits(s, pos, CRLF)
  BY <1>2, <1>3, Zenon
<1> DEFINE f == Find(s, pos, CRLF)
<1>5. f \in Hits(s, pos, CRLF) /\ f <= eol
  BY <1>1, <1>2, <1>4, FindIs, Zenon
<1> HIDE DEF f
<1>6. f \in pos .. Len(s) - 1 /\ EndsAt(s, f)
  BY <1>2, <1>5, Zenon
<1>7. f \notin pos .. eol - 1
  BY <1>3, <1>6, Zenon
<1>8. f = eol /\ eol \in Nat /\ eol # 0 /\ pos \in 1 .. Len(s) + 1 /\ pos <= eol /\ eol <= Len(s) - 1
  BY <1>1, <1>3, <1>5, <1>6, <1>7, SMT
<1>9. size \in Nat
  BY <1>3, <1>8, ChunkParts, Zenon DEF f
<1>10. QED
  BY <1>3, <1>8, <1>9, Zenon DEF f

\* Two pieces that meet are one.
LEMMA PiecesMeet ==
    ASSUME NEW m \in Seq(Bytes), NEW a \in Nat, NEW b \in Nat, a <= b, b <= Len(m)
    PROVE  SubSeq(m, a + 1, b) \o SubSeq(m, b + 1, Len(m)) = SubSeq(m, a + 1, Len(m))
<1> DEFINE n == Len(m)
           x == SubSeq(m, a + 1, b)
           y == SubSeq(m, b + 1, n)
           z == SubSeq(m, a + 1, n)
<1>1. n \in Nat
  BY LenProperties, Zenon
<1>2. x \in Seq(Bytes) /\ Len(x) = b - (a + 1) + 1 /\ \A i \in 1 .. b - (a + 1) + 1 : x[i] = m[(a + 1) + i - 1]
  <2>1. a + 1 \in Nat /\ 1 <= a + 1 /\ b <= Len(m) /\ a + 1 <= b + 1
    BY <1>1, SMT
  <2>2. QED
    BY <2>1, PieceIs, SMT
<1>3. y \in Seq(Bytes) /\ Len(y) = n - (b + 1) + 1 /\ \A i \in 1 .. n - (b + 1) + 1 : y[i] = m[(b + 1) + i - 1]
  <2>1. b + 1 \in Nat /\ 1 <= b + 1 /\ n <= Len(m) /\ b + 1 <= n + 1
    BY <1>1, SMT
  <2>2. QED
    BY <1>1, <2>1, PieceIs, SMT
<1>4. z \in Seq(Bytes) /\ Len(z) = n - (a + 1) + 1 /\ \A i \in 1 .. n - (a + 1) + 1 : z[i] = m[(a + 1) + i - 1]
  <2>1. a + 1 \in Nat /\ 1 <= a + 1 /\ n <= Len(m) /\ a + 1 <= n + 1
    BY <1>1, SMT
  <2>2. QED
    BY <1>1, <2>1, PieceIs, SMT
<1>0. b <= n
  OBVIOUS
<1> HIDE DEF n, x, y, z
<1> DEFINE xy == x \o y
<1>5. /\ xy \in Seq(Bytes) /\ Len(xy) = Len(x) + Len(y)
      /\ \A i \in 1 .. Len(x) : xy[i] = x[i]
      /\ \A i \in 1 .. Len(y) : xy[Len(x) + i] = y[i]
  BY <1>2, <1>3, JoinIs, Zenon
<1> HIDE DEF xy
<1>6. Len(xy) = Len(z)
  BY <1>0, <1>1, <1>2, <1>3, <1>4, <1>5, SMT
<1>7. ASSUME NEW i \in 1 .. Len(xy) PROVE xy[i] = z[i]
  <2>1. i \in 1 .. n - (a + 1) + 1 /\ i \in Nat
    BY <1>1, <1>4, <1>6, SMT
  <2>2. z[i] = m[(a + 1) + i - 1]
    BY <1>4, <2>1, Zenon
  <2>3. CASE i <= b - a
    <3>1. i \in 1 .. Len(x) /\ i \in 1 .. b - (a + 1) + 1
      BY <1>1, <1>2, <2>1, <2>3, SMT
    <3>2. QED
      BY <1>2, <1>5, <2>2, <3>1, Zenon
  <2>4. CASE i > b - a
    <3> DEFINE j == i - (b - a)
    <3>1. j \in 1 .. Len(y) /\ j \in 1 .. n - (b + 1) + 1 /\ Len(x) + j = i /\ (b + 1) + j - 1 = (a + 1) + i - 1
      BY <1>0, <1>1, <1>2, <1>3, <2>1, <2>4, SMT
    <3> HIDE DEF j
    <3>2. xy[Len(x) + j] = y[j] /\ y[j] = m[(b + 1) + j - 1]
      BY <1>3, <1>5, <3>1, Zenon
    <3>3. QED
      BY <2>2, <3>1, <3>2, Zenon
  <2>5. QED
    BY <2>1, <2>3, <2>4, SMT
<1>8. QED
  BY <1>4, <1>5, <1>6, <1>7, SeqEqual, Zenon DEF xy, x, y, z, n

\* Whatever the sizes of the chunks, however they are spelled and extended, and
\* whatever follows the last one: decode_chunked_body gives the data.
THEOREM DecoderRight ==
    ASSUME NEW s \in Seq(Bytes), NEW m \in Seq(Bytes), IsCoding(s, m), Incomplete \notin Seq(Bytes)
    PROVE  DecodeChunkedBody(s) = m
<1>0. PICK n \in Nat : \E at \in [0 .. n -> Nat \ {0}], eol \in [0 .. n -> Nat],
                           done \in [0 .. n -> 0 .. Len(m)] : IsCodingBy(s, m, n, at, eol, done)
  BY Zenon DEF IsCoding
<1>1. PICK at \in [0 .. n -> Nat \ {0}], eol \in [0 .. n -> Nat],
           done \in [0 .. n -> 0 .. Len(m)] : IsCodingBy(s, m, n, at, eol, done)
  BY <1>0, Zenon
<1>2. PICK f : /\ DecodeChunkedBody(s) = f[1]
               /\ \A pos \in 1 .. Len(s) + 1 : f[pos] = ChunkAt(s, pos, f)
  BY DecodingIs, Zenon
<1>3. Len(s) \in Nat /\ Len(m) \in Nat
  BY LenProperties, Zenon
<1>4. \A i \in 0 .. n : at[i] \in Nat \ {0} /\ done[i] \in 0 .. Len(m) /\ done[i] \in Nat /\ done[i] <= Len(m)
  BY <1>3, SMT
<1> DEFINE Left(d) == SubSeq(m, d + 1, Len(m))
           Good(i) == f[at[i]] = Left(done[i])
           S == { k \in Nat : Good(n - k) }
<1>5. \A d \in 0 .. Len(m) : Left(d) \in Seq(Bytes) /\ Len(Left(d)) = Len(m) - d
  <2>1. ASSUME NEW d \in 0 .. Len(m) PROVE Left(d) \in Seq(Bytes) /\ Len(Left(d)) = Len(m) - d
    <3>1. d + 1 \in Nat /\ 1 <= d + 1 /\ Len(m) <= Len(m) /\ d + 1 <= Len(m) + 1 /\ Len(m) - (d + 1) + 1 = Len(m) - d
      BY <1>3, SMT
    <3>2. Left(d) \in Seq(Bytes) /\ Len(Left(d)) = Len(m) - (d + 1) + 1
      BY <1>3, <3>1, PieceIs, Zenon
    <3>3. QED
      BY <3>1, <3>2, Zenon
  <2>2. QED
    BY <2>1, Zenon
<1> HIDE DEF Left
<1>6. 0 \in S
  <2>1. n - 0 = n /\ n \in 0 .. n /\ 0 \in Nat
    BY SMT
  <2>2. ChunkBegins(s, at[n], eol[n], 0) /\ done[n] = Len(m) /\ at[n] \in Nat \ {0}
    BY <1>1, <1>4, <2>1, Zenon DEF IsCodingBy
  <2>3. f[at[n]] = ChunkAt(s, at[n], f) /\ Find(s, at[n], CRLF) = eol[n] /\ eol[n] # 0
        /\ IsSize(SubSeq(s, at[n], eol[n] - 1)) /\ ChunkSize(SubSeq(s, at[n], eol[n] - 1)) = 0
    BY <1>2, <2>2, BeginsIs, Zenon
  <2>4. f[at[n]] = <<>>
    BY <2>3, Zenon DEF ChunkAt
  <2>5. Left(Len(m)) = <<>>
    <3>1. Left(Len(m)) \in Seq(Bytes) /\ Len(Left(Len(m))) = 0
      BY <1>3, <1>5, SMT
    <3>2. QED
      BY <3>1, EmptySeq, SMT
  <2>6. QED
    BY <2>1, <2>2, <2>4, <2>5, Zenon
<1>7. ASSUME NEW k \in Nat, k < n, k \in S PROVE k + 1 \in S
  <2> DEFINE i == n - (k + 1)
  <2>1. i \in 0 .. n - 1 /\ i \in 0 .. n /\ i + 1 \in 0 .. n /\ n - k = i + 1 /\ k + 1 \in Nat
    BY <1>7, SMT
  <2>2. Good(i + 1)
    BY <1>7, <2>1, Zenon
  <2> HIDE DEF i
  <2> DEFINE pos == at[i]
             end == eol[i]
             size == done[i + 1] - done[i]
             after == end + size + 4
             line == SubSeq(s, pos, end - 1)
  <2>3. /\ done[i] < done[i + 1] /\ ChunkBegins(s, pos, end, size) /\ at[i + 1] = after
        /\ SubSeq(s, end + 2, end + size + 1) = SubSeq(m, done[i] + 1, done[i + 1])
    BY <1>1, <2>1, Zenon DEF IsCodingBy
  <2>4. /\ done[i] \in Nat /\ done[i + 1] \in Nat /\ done[i + 1] <= Len(m) /\ done[i + 1] \in 0 .. Len(m)
        /\ pos \in Nat \ {0} /\ at[i + 1] \in Nat \ {0}
    BY <1>4, <2>1, Zenon
  <2>5. at[i + 1] \in 1 .. Len(s) + 1
    <3>1. CASE i + 1 = n
      <4>1. ChunkBegins(s, at[i + 1], eol[i + 1], 0)
        BY <1>1, <3>1, Zenon DEF IsCodingBy
      <4>2. QED
        BY <2>4, <4>1, BeginsIs, Zenon
    <3>2. CASE i + 1 # n
      <4>1. i + 1 \in 0 .. n - 1
        BY <2>1, <3>2, SMT
      <4>2. ChunkBegins(s, at[i + 1], eol[i + 1], done[(i + 1) + 1] - done[i + 1])
        BY <1>1, <4>1, Zenon DEF IsCodingBy
      <4>3. QED
        BY <2>4, <4>2, BeginsIs, Zenon
    <3>3. QED
      BY <3>1, <3>2, Zenon
  <2>6. /\ Find(s, pos, CRLF) = end /\ end # 0 /\ end \in Nat /\ pos \in 1 .. Len(s) + 1
        /\ IsSize(line) /\ ChunkSize(line) = size /\ size \in Nat
    BY <2>3, <2>4, BeginsIs, Zenon
  <2>7. size # 0
    BY <2>3, <2>4, SMT
  <2>8. f[pos] = ChunkAt(s, pos, f)
    BY <1>2, <2>6, Zenon
  <2>9. f[after] = Left(done[i + 1]) /\ f[after] # Incomplete
    BY <1>5, <2>2, <2>3, <2>4, Zenon
  <2>10. SubSeq(m, done[i] + 1, done[i + 1]) \o Left(done[i + 1]) = Left(done[i])
    <3>1. done[i] <= done[i + 1]
      BY <2>3, <2>4, SMT
    <3>2. QED
      BY <2>4, <3>1, PiecesMeet, Zenon DEF Left
  <2>11. after \in 1 .. Len(s) + 1
    BY <2>3, <2>5, Zenon
  <2> HIDE DEF pos, end, size, line
  <2>12. end + 2 + size + 2 = after /\ end + 2 + size - 1 = end + size + 1 /\ ~(after > Len(s) + 1)
    BY <1>3, <2>6, <2>11, SMT
  <2> HIDE DEF after
  <2>13. f[pos] = SubSeq(s, end + 2, end + size + 1) \o f[after]
    BY <2>6, <2>7, <2>8, <2>9, <2>12, Zenon DEF ChunkAt, line
  <2>14. Good(i)
    BY <2>3, <2>9, <2>10, <2>13, Zenon DEF pos
  <2>15. QED
    BY <2>1, <2>14, Zenon DEF i
<1> HIDE DEF S
<1>8. n \in S
  <2>1. n \in 0 .. n
    BY SMT
  <2>2. QED
    BY <1>6, <1>7, <2>1, UpTo, Zenon
<1>9. Good(0)
  <2>1. n - n = 0
    BY SMT
  <2>2. QED
    BY <1>8, <2>1, Zenon DEF S
<1>10. f[1] = Left(0)
  BY <1>1, <1>9, Zenon DEF IsCodingBy
<1>11. Left(0) = m
  <2>1. Len(m) \in Nat /\ 0 + 1 = 1
    BY <1>3, SMT
  <2>2. SubSeq(m, 1, Len(m)) = m
    BY <2>1, SMT
  <2>3. QED
    BY <2>1, <2>2, Zenon DEF Left
<1>12. QED
  BY <1>2, <1>10, <1>11, Zenon

-----------------------------------------------------------------------------
(* The response on the wire.                                               *)

HeadLength == 5

\* A line end, and two of them.
LEMMA LineEndIs ==
    /\ CRLF \in Seq(Bytes) /\ Len(CRLF) = 2 /\ CRLF[1] = "CR" /\ CRLF[2] = "LF"
    /\ CRLF \o CRLF \in Seq(Bytes) /\ Len(CRLF \o CRLF) = 4
    /\ (CRLF \o CRLF)[1] = "CR" /\ (CRLF \o CRLF)[2] = "LF"
    /\ (CRLF \o CRLF)[3] = "CR" /\ (CRLF \o CRLF)[4] = "LF"
<1>1. \A c, l \in Bytes : /\ <<c, l>> \in Seq(Bytes) /\ Len(<<c, l>>) = 2
                          /\ <<c, l>>[1] = c /\ <<c, l>>[2] = l
  BY SMT
<1>2. "CR" \in Bytes /\ "LF" \in Bytes
  BY ClientAssumption, Zenon DEF ClientAssumption
<1>3. CRLF \in Seq(Bytes) /\ Len(CRLF) = 2 /\ CRLF[1] = "CR" /\ CRLF[2] = "LF"
  BY <1>1, <1>2, Zenon DEF CRLF
<1> DEFINE t == CRLF \o CRLF
<1>4. /\ t \in Seq(Bytes) /\ Len(t) = Len(CRLF) + Len(CRLF)
      /\ \A i \in 1 .. Len(CRLF) : t[i] = CRLF[i]
      /\ \A i \in 1 .. Len(CRLF) : t[Len(CRLF) + i] = CRLF[i]
  BY <1>3, JoinIs, Zenon
<1> HIDE DEF t
<1>5. 1 \in 1 .. 2 /\ 2 \in 1 .. 2 /\ 2 + 1 = 3 /\ 2 + 2 = 4
  BY SMT
<1>6. Len(t) = 4 /\ t[1] = "CR" /\ t[2] = "LF" /\ t[3] = "CR" /\ t[4] = "LF"
  BY <1>3, <1>4, <1>5, Zenon
<1>7. QED
  BY <1>3, <1>4, <1>6, Zenon DEF t

\* The head, byte by byte.
LEMMA HeadIs ==
    LET a == <<"head">> \o CRLF \o CRLF
    IN  /\ a \in Seq(Bytes) /\ Len(a) = 5
        /\ a[1] = "head" /\ a[2] = "CR" /\ a[3] = "LF" /\ a[4] = "CR" /\ a[5] = "LF"
<1> DEFINE h == <<"head">>
           b == h \o CRLF
           a == b \o CRLF
<1>1. "head" \in Bytes
  BY ClientAssumption, Zenon DEF ClientAssumption
<1>2. \A x \in Bytes : <<x>> \in Seq(Bytes) /\ Len(<<x>>) = 1 /\ <<x>>[1] = x
  BY SMT
<1>3. h \in Seq(Bytes) /\ Len(h) = 1 /\ h[1] = "head"
  BY <1>1, <1>2, Zenon
<1>4. CRLF \in Seq(Bytes) /\ Len(CRLF) = 2 /\ CRLF[1] = "CR" /\ CRLF[2] = "LF"
  BY LineEndIs, Zenon
<1> HIDE DEF h
<1>5. /\ b \in Seq(Bytes) /\ Len(b) = Len(h) + Len(CRLF)
      /\ \A i \in 1 .. Len(h) : b[i] = h[i]
      /\ \A i \in 1 .. Len(CRLF) : b[Len(h) + i] = CRLF[i]
  BY <1>3, <1>4, JoinIs, Zenon
<1> HIDE DEF b
<1>6. 1 + 2 = 3 /\ 1 \in 1 .. 1 /\ 1 \in 1 .. 2 /\ 2 \in 1 .. 2 /\ 1 + 1 = 2 /\ 3 + 2 = 5 /\ 3 + 1 = 4
      /\ 1 \in 1 .. 3 /\ 2 \in 1 .. 3 /\ 3 \in 1 .. 3
  BY SMT
<1>7. Len(b) = 3 /\ b[1] = "head" /\ b[2] = "CR" /\ b[3] = "LF"
  BY <1>3, <1>4, <1>5, <1>6, Zenon
<1>8. /\ a \in Seq(Bytes) /\ Len(a) = Len(b) + Len(CRLF)
      /\ \A i \in 1 .. Len(b) : a[i] = b[i]
      /\ \A i \in 1 .. Len(CRLF) : a[Len(b) + i] = CRLF[i]
  BY <1>4, <1>5, JoinIs, Zenon
<1> HIDE DEF a
<1>9. /\ a \in Seq(Bytes) /\ Len(a) = 5
      /\ a[1] = "head" /\ a[2] = "CR" /\ a[3] = "LF" /\ a[4] = "CR" /\ a[5] = "LF"
  BY <1>4, <1>6, <1>7, <1>8, Zenon
<1>10. QED
  BY <1>9, Zenon DEF a, b, h

\* A response on the wire: five bytes for the head, then the body.
LEMMA WireIs ==
    ASSUME NEW r, r.payload \in Seq(Bytes)
    PROVE  /\ Wire(r) \in Seq(Bytes) /\ Len(Wire(r)) = HeadLength + Len(r.payload)
           /\ Wire(r)[1] = "head" /\ Wire(r)[2] = "CR" /\ Wire(r)[3] = "LF"
           /\ Wire(r)[4] = "CR" /\ Wire(r)[5] = "LF"
           /\ \A i \in 1 .. Len(r.payload) : Wire(r)[HeadLength + i] = r.payload[i]
<1> DEFINE a == <<"head">> \o CRLF \o CRLF
<1>3. /\ a \in Seq(Bytes) /\ Len(a) = 5
      /\ a[1] = "head" /\ a[2] = "CR" /\ a[3] = "LF" /\ a[4] = "CR" /\ a[5] = "LF"
  BY HeadIs
<1>4. Wire(r) = a \o r.payload
  BY Zenon DEF Wire
<1> HIDE DEF a
<1>5. /\ a \o r.payload \in Seq(Bytes) /\ Len(a \o r.payload) = Len(a) + Len(r.payload)
      /\ \A i \in 1 .. Len(a) : (a \o r.payload)[i] = a[i]
      /\ \A i \in 1 .. Len(r.payload) : (a \o r.payload)[Len(a) + i] = r.payload[i]
  BY <1>3, JoinIs, Zenon
<1>6. 1 \in 1 .. 5 /\ 2 \in 1 .. 5 /\ 3 \in 1 .. 5 /\ 4 \in 1 .. 5 /\ 5 \in 1 .. 5
  BY SMT
<1>7. QED
  BY <1>3, <1>4, <1>5, <1>6, Zenon DEF HeadLength

\* The end of the head is found as soon as its last byte is there, at its place.
LEMMA HeadEnds ==
    ASSUME NEW r, r.payload \in Seq(Bytes), NEW got, IsCut(got, Wire(r))
    PROVE  Find(got, 1, CRLF \o CRLF) = IF Len(got) >= HeadLength THEN 2 ELSE 0
<1> DEFINE t == CRLF \o CRLF
           hits == Hits(got, 1, t)
           n == Len(got)
<1>2. Len(t) = 4 /\ t[1] = "CR" /\ t[2] = "LF" /\ t[3] = "CR" /\ t[4] = "LF"
  BY LineEndIs, Zenon
<1>3. /\ got \in Seq(Bytes) /\ n \in Nat /\ \A i \in 1 .. n : got[i] = Wire(r)[i]
  BY WireIs, CutIs, LenProperties, Zenon DEF IsCut
<1> HIDE DEF t, n
<1>4. hits = { i \in 1 .. n - 3 : \A k \in 1 .. 4 : got[i + k - 1] = t[k] }
  <2>1. n + 1 - 4 = n - 3
    BY <1>3, SMT
  <2>2. hits = { i \in 1 .. n + 1 - Len(t) : \A k \in 1 .. Len(t) : got[i + k - 1] = t[k] }
    BY Zenon DEF Hits, n
  <2>3. QED
    BY <1>2, <2>1, <2>2, Zenon
<1>5. hits = {} => Find(got, 1, t) = 0
  <2>1. Len(got) \in Nat /\ Len(t) \in Nat /\ 1 \in Nat
    BY <1>2, <1>3, SMT DEF n
  <2>2. QED
    BY <2>1, FindIs, Zenon
<1>6. hits # {} => Find(got, 1, t) \in hits /\ \A i \in hits : Find(got, 1, t) <= i
  <2>1. Len(got) \in Nat /\ Len(t) \in Nat /\ 1 \in Nat
    BY <1>2, <1>3, SMT DEF n
  <2>2. QED
    BY <2>1, FindIs, Zenon
<1> HIDE DEF hits
<1>7. 1 \notin hits
  <2>1. SUFFICES ASSUME 1 \in hits PROVE FALSE
    OBVIOUS
  <2>2. 1 \in 1 .. n - 3 /\ \A k \in 1 .. 4 : got[1 + k - 1] = t[k]
    BY <1>4, <2>1, Zenon
  <2>3. 1 \in 1 .. 4 /\ 1 + 1 - 1 = 1 /\ 1 \in 1 .. n
    BY <1>3, <2>2, SMT
  <2>4. got[1] = "CR" /\ got[1] = "head"
    BY <1>2, <1>3, <2>2, <2>3, WireIs, Zenon
  <2>5. QED
    BY <2>4, SMT
<1>8. \A i \in hits : i \in Nat /\ 2 <= i /\ i <= n - 3
  <2>1. \A i \in hits : i \in 1 .. n - 3 /\ i # 1
    BY <1>4, <1>7, Zenon
  <2>2. \A i \in 1 .. n - 3 : i # 1 => i \in Nat /\ 2 <= i /\ i <= n - 3
    BY <1>3, SMT
  <2>3. QED
    BY <2>1, <2>2, Zenon
<1>9. CASE n >= 5
  <2>1. \A k \in 1 .. 4 : k = 1 \/ k = 2 \/ k = 3 \/ k = 4
    BY SMT
  <2>2. /\ 2 \in 1 .. n - 3 /\ 2 \in 1 .. n /\ 3 \in 1 .. n /\ 4 \in 1 .. n /\ 5 \in 1 .. n
        /\ 2 + 1 - 1 = 2 /\ 2 + 2 - 1 = 3 /\ 2 + 3 - 1 = 4 /\ 2 + 4 - 1 = 5
    BY <1>3, <1>9, SMT
  <2>3. got[2] = "CR" /\ got[3] = "LF" /\ got[4] = "CR" /\ got[5] = "LF"
    BY <1>3, <2>2, WireIs, Zenon
  <2>4. \A k \in 1 .. 4 : got[2 + k - 1] = t[k]
    BY <1>2, <2>1, <2>2, <2>3, Zenon
  <2>5. 2 \in hits
    BY <1>4, <2>2, <2>4, Zenon
  <2>6. Find(got, 1, t) \in hits /\ Find(got, 1, t) <= 2
    BY <1>6, <2>5, Zenon
  <2>7. Find(got, 1, t) = 2
    BY <1>8, <2>6, SMT
  <2>8. QED
    BY <1>9, <2>7, Zenon DEF t, n, HeadLength
<1>10. CASE ~(n >= 5)
  <2>1. hits = {}
    <3>1. \A i \in hits : FALSE
      BY <1>3, <1>8, <1>10, SMT
    <3>2. QED
      BY <3>1, Zenon
  <2>2. QED
    BY <1>5, <1>10, <2>1, Zenon DEF t, n, HeadLength
<1>11. QED
  BY <1>9, <1>10, Zenon

\* The bytes behind the head are the beginning of the body.
LEMMA BodyBegins ==
    ASSUME NEW r, r.payload \in Seq(Bytes), NEW got, IsCut(got, Wire(r)), Len(got) >= HeadLength
    PROVE  LET b == SubSeq(got, HeadLength + 1, Len(got))
           IN  IsCut(b, r.payload) /\ RestOf(b, r.payload) = RestOf(got, Wire(r))
<1> DEFINE s == r.payload
           w == Wire(r)
           n == Len(got)
           b == SubSeq(got, HeadLength + 1, n)
<1>1. /\ w \in Seq(Bytes) /\ Len(w) = 5 + Len(s)
      /\ \A i \in 1 .. Len(s) : w[5 + i] = s[i]
  BY WireIs, Zenon DEF HeadLength
<1> HIDE DEF w
<1>2. got \in Seq(Bytes) /\ n <= Len(w) /\ \A i \in 1 .. n : got[i] = w[i]
  BY <1>1, CutIs, Zenon DEF IsCut, w
<1>3. n \in Nat /\ Len(s) \in Nat /\ Len(w) \in Nat /\ n >= 5
  BY <1>1, <1>2, LenProperties, Zenon DEF HeadLength
<1> HIDE DEF s
<1>4. /\ b \in Seq(Bytes) /\ Len(b) = n - 5
      /\ \A i \in 1 .. n - 5 : b[i] = got[5 + i]
  <2>1. HeadLength + 1 \in Nat /\ 1 <= HeadLength + 1 /\ n <= Len(got) /\ HeadLength + 1 <= n + 1
        /\ n - (HeadLength + 1) + 1 = n - 5 /\ \A i \in 1 .. n - 5 : (HeadLength + 1) + i - 1 = 5 + i
    BY <1>3, SMT DEF HeadLength
  <2>2. /\ b \in Seq(Bytes) /\ Len(b) = n - (HeadLength + 1) + 1
        /\ \A i \in 1 .. n - (HeadLength + 1) + 1 : b[i] = got[(HeadLength + 1) + i - 1]
    BY <1>2, <1>3, <2>1, PieceIs, Zenon
  <2>3. QED
    BY <2>1, <2>2, Zenon
<1> HIDE DEF b
<1>5. s \in Seq(Bytes)
  BY DEF s
<1>6. \A i \in 1 .. Len(b) : b[i] = s[i]
  <2>1. \A i \in 1 .. n - 5 : i \in 1 .. Len(s) /\ 5 + i \in 1 .. n
    BY <1>1, <1>2, <1>3, SMT
  <2>2. QED
    BY <1>1, <1>2, <1>4, <2>1, Zenon
<1>7. IsCut(b, s)
  <2>1. Len(b) <= Len(s)
    BY <1>1, <1>2, <1>3, <1>4, SMT
  <2>2. QED
    BY <1>4, <1>5, <1>6, <2>1, CutIs, Zenon
<1>8. RestOf(b, s) = RestOf(got, w)
  <2> DEFINE x == RestOf(b, s)
             y == RestOf(got, w)
  <2>1. /\ x \in Seq(Bytes) /\ Len(x) = Len(s) - Len(b)
        /\ \A i \in 1 .. Len(s) - Len(b) : x[i] = s[Len(b) + i]
    BY <1>5, <1>7, RestIs, Zenon
  <2>2. /\ y \in Seq(Bytes) /\ Len(y) = Len(w) - n
        /\ \A i \in 1 .. Len(w) - n : y[i] = w[n + i]
    BY <1>1, RestIs, Zenon DEF w, n
  <2> HIDE DEF x, y
  <2>3. /\ Len(x) = Len(y) /\ Len(s) - Len(b) = Len(x) /\ Len(w) - n = Len(x)
        /\ \A i \in 1 .. Len(x) : Len(b) + i \in 1 .. Len(s) /\ 5 + (Len(b) + i) = n + i
    BY <1>1, <1>2, <1>3, <1>4, <2>1, <2>2, SMT
  <2>4. \A i \in 1 .. Len(x) : x[i] = y[i]
    BY <1>1, <2>1, <2>2, <2>3, Zenon
  <2>5. QED
    BY <2>1, <2>2, <2>3, <2>4, SeqEqual, Zenon DEF x, y
<1>9. QED
  BY <1>7, <1>8, Zenon DEF b, s, w, n

\* Nothing and everything of a stream.
LEMMA CutNone ==
    ASSUME NEW s \in Seq(Bytes)
    PROVE  IsCut(<<>>, s) /\ RestOf(<<>>, s) = s
<1>1. Len(s) \in Nat /\ Len(<<>>) = 0 /\ <<>> \in Seq(Bytes)
  BY LenProperties, SMT
<1>2. IsCut(<<>>, s)
  <2>1. Len(<<>>) <= Len(s) /\ \A i \in 1 .. Len(<<>>) : <<>>[i] = s[i]
    BY <1>1, SMT
  <2>2. QED
    BY <1>1, <2>1, CutIs, Zenon
<1> DEFINE x == RestOf(<<>>, s)
<1>3. /\ x \in Seq(Bytes) /\ Len(x) = Len(s) - Len(<<>>)
      /\ \A i \in 1 .. Len(s) - Len(<<>>) : x[i] = s[Len(<<>>) + i]
  BY <1>2, RestIs, Zenon
<1> HIDE DEF x
<1>4. Len(x) = Len(s) /\ \A i \in 1 .. Len(x) : i \in 1 .. Len(s) - Len(<<>>) /\ Len(<<>>) + i = i
  BY <1>1, <1>3, SMT
<1>5. \A i \in 1 .. Len(x) : x[i] = s[i]
  BY <1>3, <1>4, Zenon
<1>6. x = s
  BY <1>3, <1>4, <1>5, SeqEqual, Zenon
<1>7. QED
  BY <1>2, <1>6, Zenon DEF x

\* A beginning with no rest is everything.
LEMMA CutAll ==
    ASSUME NEW s \in Seq(Bytes), NEW b, IsCut(b, s), RestOf(b, s) = <<>>
    PROVE  b = s
<1>1. Len(RestOf(b, s)) = Len(s) - Len(b)
  BY RestIs, Zenon
<1>2. b \in Seq(Bytes) /\ \A i \in 1 .. Len(b) : b[i] = s[i]
  BY CutIs, Zenon DEF IsCut
<1>3. Len(b) \in Nat /\ Len(s) \in Nat
  BY <1>2, LenProperties, Zenon
<1>4. Len(b) = Len(s)
  <2>1. Len(RestOf(b, s)) = 0
    BY SMT
  <2>2. QED
    BY <1>1, <1>3, <2>1, SMT
<1>5. QED
  BY <1>2, <1>4, SeqEqual, Zenon

-----------------------------------------------------------------------------
(* Bodies.                                                                 *)

\* The framing of a response, and when a body is complete under it.
FramingOf(r) == IF r.chunked THEN "chunked" ELSE IF r.length # None THEN "length" ELSE "eof"
EnoughOf(r, b) ==
    \/ FramingOf(r) = "chunked" /\ DecodeChunkedBody(b) # Incomplete
    \/ FramingOf(r) = "length" /\ Len(b) >= r.length
ContentsOf(r, b) ==
    CASE FramingOf(r) = "chunked" -> DecodeChunkedBody(b)
      [] FramingOf(r) = "length" -> IF Len(b) > r.length THEN SubSeq(b, 1, r.length) ELSE b
      [] FramingOf(r) = "eof" -> b

\* The framing that the client finds is that of its response.
LEMMA FramingIs ==
    ASSUME resp \in Responses
    PROVE  /\ Framing = FramingOf(resp)
           /\ \A b : Enough(b) <=> EnoughOf(resp, b)
           /\ \A b : Contents(b) = ContentsOf(resp, b)
<1>1. resp.chunked \in BOOLEAN
  BY ClientAssumption, Zenon DEF ClientAssumption, IsResponse
<1>2. Framing = FramingOf(resp)
  <2>1. CASE resp.chunked
    BY <2>1, Zenon DEF Framing, FramingOf
  <2>2. CASE ~resp.chunked /\ resp.length # None
    BY <2>2, Zenon DEF Framing, FramingOf
  <2>3. CASE ~resp.chunked /\ resp.length = None
    BY <2>3, Zenon DEF Framing, FramingOf
  <2>4. QED
    BY <1>1, <2>1, <2>2, <2>3, Zenon
<1>3. QED
  BY <1>2, Zenon DEF Enough, EnoughOf, Contents, ContentsOf, ChunksDone, LengthReached, Truncated

\* What is assumed of responses, by framing.
LEMMA ResponseIs ==
    ASSUME NEW r \in Responses
    PROVE  /\ r.payload \in Seq(Bytes) /\ r.meant \in Seq(Bytes)
           /\ Len(r.payload) \in Nat
           /\ FramingOf(r) \in {"chunked", "length", "eof"}
           /\ FramingOf(r) = "chunked" <=> r.chunked
           /\ FramingOf(r) = "chunked" =>
                 r.meant # Incomplete /\ DecodeChunkedBody(r.payload) = r.meant
           /\ FramingOf(r) = "length" =>
                 r.length \in Nat /\ r.length <= Len(r.payload) /\ r.meant = SubSeq(r.payload, 1, r.length)
           /\ FramingOf(r) = "eof" => r.meant = r.payload
<1>1. IsResponse(r)
  BY ClientAssumption, Zenon DEF ClientAssumption
<1>2. Conveys(r)
  BY ServerAssumption, Zenon DEF ServerAssumption
<1>3. r.payload \in Seq(Bytes) /\ r.meant \in Seq(Bytes) /\ r.chunked \in BOOLEAN
      /\ (r.length # None => r.length \in Nat)
  BY <1>1, Zenon DEF IsResponse
<1>4. Len(r.payload) \in Nat
  BY <1>3, LenProperties, Zenon
<1>5. "chunked" # "length" /\ "length" # "eof" /\ "chunked" # "eof"
  BY SMT
<1>6. CASE r.chunked
  <2>1. FramingOf(r) = "chunked"
    BY <1>6, Zenon DEF FramingOf
  <2>2. QED
    BY <1>2, <1>3, <1>4, <1>5, <1>6, <2>1, Zenon DEF Conveys
<1>7. CASE ~r.chunked /\ r.length # None
  <2>1. FramingOf(r) = "length"
    BY <1>7, Zenon DEF FramingOf
  <2>2. QED
    BY <1>2, <1>3, <1>4, <1>5, <1>7, <2>1, Zenon DEF Conveys
<1>8. CASE ~r.chunked /\ r.length = None
  <2>1. FramingOf(r) = "eof"
    BY <1>8, Zenon DEF FramingOf
  <2>2. QED
    BY <1>2, <1>3, <1>4, <1>5, <1>8, <2>1, Zenon DEF Conveys
<1>9. QED
  BY <1>3, <1>6, <1>7, <1>8, Zenon

\* A beginning with which the client is content yields the body that was meant.
LEMMA Complete ==
    ASSUME NEW r \in Responses, NEW b, IsCut(b, r.payload), EnoughOf(r, b)
    PROVE  ContentsOf(r, b) = r.meant
<1>1. CASE FramingOf(r) = "chunked"
  <2>1. DecodeChunkedBody(b) # Incomplete
    <3>1. "chunked" # "length"
      BY SMT
    <3>2. QED
      BY <1>1, <3>1, Zenon DEF EnoughOf
  <2>2. DecodeChunkedBody(r.payload) = DecodeChunkedBody(b)
    BY <2>1, ResponseIs, DecodeWithin, Zenon
  <2>3. QED
    BY <1>1, <2>2, ResponseIs, Zenon DEF ContentsOf
<1>2. CASE FramingOf(r) = "length"
  <2>1. "chunked" # "length"
    BY SMT
  <2>2. Len(b) >= r.length /\ ContentsOf(r, b) = IF Len(b) > r.length THEN SubSeq(b, 1, r.length) ELSE b
    BY <1>2, <2>1, SMT DEF EnoughOf, ContentsOf
  <2>3. /\ r.length \in Nat /\ r.meant = SubSeq(r.payload, 1, r.length) /\ r.payload \in Seq(Bytes)
        /\ b \in Seq(Bytes) /\ Len(b) \in Nat /\ b = SubSeq(r.payload, 1, Len(b))
    BY <1>2, ResponseIs, LenProperties, Zenon DEF IsCut
  <2>4. CASE Len(b) > r.length
    <3>1. 1 \in Nat /\ 1 <= 1 /\ r.length <= Len(b) /\ 1 <= r.length + 1
      BY <2>3, <2>4, SMT
    <3>2. SubSeq(b, 1, r.length) = SubSeq(r.payload, 1, r.length)
      BY <2>3, <3>1, CutPiece, SMT
    <3>3. QED
      BY <2>2, <2>3, <2>4, <3>2, Zenon
  <2>5. CASE ~(Len(b) > r.length)
    <3>1. Len(b) = r.length
      BY <2>2, <2>3, <2>5, SMT
    <3>2. QED
      BY <2>2, <2>3, <2>5, <3>1, Zenon
  <2>6. QED
    BY <2>4, <2>5, Zenon
<1>3. QED
  BY <1>1, <1>2, Zenon DEF EnoughOf

\* All of a delimited body is enough.
LEMMA WholeEnough ==
    ASSUME NEW r \in Responses, FramingOf(r) # "eof"
    PROVE  EnoughOf(r, r.payload)
<1>1. CASE FramingOf(r) = "chunked"
  BY <1>1, ResponseIs, Zenon DEF EnoughOf
<1>2. CASE FramingOf(r) = "length"
  <2>1. r.length \in Nat /\ Len(r.payload) \in Nat /\ r.length <= Len(r.payload)
    BY <1>2, ResponseIs, Zenon
  <2>2. Len(r.payload) >= r.length
    BY <2>1, SMT
  <2>3. QED
    BY <1>2, <2>2, Zenon DEF EnoughOf
<1>3. QED
  BY <1>1, <1>2, ResponseIs, Zenon

\* Of two beginnings the shorter one is a beginning of the longer one.
LEMMA ShorterCut ==
    ASSUME NEW s \in Seq(Bytes), NEW m, IsCut(m, s), NEW b, IsCut(b, s), Len(b) <= Len(m)
    PROVE  IsPrefix(b, m)
<1>1. b \in Seq(Bytes) /\ m \in Seq(Bytes) /\ Len(b) \in Nat /\ Len(m) \in Nat
  BY LenProperties, Zenon DEF IsCut
<1>2. 1 \in Nat /\ 1 <= 1 /\ Len(b) <= Len(b) /\ 1 <= Len(b) + 1
  BY <1>1, SMT
<1>3. SubSeq(b, 1, Len(b)) = SubSeq(s, 1, Len(b))
  BY <1>1, <1>2, CutPiece, SMT
<1>4. SubSeq(m, 1, Len(b)) = SubSeq(s, 1, Len(b))
  BY <1>1, <1>2, CutPiece, SMT
<1>5. QED
  BY <1>3, <1>4, Zenon DEF IsPrefix

\* A body without chunks that breaks off is the beginning of the one meant.
LEMMA Partial ==
    ASSUME NEW r \in Responses, FramingOf(r) # "chunked", NEW b, IsCut(b, r.payload), ~EnoughOf(r, b)
    PROVE  IsPrefix(b, r.meant)
<1>1. /\ r.payload \in Seq(Bytes) /\ b \in Seq(Bytes) /\ Len(b) \in Nat /\ Len(r.payload) \in Nat
      /\ Len(b) <= Len(r.payload)
  BY ResponseIs, LenProperties, Zenon DEF IsCut
<1>2. CASE FramingOf(r) = "length"
  <2> DEFINE n == r.length
             m == SubSeq(r.payload, 1, n)
  <2>1. n \in Nat /\ n <= Len(r.payload) /\ r.meant = m /\ ~(Len(b) >= n)
    BY <1>2, ResponseIs, Zenon DEF EnoughOf
  <2> HIDE DEF n
  <2>2. 1 \in Nat /\ 1 <= 1 /\ 1 <= n + 1 /\ n - 1 + 1 = n /\ Len(b) <= n
    BY <1>1, <2>1, SMT
  <2>3. m \in Seq(Bytes) /\ Len(m) = n /\ \A i \in 1 .. n : m[i] = r.payload[1 + i - 1]
    BY <1>1, <2>1, <2>2, PieceIs, SMT
  <2> HIDE DEF m
  <2>4. \A i \in 1 .. n : 1 + i - 1 = i
    BY <2>1, SMT
  <2>5. \A i \in 1 .. Len(m) : m[i] = r.payload[i]
    BY <2>3, <2>4, Zenon
  <2>6. IsCut(m, r.payload)
    BY <1>1, <2>1, <2>3, <2>5, CutIs, Zenon
  <2>7. Len(b) <= Len(m)
    BY <2>2, <2>3, Zenon
  <2>8. QED
    BY <1>1, <2>1, <2>6, <2>7, ShorterCut, Zenon
<1>3. CASE FramingOf(r) = "eof"
  <2>1. IsCut(r.payload, r.payload)
    <3>1. Len(r.payload) <= Len(r.payload)
      BY <1>1, SMT
    <3>2. QED
      BY <1>1, <3>1, CutIs, Zenon
  <2>2. r.meant = r.payload
    BY <1>3, ResponseIs, Zenon
  <2>3. QED
    BY <1>1, <2>1, <2>2, ShorterCut, Zenon
<1>4. QED
  BY <1>2, <1>3, ResponseIs, Zenon

-----------------------------------------------------------------------------
(* The inductive invariant.                                                *)

ShapeInv ==
    /\ resp \in Responses /\ wire \in Seq(Bytes)
    /\ closes \in BOOLEAN /\ whole \in BOOLEAN
    /\ raw \in Seq(Bytes) /\ body \in Seq(Bytes)
    /\ phase \in {"connect", "head", "chunked", "length", "eof", "over"}

\* Nothing arrives any more once the response was cut off.
LostInv == ~whole => wire = <<>>

\* The end of the head is not among the bytes read, and on the wire is the rest.
HeadInv ==
    phase \in {"connect", "head"} =>
        /\ IsCut(raw, Wire(resp)) /\ Len(raw) < HeadLength
        /\ whole => wire = RestOf(raw, Wire(resp))
        /\ outcome = None

\* The body read is a beginning that is not yet enough; on the wire is the rest.
BodyInv ==
    phase \in {"chunked", "length", "eof"} =>
        /\ phase = FramingOf(resp)
        /\ IsCut(body, resp.payload) /\ ~EnoughOf(resp, body)
        /\ whole => wire = RestOf(body, resp.payload)
        /\ outcome = None

\* What request may have returned.
CutOff == ~whole /\ FramingOf(resp) # "chunked" /\
          \E b \in Seq(Bytes) : IsPrefix(b, resp.meant) /\ outcome = Answer(b)
AnswerInv ==
    phase = "over" =>
        \/ outcome = Answer(resp.meant)
        \/ CutOff
        \/ ~whole /\ outcome = Failure("unexpected_eof")
        \/ \E how \in {"bad_status", "io_error", "timeout"} : outcome = Failure(how)

ClientInv == ShapeInv /\ LostInv /\ HeadInv /\ BodyInv /\ AnswerInv

\* Names of phases.
LEMMA PhasesDiffer ==
    /\ "over" \notin {"connect", "head", "chunked", "length", "eof"}
    /\ {"connect", "head"} \cap {"chunked", "length", "eof"} = {}
    /\ "chunked" \notin {"length", "eof"} /\ "length" # "eof" /\ "connect" # "head"
  BY SMT

\* At first nothing was read and everything is on the wire.
LEMMA ClientInvInit == Init => ClientInv
<1>1. SUFFICES ASSUME Init PROVE ClientInv
  OBVIOUS
<1>2. resp \in Responses /\ resp.payload \in Seq(Bytes)
  BY <1>1, ResponseIs, Zenon DEF Init
<1>3. Wire(resp) \in Seq(Bytes)
  BY <1>2, WireIs, Zenon
<1>4. IsCut(<<>>, Wire(resp)) /\ RestOf(<<>>, Wire(resp)) = Wire(resp)
  BY <1>3, CutNone, Zenon
<1>5. <<>> \in Seq(Bytes) /\ Len(<<>>) < HeadLength
  BY SMT DEF HeadLength
<1>6. ShapeInv
  BY <1>1, <1>3, <1>5, Zenon DEF Init, ShapeInv
<1>7. LostInv /\ HeadInv
  BY <1>1, <1>4, <1>5, Zenon DEF Init, LostInv, HeadInv
<1>8. BodyInv /\ AnswerInv
  BY <1>1, PhasesDiffer, Zenon DEF Init, BodyInv, AnswerInv
<1>9. QED
  BY <1>6, <1>7, <1>8, Zenon DEF ClientInv

\* The exchange ends with one of the failures that are always possible.
LEMMA Fails ==
    ASSUME ClientInv, UNCHANGED <<server, raw, body>>,
           NEW how \in {"bad_status", "io_error", "timeout"}, Finish(Failure(how))
    PROVE  ClientInv'
<1>1. phase' = "over" /\ outcome' = Failure(how)
  BY Zenon DEF Finish
<1>2. ShapeInv' /\ LostInv'
  BY <1>1, Zenon DEF ClientInv, ShapeInv, LostInv, server
<1>3. HeadInv' /\ BodyInv' /\ AnswerInv'
  BY <1>1, PhasesDiffer, Zenon DEF HeadInv, BodyInv, AnswerInv
<1>4. QED
  BY <1>2, <1>3, Zenon DEF ClientInv

\* The client goes on with a beginning of the body.
LEMMA Continues ==
    ASSUME ShapeInv, whole, NEW b, IsCut(b, resp.payload),
           UNCHANGED <<resp, closes, whole>>, wire' = RestOf(b, resp.payload), raw' \in Seq(Bytes),
           Continue(b)
    PROVE  ClientInv'
<1>1. resp \in Responses /\ resp' = resp /\ whole' = whole /\ closes' = closes
  BY Zenon DEF ShapeInv
<1>2. resp.payload \in Seq(Bytes)
  BY <1>1, ResponseIs, Zenon
<1>3. wire' \in Seq(Bytes)
  BY <1>2, RestIs, Zenon
<1>4. body' = b /\ b \in Seq(Bytes)
  BY Zenon DEF Continue, IsCut
<1>5. CASE EnoughOf(resp, b)
  <2>1. phase' = "over" /\ outcome' = Answer(resp.meant)
    <3>1. Enough(b) /\ Contents(b) = resp.meant
      <4>1. ContentsOf(resp, b) = resp.meant
        BY <1>1, <1>5, Complete, Zenon
      <4>2. QED
        BY <1>1, <1>5, <4>1, FramingIs, Zenon
    <3>2. QED
      BY <3>1, Zenon DEF Continue, Finish
  <2>2. ShapeInv' /\ LostInv'
    <3>1. closes' \in BOOLEAN /\ whole'
      BY <1>1, SMT DEF ShapeInv
    <3>2. LostInv'
      BY <3>1, Zenon DEF LostInv
    <3>3. resp' \in Responses /\ whole' \in BOOLEAN /\ body' \in Seq(Bytes)
      BY <1>1, <1>4, <3>1, Zenon DEF ShapeInv
    <3>4. QED
      BY <1>3, <2>1, <3>1, <3>2, <3>3, Zenon DEF ShapeInv
  <2>3. HeadInv' /\ BodyInv' /\ AnswerInv'
    BY <1>1, <2>1, PhasesDiffer, Zenon DEF HeadInv, BodyInv, AnswerInv
  <2>4. QED
    BY <2>2, <2>3, Zenon DEF ClientInv
<1>6. CASE ~EnoughOf(resp, b)
  <2>1. phase' = FramingOf(resp) /\ outcome' = None
    <3>1. ~Enough(b) /\ Framing = FramingOf(resp)
      BY <1>1, <1>6, FramingIs, Zenon
    <3>2. QED
      BY <3>1, Zenon DEF Continue
  <2>2. phase' \in {"chunked", "length", "eof"}
    BY <1>1, <2>1, ResponseIs, Zenon
  <2>3. ShapeInv' /\ LostInv'
    <3>1. closes' \in BOOLEAN /\ whole'
      BY <1>1, SMT DEF ShapeInv
    <3>2. LostInv'
      BY <3>1, Zenon DEF LostInv
    <3>3. resp' \in Responses /\ whole' \in BOOLEAN /\ body' \in Seq(Bytes)
      BY <1>1, <1>4, <3>1, Zenon DEF ShapeInv
    <3>4. QED
      BY <1>3, <2>2, <3>1, <3>2, <3>3, Zenon DEF ShapeInv
  <2>4. BodyInv'
    BY <1>1, <1>4, <1>6, <2>1, Zenon DEF BodyInv
  <2>5. HeadInv' /\ AnswerInv'
    BY <2>2, PhasesDiffer, Zenon DEF HeadInv, AnswerInv
  <2>6. QED
    BY <2>3, <2>4, <2>5, Zenon DEF ClientInv
<1>7. QED
  BY <1>5, <1>6

\* A read of the head preserves the invariant.
LEMMA ReadHeadInv ==
    ASSUME ClientInv, NEW n \in 1 .. Len(wire), ReadHead(n)
    PROVE  ClientInv'
<1> DEFINE w == Wire(resp)
           got == raw \o SubSeq(wire, 1, n)
           b == SubSeq(got, HeadLength + 1, Len(got))
<1>1. phase = "head" /\ IsCut(raw, w) /\ outcome = None
  BY Zenon DEF ClientInv, HeadInv, ReadHead
<1>2. resp \in Responses /\ resp.payload \in Seq(Bytes) /\ w \in Seq(Bytes)
  BY ResponseIs, WireIs, Zenon DEF ClientInv, ShapeInv
<1>3. whole
  <2>1. Len(<<>>) = 0 /\ \A x : x \in 1 .. 0 => FALSE
    BY SMT
  <2>2. wire # <<>>
    BY <2>1, Zenon
  <2>3. QED
    BY <2>2, Zenon DEF ClientInv, LostInv
<1>4. wire = RestOf(raw, w)
  BY <1>1, <1>3, Zenon DEF ClientInv, HeadInv
<1>5. /\ UNCHANGED <<resp, closes, whole>> /\ wire' = SubSeq(wire, n + 1, Len(wire)) /\ raw' = got
      /\ IF Find(got, 1, CRLF \o CRLF) = 0
         THEN UNCHANGED <<body, phase, outcome>>
         ELSE IF resp.status = "bad"
         THEN Finish(Failure("bad_status")) /\ UNCHANGED body
         ELSE Continue(SubSeq(got, Find(got, 1, CRLF \o CRLF) + 4, Len(got)))
  BY DEF ReadHead, Receive
<1>6. IsCut(got, w) /\ RestOf(got, w) = SubSeq(wire, n + 1, Len(wire))
  BY <1>1, <1>2, <1>4, CutExtends, Zenon
<1> HIDE DEF w, got
<1>7. Find(got, 1, CRLF \o CRLF) = IF Len(got) >= HeadLength THEN 2 ELSE 0
  BY <1>2, <1>6, HeadEnds, Zenon DEF w
<1>8. got \in Seq(Bytes) /\ Len(got) \in Nat /\ wire' \in Seq(Bytes)
  BY <1>2, <1>5, <1>6, RestIs, LenProperties, Zenon DEF IsCut
<1>9. CASE ~(Len(got) >= HeadLength)
  <2>1. UNCHANGED <<body, phase, outcome>>
    BY <1>5, <1>7, <1>9, Zenon
  <2>2. ShapeInv' /\ LostInv'
    BY <1>3, <1>5, <1>8, <2>1, Zenon DEF ClientInv, ShapeInv, LostInv
  <2>3. Len(got) < HeadLength
    BY <1>8, <1>9, SMT DEF HeadLength
  <2>4. HeadInv'
    BY <1>1, <1>5, <1>6, <2>1, <2>3, Zenon DEF HeadInv, w
  <2>5. BodyInv' /\ AnswerInv'
    BY <1>1, <2>1, PhasesDiffer, Zenon DEF BodyInv, AnswerInv
  <2>6. QED
    BY <2>2, <2>4, <2>5, Zenon DEF ClientInv
<1>10. CASE Len(got) >= HeadLength
  <2>1. Find(got, 1, CRLF \o CRLF) # 0 /\ Find(got, 1, CRLF \o CRLF) + 4 = HeadLength + 1
    <3>1. 2 # 0 /\ 2 + 4 = HeadLength + 1
      BY SMT DEF HeadLength
    <3>2. QED
      BY <1>7, <1>10, <3>1, Zenon
  <2>2. CASE resp.status = "bad"
    <3>1. phase' = "over" /\ outcome' = Failure("bad_status") /\ body' = body
      BY <1>5, <2>1, <2>2, Zenon DEF Finish
    <3>2. ShapeInv' /\ LostInv'
      BY <1>3, <1>5, <1>8, <3>1, Zenon DEF ClientInv, ShapeInv, LostInv
    <3>3. HeadInv' /\ BodyInv' /\ AnswerInv'
      BY <3>1, PhasesDiffer, Zenon DEF HeadInv, BodyInv, AnswerInv
    <3>4. QED
      BY <3>2, <3>3, Zenon DEF ClientInv
  <2>3. CASE resp.status # "bad"
    <3>1. Continue(b)
      BY <1>5, <2>1, <2>3, Zenon
    <3>2. IsCut(b, resp.payload) /\ RestOf(b, resp.payload) = RestOf(got, w)
      BY <1>2, <1>6, <1>10, BodyBegins, Zenon DEF w
    <3> HIDE DEF b
    <3>3. wire' = RestOf(b, resp.payload)
      BY <1>5, <1>6, <3>2, Zenon
    <3>4. raw' \in Seq(Bytes) /\ ShapeInv
      BY <1>5, <1>8, Zenon DEF ClientInv
    <3>5. QED
      BY <1>3, <1>5, <3>1, <3>2, <3>3, <3>4, Continues
  <2>4. QED
    BY <2>2, <2>3, Zenon
<1>11. QED
  BY <1>9, <1>10, Zenon

\* A read of the body preserves it.
LEMMA ReadBodyInv ==
    ASSUME ClientInv, NEW n \in 1 .. Len(wire), ReadBody(n)
    PROVE  ClientInv'
<1> DEFINE s == resp.payload
           b == body \o SubSeq(wire, 1, n)
<1>1. IsCut(body, s)
  BY Zenon DEF ClientInv, BodyInv, ReadBody
<1>2. s \in Seq(Bytes)
  BY ResponseIs, Zenon DEF ClientInv, ShapeInv
<1>3. whole
  <2>1. Len(<<>>) = 0 /\ \A x : x \in 1 .. 0 => FALSE
    BY SMT
  <2>2. wire # <<>>
    BY <2>1, Zenon
  <2>3. QED
    BY <2>2, Zenon DEF ClientInv, LostInv
<1>4. wire = RestOf(body, s)
  BY <1>3, Zenon DEF ClientInv, BodyInv, ReadBody
<1>5. /\ UNCHANGED <<resp, closes, whole>> /\ wire' = SubSeq(wire, n + 1, Len(wire)) /\ raw' = raw
      /\ Continue(b)
  BY DEF ReadBody, Receive, Extended
<1>6. IsCut(b, s) /\ RestOf(b, s) = SubSeq(wire, n + 1, Len(wire))
  BY <1>1, <1>2, <1>4, CutExtends, Zenon
<1> HIDE DEF b
<1>7. wire' = RestOf(b, s) /\ raw' \in Seq(Bytes) /\ ShapeInv
  BY <1>5, <1>6, Zenon DEF ClientInv, ShapeInv
<1>8. QED
  BY <1>3, <1>5, <1>6, <1>7, Continues

\* A closed connection preserves it: if nothing was cut off, all of the body was read.
LEMMA EndOfStreamInv ==
    ASSUME ClientInv, EndOfStream
    PROVE  ClientInv'
<1>1. /\ wire = <<>> /\ UNCHANGED <<server, raw, body>> /\ phase' = "over"
      /\ phase \in {"head", "chunked", "length", "eof"}
      /\ outcome' = IF phase \in {"length", "eof"} THEN Answer(body) ELSE Failure("unexpected_eof")
  BY DEF EndOfStream, Finish, EndsBody, Reading
<1>2. resp \in Responses /\ resp.payload \in Seq(Bytes) /\ Wire(resp) \in Seq(Bytes)
      /\ body \in Seq(Bytes)
  BY ResponseIs, WireIs, Zenon DEF ClientInv, ShapeInv
<1>3. ShapeInv' /\ LostInv'
  BY <1>1, Zenon DEF ClientInv, ShapeInv, LostInv, server
<1>4. HeadInv' /\ BodyInv'
  BY <1>1, PhasesDiffer, Zenon DEF HeadInv, BodyInv
<1>5. AnswerInv'
  <2>1. CASE phase = "head"
    <3>1. outcome' = Failure("unexpected_eof")
      <4>1. "head" \notin {"length", "eof"}
        BY SMT
      <4>2. QED
        BY <1>1, <2>1, <4>1, Zenon
    <3>2. ~whole
      <4>1. SUFFICES ASSUME whole PROVE FALSE
        OBVIOUS
      <4>2. IsCut(raw, Wire(resp)) /\ RestOf(raw, Wire(resp)) = <<>> /\ Len(raw) < HeadLength
        BY <1>1, <2>1, <4>1, Zenon DEF ClientInv, HeadInv
      <4>3. raw = Wire(resp)
        BY <1>2, <4>2, CutAll, Zenon
      <4>4. Len(Wire(resp)) = HeadLength + Len(resp.payload) /\ Len(resp.payload) \in Nat
        BY <1>2, WireIs, LenProperties, Zenon
      <4>5. QED
        BY <4>2, <4>3, <4>4, SMT DEF HeadLength
    <3>3. QED
      BY <1>1, <3>1, <3>2, Zenon DEF AnswerInv, server
  <2>2. CASE phase \in {"chunked", "length", "eof"}
    <3>1. phase = FramingOf(resp) /\ IsCut(body, resp.payload) /\ ~EnoughOf(resp, body)
      BY <2>2, Zenon DEF ClientInv, BodyInv
    <3>2. CASE whole
      <4>1. body = resp.payload
        <5>1. RestOf(body, resp.payload) = <<>>
          BY <1>1, <2>2, <3>2, Zenon DEF ClientInv, BodyInv
        <5>2. QED
          BY <1>2, <3>1, <5>1, CutAll, Zenon
      <4>2. phase = "eof"
        BY <1>2, <3>1, <4>1, WholeEnough, Zenon
      <4>3. outcome' = Answer(resp.meant)
        BY <1>1, <1>2, <3>1, <4>1, <4>2, ResponseIs, Zenon
      <4>4. QED
        BY <1>1, <4>3, Zenon DEF AnswerInv, server
    <3>3. CASE ~whole
      <4>1. CASE phase = "chunked"
        BY <1>1, <3>3, <4>1, PhasesDiffer, Zenon DEF AnswerInv, server
      <4>2. CASE phase # "chunked"
        <5>1. IsPrefix(body, resp.meant)
          BY <1>2, <3>1, <4>2, Partial, Zenon
        <5>2. outcome' = Answer(body)
          BY <1>1, <2>2, <4>2, Zenon
        <5>3. CutOff'
          BY <1>1, <1>2, <3>1, <3>3, <4>2, <5>1, <5>2, Zenon DEF CutOff, server
        <5>4. QED
          BY <5>3, Zenon DEF AnswerInv
      <4>3. QED
        BY <4>1, <4>2, Zenon
    <3>4. QED
      BY <3>2, <3>3, Zenon
  <2>3. QED
    BY <1>1, <2>1, <2>2, Zenon
<1>6. QED
  BY <1>3, <1>4, <1>5, Zenon DEF ClientInv

\* A broken connection preserves it.
LEMMA BreakInv ==
    ASSUME ClientInv, Break
    PROVE  ClientInv'
<1>1. /\ phase # "over" /\ wire' = <<>> /\ whole' = FALSE /\ closes' \in BOOLEAN
      /\ UNCHANGED <<resp, raw, body, phase, outcome>>
  BY DEF Break
<1>2. <<>> \in Seq(Bytes)
  BY SMT
<1>3. ShapeInv' /\ LostInv'
  BY <1>1, <1>2, Zenon DEF ClientInv, ShapeInv, LostInv
<1>4. HeadInv'
  BY <1>1, Zenon DEF ClientInv, HeadInv
<1>5. BodyInv'
  BY <1>1, Zenon DEF ClientInv, BodyInv
<1>6. AnswerInv'
  BY <1>1, Zenon DEF AnswerInv
<1>7. QED
  BY <1>3, <1>4, <1>5, <1>6, Zenon DEF ClientInv

\* Every step preserves the invariant.
LEMMA ClientInvNext == ClientInv /\ [Next]_vars => ClientInv'
<1>1. ASSUME ClientInv, Send PROVE ClientInv'
  <2>1. phase = "connect" /\ phase' = "head" /\ UNCHANGED <<server, raw, body, outcome>>
    BY <1>1 DEF Send
  <2>2. ShapeInv' /\ LostInv'
    BY <1>1, <2>1, Zenon DEF ClientInv, ShapeInv, LostInv, server
  <2>3. HeadInv'
    BY <1>1, <2>1, Zenon DEF ClientInv, HeadInv, server
  <2>4. BodyInv' /\ AnswerInv'
    BY <2>1, PhasesDiffer, Zenon DEF BodyInv, AnswerInv
  <2>5. QED
    BY <2>2, <2>3, <2>4, Zenon DEF ClientInv
<1>2. ASSUME ClientInv, NEW n \in 1 .. Len(wire), ReadHead(n) PROVE ClientInv'
  BY <1>2, ReadHeadInv
<1>3. ASSUME ClientInv, NEW n \in 1 .. Len(wire), ReadBody(n) PROVE ClientInv'
  BY <1>3, ReadBodyInv
<1>4. ASSUME ClientInv, EndOfStream PROVE ClientInv'
  BY <1>4, EndOfStreamInv
<1>5. ASSUME ClientInv, IoError PROVE ClientInv'
  BY <1>5, Fails, Zenon DEF IoError
<1>6. ASSUME ClientInv, Timeout PROVE ClientInv'
  BY <1>6, Fails, Zenon DEF Timeout
<1>7. ASSUME ClientInv, Break PROVE ClientInv'
  BY <1>7, BreakInv
<1>8. ASSUME ClientInv, UNCHANGED vars PROVE ClientInv'
  BY <1>8, Zenon DEF ClientInv, ShapeInv, LostInv, HeadInv, BodyInv, AnswerInv, CutOff, vars
<1>9. QED
  BY <1>1, <1>2, <1>3, <1>4, <1>5, <1>6, <1>7, <1>8, Zenon DEF Next

\* Wherever reads cut the response: what was read is a beginning of it, not yet
\* enough while the client reads, and the rest is on the wire unless it was cut off.
THEOREM ClientInvAlways == Spec => []ClientInv
  BY ClientInvInit, ClientInvNext, PTL DEF Spec

-----------------------------------------------------------------------------
(* The properties.                                                         *)

\* The kinds of results.
LEMMA Kinds ==
    /\ \A b : Answer(b).kind = "ok" /\ Answer(b).body = b
    /\ \A how : Failure(how).kind = how /\ Failure(how).body = <<>>
    /\ "ok" \notin {"unexpected_eof", "bad_status", "io_error", "timeout"}
    /\ "unexpected_eof" \notin {"bad_status", "io_error", "timeout"}
  BY SMT DEF Answer, Failure

\* What the invariant says of an exchange that is over.
LEMMA Returned ==
    ASSUME ClientInv, outcome # None \/ phase = "over"
    PROVE  /\ outcome.kind \in {"ok", "bad_status", "unexpected_eof", "io_error", "timeout"}
           /\ outcome.body \in Seq(Bytes)
           /\ whole /\ outcome.kind = "ok" => outcome.body = resp.meant
           /\ whole => outcome.kind # "unexpected_eof"
           /\ outcome.kind = "ok" => IsPrefix(outcome.body, resp.meant)
           /\ outcome.kind = "ok" /\ resp.chunked => outcome.body = resp.meant
<1>1. phase = "over"
  BY Zenon DEF ClientInv, ShapeInv, HeadInv, BodyInv
<1>2. /\ resp \in Responses /\ resp.meant \in Seq(Bytes)
      /\ FramingOf(resp) = "chunked" <=> resp.chunked
  BY ResponseIs, Zenon DEF ClientInv, ShapeInv
<1>3. IsPrefix(resp.meant, resp.meant)
  <2>1. Len(resp.meant) <= Len(resp.meant)
    BY <1>2, LenProperties, SMT
  <2>2. QED
    BY <2>1, Zenon DEF IsPrefix
<1>4. <<>> \in Seq(Bytes)
  BY SMT
<1>5. CASE outcome = Answer(resp.meant)
  BY <1>1, <1>2, <1>3, <1>5, Kinds, Zenon
<1>6. CASE CutOff
  <2>1. PICK b \in Seq(Bytes) : IsPrefix(b, resp.meant) /\ outcome = Answer(b)
    BY <1>6, Zenon DEF CutOff
  <2>2. outcome.kind = "ok" /\ outcome.body = b
    BY <2>1, Kinds, Zenon
  <2>3. ~whole /\ ~resp.chunked
    BY <1>2, <1>6, Zenon DEF CutOff
  <2>4. outcome.kind \in {"ok", "bad_status", "unexpected_eof", "io_error", "timeout"}
    BY <2>2, Zenon
  <2>5. QED
    BY <2>1, <2>2, <2>3, <2>4, Zenon
<1>7. CASE ~whole /\ outcome = Failure("unexpected_eof")
  BY <1>1, <1>4, <1>7, Kinds, Zenon
<1>8. CASE \E how \in {"bad_status", "io_error", "timeout"} : outcome = Failure(how)
  <2>1. PICK how \in {"bad_status", "io_error", "timeout"} : outcome = Failure(how)
    BY <1>8, Zenon
  <2>2. outcome.kind = how /\ outcome.body = <<>>
    BY <2>1, Kinds, Zenon
  <2>3. outcome.kind # "ok" /\ outcome.kind # "unexpected_eof"
    BY <2>2, Kinds, Zenon
  <2>4. outcome.kind \in {"ok", "bad_status", "unexpected_eof", "io_error", "timeout"}
    BY <2>2, Zenon
  <2>5. QED
    BY <1>4, <2>2, <2>3, <2>4, Zenon
<1>9. QED
  BY <1>1, <1>5, <1>6, <1>7, <1>8, Zenon DEF ClientInv, AnswerInv

\* The exchange keeps its shapes.
THEOREM ClientTypeOK == Spec => []TypeOK
<1>1. ClientInv => TypeOK
  BY Returned, Zenon DEF ClientInv, ShapeInv, TypeOK
<1>2. QED
  BY <1>1, ClientInvAlways, PTL

\* However the reads cut a response that arrives whole, the answer is the body
\* that the server meant, and the connection never seems closed too early.
THEOREM ClientRightBody == Spec => []RightBody
<1>1. ClientInv => RightBody
  BY Returned, Zenon DEF RightBody
<1>2. QED
  BY <1>1, ClientInvAlways, PTL

\* An answer is a beginning of the body that was meant, and a chunked one is all
\* of it, wherever the connection broke.
THEOREM ClientNoFalseEnd == Spec => []NoFalseEnd
<1>1. ClientInv => NoFalseEnd
  BY Returned, Zenon DEF NoFalseEnd
<1>2. QED
  BY <1>1, ClientInvAlways, PTL

\* Once all of a delimited response was read the client is done.
THEOREM ClientNeverWaitsForMore == Spec => []NeverWaitsForMore
<1>1. ASSUME ClientInv PROVE NeverWaitsForMore
  <2>1. SUFFICES ASSUME whole, wire = <<>>, Framing # "eof", Reading PROVE FALSE
    BY Zenon DEF NeverWaitsForMore
  <2>2. /\ resp \in Responses /\ resp.payload \in Seq(Bytes) /\ Wire(resp) \in Seq(Bytes)
        /\ Framing = FramingOf(resp)
    BY <1>1, ResponseIs, WireIs, FramingIs, Zenon DEF ClientInv, ShapeInv
  <2>3. CASE phase = "head"
    <3>1. IsCut(raw, Wire(resp)) /\ RestOf(raw, Wire(resp)) = <<>> /\ Len(raw) < HeadLength
      BY <1>1, <2>1, <2>3, Zenon DEF ClientInv, HeadInv
    <3>2. raw = Wire(resp)
      BY <2>2, <3>1, CutAll, Zenon
    <3>3. Len(Wire(resp)) = HeadLength + Len(resp.payload) /\ Len(resp.payload) \in Nat
      BY <2>2, WireIs, LenProperties, Zenon
    <3>4. QED
      BY <3>1, <3>2, <3>3, SMT DEF HeadLength
  <2>4. CASE phase \in {"chunked", "length", "eof"}
    <3>1. /\ IsCut(body, resp.payload) /\ RestOf(body, resp.payload) = <<>>
          /\ ~EnoughOf(resp, body)
      BY <1>1, <2>1, <2>4, Zenon DEF ClientInv, BodyInv
    <3>2. body = resp.payload
      BY <2>2, <3>1, CutAll, Zenon
    <3>3. QED
      BY <2>1, <2>2, <3>1, <3>2, WholeEnough, Zenon
  <2>5. QED
    BY <2>1, <2>3, <2>4, Zenon DEF Reading
<1>2. QED
  BY <1>1, ClientInvAlways, PTL

\* A snapshot is recorded as anchored only by the complete receipt that the log
\* meant (anchor, anchor_summary_from_receipt).
THEOREM ClientHonestAnchoring == Spec => []HonestAnchoring
<1>1. ASSUME ClientInv PROVE HonestAnchoring
  <2>1. SUFFICES ASSUME Anchored PROVE outcome.body = resp.meant
    BY DEF HonestAnchoring
  <2>2. phase = "over" /\ outcome.kind = "ok" /\ outcome.body \in Receipts
    BY <2>1, Zenon DEF Anchored
  <2>3. IsPrefix(outcome.body, resp.meant)
    BY <1>1, <2>2, Returned, Zenon
  <2>4. resp \in Responses
    BY <1>1, Zenon DEF ClientInv, ShapeInv
  <2>5. QED
    BY <2>2, <2>3, <2>4, ClientAssumption, Zenon DEF ClientAssumption
<1>2. QED
  BY <1>1, ClientInvAlways, PTL

=============================================================================
