---------------------------- MODULE ConsoleProofs ----------------------------
(* Machine-checked proofs about console input and signal handlers, for any    *)
(* number of readers, any size of the buffer and indices that wrap at any     *)
(* multiple of it.                                                            *)
EXTENDS Console, FiniteSetTheorems, WellFoundedInduction, TLAPS

(* Arithmetic modulo u: what a remainder is, ... *)
LEMMA ModRange ==
  ASSUME NEW u \in Nat, u > 0, NEW a \in Int
  PROVE  a % u \in 0 .. u - 1
OBVIOUS

(* ... a sum that wraps once, ... *)
LEMMA ModSum ==
  ASSUME NEW u \in Nat, u > 0, NEW a \in Int, 0 <= a, a < u + u
  PROVE  a % u = IF a < u THEN a ELSE a - u
OBVIOUS

(* ... the quotient, ... *)
LEMMA DivMod ==
  ASSUME NEW u \in Nat, u > 0, NEW a \in Int
  PROVE  \E d \in Int : a = u * d + (a % u) /\ a % u \in 0 .. u - 1
<1>1. (a \div u) \in Int /\ a = u * (a \div u) + (a % u) /\ a % u \in 0 .. u - 1
  OBVIOUS
<1> QED
  BY <1>1, Zenon

(* ... the only remainder, ... *)
LEMMA ModUnique ==
  ASSUME NEW u \in Nat, u > 0, NEW d \in Int, NEW x \in 0 .. u - 1
  PROVE  (u * d + x) % u = x
OBVIOUS

(* ... numbers less than u apart, ... *)
LEMMA ModSame ==
  ASSUME NEW u \in Nat, u > 0, NEW a \in Int, NEW b \in Int, a <= b, b - a < u, a % u = b % u
  PROVE  a = b
<1>1. PICK c \in Int : a = u * c + (a % u)
  BY DivMod, Zenon
<1>2. PICK k \in Int : b = u * k + (a % u)
  BY DivMod, Zenon
<1>3. PICK x \in Int : x = a % u
  BY DivMod
<1>4. b - a = u * (k - c)
  BY <1>1, <1>2, <1>3
<1>5. PICK d \in Int : d = k - c
  OBVIOUS
<1>6. CASE d >= 1
  <2>1. u * d >= u
    BY <1>6
  <2> QED BY <1>4, <1>5, <2>1
<1>7. CASE d <= -1
  <2>1. u * d <= -u
    BY <1>7
  <2> QED BY <1>4, <1>5, <2>1
<1> QED
  BY <1>4, <1>5, <1>6, <1>7

(* ... and a multiple of u added. *)
LEMMA ModShift ==
  ASSUME NEW u \in Nat, u > 0, NEW v \in Nat, v % u = 0, NEW a \in Int
  PROVE  (a + v) % u = a % u
<1>1. PICK m \in Int : v = u * m + 0
  BY DivMod
<1>2. PICK d \in Int : a = u * d + (a % u) /\ a % u \in 0 .. u - 1
  BY DivMod, Zenon
<1>3. PICK x \in 0 .. u - 1 : x = a % u
  BY <1>2, Zenon
<1>4. a + v = u * (d + m) + x
  BY <1>1, <1>2, <1>3
<1>5. (u * (d + m) + x) % u = x
  BY ModUnique
<1> QED
  BY <1>3, <1>4, <1>5, Zenon
------------------------------------------------------------------------------
Index == 0 .. Wrap - 1

(* Two indices are a distance apart that counts the steps between them: ... *)
LEMMA DistIs ==
  ASSUME NEW a \in Index, NEW b \in Index
  PROVE  /\ Dist(a, b) \in Index /\ Dist(a, b) \in Nat
         /\ Dist(a, b) = 0 <=> a = b
         /\ Dist(a, b) = IF b >= a THEN b - a ELSE (b - a) + Wrap
<1>1. Wrap \in Nat /\ Wrap > 0
  BY ConsoleAssumption
<1>2. b + Wrap - a \in Int /\ 0 <= b + Wrap - a /\ b + Wrap - a < Wrap + Wrap
  BY <1>1 DEF Index
<1>3. Dist(a, b) = IF b + Wrap - a < Wrap THEN b + Wrap - a ELSE (b + Wrap - a) - Wrap
  BY <1>1, <1>2, ModSum, Zenon DEF Dist
<1> QED
  BY <1>1, <1>3 DEF Index

(* ... from a, as many steps lead to b; ... *)
LEMMA AheadIs ==
  ASSUME NEW a \in Index, NEW k \in 0..Wrap
  PROVE  Ahead(a, k) \in Index /\ Ahead(a, k) = IF a + k < Wrap THEN a + k ELSE (a + k) - Wrap
<1>1. Wrap \in Nat /\ Wrap > 0
  BY ConsoleAssumption
<1>2. a + k \in Int /\ 0 <= a + k /\ a + k < Wrap + Wrap
  BY <1>1 DEF Index
<1>3. Ahead(a, k) = IF a + k < Wrap THEN a + k ELSE (a + k) - Wrap
  BY <1>1, <1>2, ModSum, Zenon DEF Ahead
<1> QED
  BY <1>1, <1>3 DEF Index

(* ... Inc() and Dec() are one step forward and one back; ... *)
LEMMA Stepped ==
  ASSUME NEW a \in Index, NEW b \in Index
  PROVE  /\ Inc(b) \in Index /\ Dec(b) \in Index /\ Inc(b) = Ahead(b, 1)
         /\ Dist(a, b) + 1 < Wrap => Dist(a, Inc(b)) = Dist(a, b) + 1
         /\ a # b => Dist(a, Dec(b)) = Dist(a, b) - 1
<1>1. Wrap \in Nat /\ Wrap > 1
  BY ConsoleAssumption
<1>2. Inc(b) = Ahead(b, 1)
  BY Zenon DEF Inc, Ahead
<1>3. Ahead(b, 1) \in Index /\ Ahead(b, 1) = IF b + 1 < Wrap THEN b + 1 ELSE (b + 1) - Wrap
  <2>1. 1 \in 0..Wrap
    BY <1>1
  <2> QED BY <2>1, AheadIs, Zenon
<1>4. Dec(b) = IF b + Wrap - 1 < Wrap THEN b + Wrap - 1 ELSE (b + Wrap - 1) - Wrap
  <2>1. b + Wrap - 1 \in Int /\ 0 <= b + Wrap - 1 /\ b + Wrap - 1 < Wrap + Wrap
    BY <1>1 DEF Index
  <2>2. Wrap > 0
    BY <1>1
  <2> QED BY <1>1, <2>1, <2>2, ModSum, Zenon DEF Dec
<1>5. Dec(b) \in Index
  BY <1>1, <1>4 DEF Index
<1>6. Dist(a, b) = IF b >= a THEN b - a ELSE (b - a) + Wrap
  BY DistIs, Zenon
<1>7. Dist(a, Ahead(b, 1)) = IF Ahead(b, 1) >= a THEN Ahead(b, 1) - a ELSE Ahead(b, 1) - a + Wrap
  BY <1>3, DistIs, Zenon
<1>8. Dist(a, Dec(b)) = IF Dec(b) >= a THEN Dec(b) - a ELSE Dec(b) - a + Wrap
  BY <1>5, DistIs, Zenon
<1>9. PICK x \in Index, y \in Index : x = Ahead(b, 1) /\ y = Dec(b)
  BY <1>3, <1>5, Zenon
<1>10. Dist(a, b) + 1 < Wrap => Dist(a, x) = Dist(a, b) + 1
  BY <1>1, <1>3, <1>6, <1>7, <1>9 DEF Index
<1>11. a # b => Dist(a, y) = Dist(a, b) - 1
  BY <1>1, <1>4, <1>6, <1>8, <1>9 DEF Index
<1> QED
  BY <1>2, <1>3, <1>5, <1>9, <1>10, <1>11, Zenon

(* ... and what is ahead divides a distance. *)
LEMMA DistAhead ==
  ASSUME NEW a \in Index, NEW b \in Index, NEW m, m = Dist(a, b), NEW k \in 0..m
  PROVE  /\ k \in 0..Wrap /\ Ahead(a, k) \in Index /\ Dist(a, Ahead(a, k)) = k
         /\ Dist(Ahead(a, k), b) = m - k
         /\ k = m => Ahead(a, k) = b
<1>1. Wrap \in Nat /\ Wrap > 1
  BY ConsoleAssumption
<1>2. m \in Index /\ m = IF b >= a THEN b - a ELSE (b - a) + Wrap
  BY DistIs, Zenon
<1>3. k \in 0..Wrap
  BY <1>1, <1>2 DEF Index
<1>4. PICK x \in Index : x = Ahead(a, k) /\ x = IF a + k < Wrap THEN a + k ELSE (a + k) - Wrap
  BY <1>3, AheadIs, Zenon
<1>5. Dist(a, x) = IF x >= a THEN x - a ELSE x - a + Wrap
  BY DistIs, Zenon
<1>6. Dist(x, b) = IF b >= x THEN b - x ELSE b - x + Wrap
  BY DistIs, Zenon
<1>7. Dist(a, x) = k
  BY <1>1, <1>2, <1>4, <1>5 DEF Index
<1>8. Dist(x, b) = m - k
  BY <1>1, <1>2, <1>4, <1>6 DEF Index
<1>9. k = m => x = b
  BY <1>1, <1>2, <1>4 DEF Index
<1> QED
  BY <1>3, <1>4, <1>7, <1>8, <1>9, Zenon

(* The distance to an index is that to one on the way and on from there. *)
LEMMA DistSum ==
  ASSUME NEW a \in Index, NEW b \in Index, NEW c \in Index, Dist(a, b) + Dist(b, c) < Wrap
  PROVE  Dist(a, c) = Dist(a, b) + Dist(b, c)
<1>1. Wrap \in Nat /\ Wrap > 1
  BY ConsoleAssumption
<1>2. /\ Dist(a, b) = IF b >= a THEN b - a ELSE (b - a) + Wrap
      /\ Dist(b, c) = IF c >= b THEN c - b ELSE c - b + Wrap
      /\ Dist(a, c) = IF c >= a THEN c - a ELSE c - a + Wrap
  BY DistIs, Zenon
<1> QED
  BY <1>1, <1>2 DEF Index
------------------------------------------------------------------------------
(* The place in the buffer of the k-th byte from index a on. *)
Place(a, k) == (a + k - 1) % INPUT_BUF

(* It is in the buffer. *)
LEMMA PlaceIn ==
  ASSUME NEW a \in Index, NEW k \in Nat
  PROVE  Place(a, k) \in 0 .. INPUT_BUF - 1
<1>1. INPUT_BUF \in Nat /\ INPUT_BUF > 0 /\ a + k - 1 \in Int
  BY ConsoleAssumption DEF Index
<1> QED
  BY <1>1, ModRange, Zenon DEF Place

(* Bytes that fit in the buffer have different places. *)
LEMMA PlaceOnce ==
  ASSUME NEW a \in Index, NEW i \in 1..INPUT_BUF, NEW j \in 1..INPUT_BUF, Place(a, i) = Place(a, j)
  PROVE  i = j
<1>1. INPUT_BUF \in Nat /\ INPUT_BUF > 0 /\ a \in Int
  BY ConsoleAssumption DEF Index
<1>2. PICK x \in Int, y \in Int : x = a + i - 1 /\ y = a + j - 1
  BY <1>1
<1>3. x % INPUT_BUF = y % INPUT_BUF
  BY <1>2, Zenon DEF Place
<1>4. CASE x <= y
  <2>1. y - x < INPUT_BUF
    BY <1>1, <1>2
  <2>2. x = y
    BY <1>1, <1>3, <1>4, <2>1, ModSame, Zenon
  <2> QED BY <1>1, <1>2, <2>2
<1>5. CASE y <= x
  <2>1. x - y < INPUT_BUF
    BY <1>1, <1>2
  <2>2. y = x
    BY <1>1, <1>3, <1>5, <2>1, ModSame, Zenon
  <2> QED BY <1>1, <1>2, <2>2
<1>6. x <= y \/ y <= x
  OBVIOUS
<1> QED
  BY <1>4, <1>5, <1>6, Zenon

(* An index that wraps keeps its place, as INPUT_BUF divides Wrap. *)
LEMMA PlaceAhead ==
  ASSUME NEW a \in Index, NEW d \in 0..Wrap, NEW k \in Nat
  PROVE  Place(Ahead(a, d), k) = Place(a, d + k)
<1>1. /\ Wrap \in Nat /\ Wrap > 0 /\ INPUT_BUF \in Nat /\ INPUT_BUF > 0
      /\ Wrap % INPUT_BUF = 0
  BY ConsoleAssumption
<1>2. Ahead(a, d) \in Index /\ Ahead(a, d) = IF a + d < Wrap THEN a + d ELSE (a + d) - Wrap
  BY AheadIs, Zenon
<1>3. CASE a + d < Wrap
  <2>1. a + d + k - 1 = a + (d + k) - 1
    BY <1>1 DEF Index
  <2> QED BY <1>2, <1>3, <2>1, Zenon DEF Place
<1>4. CASE ~(a + d < Wrap)
  <2>1. PICK b \in Int : b = Ahead(a, d) + k - 1 /\ b + Wrap = a + (d + k) - 1
    BY <1>1, <1>2, <1>4 DEF Index
  <2>2. (b + Wrap) % INPUT_BUF = b % INPUT_BUF
    BY <1>1, ModShift, Zenon
  <2> QED BY <2>1, <2>2, Zenon DEF Place
<1> QED
  BY <1>3, <1>4, Zenon

(* The byte an index is at. *)
LEMMA CharAt ==
  ASSUME NEW a \in Index, NEW d \in 0..Wrap
  PROVE  Ahead(a, d) % INPUT_BUF = Place(a, d + 1)
<1>1. Wrap \in Nat /\ 1 \in Nat
  BY ConsoleAssumption
<1>2. Ahead(a, d) \in Index
  BY AheadIs, Zenon
<1>3. Ahead(a, d) + 1 - 1 = Ahead(a, d)
  BY <1>1, <1>2 DEF Index
<1>4. Place(Ahead(a, d), 1) = Place(a, d + 1)
  BY <1>1, PlaceAhead, Zenon
<1> QED
  BY <1>3, <1>4, Zenon DEF Place

(* One step after i steps. *)
LEMMA AheadNext ==
  ASSUME NEW a \in Index, NEW i \in 0 .. Wrap - 1
  PROVE  Inc(Ahead(a, i)) = Ahead(a, i + 1)
<1>1. Wrap \in Nat /\ Wrap > 1 /\ 1 \in 0..Wrap /\ i \in 0..Wrap /\ i + 1 \in 0..Wrap
  BY ConsoleAssumption
<1>2. PICK x \in Index : x = Ahead(a, i) /\ x = IF a + i < Wrap THEN a + i ELSE (a + i) - Wrap
  BY <1>1, AheadIs, Zenon
<1>3. Inc(x) = IF x + 1 < Wrap THEN x + 1 ELSE (x + 1) - Wrap
  <2>1. Inc(x) = Ahead(x, 1)
    BY Zenon DEF Inc, Ahead
  <2> QED BY <1>1, <2>1, AheadIs, Zenon
<1>4. Ahead(a, i + 1) = IF a + (i + 1) < Wrap THEN a + (i + 1) ELSE (a + (i + 1)) - Wrap
  BY <1>1, AheadIs, Zenon
<1>5. Inc(x) = Ahead(a, i + 1)
  BY <1>1, <1>2, <1>3, <1>4 DEF Index
<1> QED
  BY <1>2, <1>5, Zenon

(* No step is no move. *)
LEMMA AheadZero ==
  ASSUME NEW a \in Index
  PROVE  Ahead(a, 0) = a
<1>1. Wrap \in Nat /\ 0 \in 0..Wrap
  BY ConsoleAssumption
<1>2. Ahead(a, 0) = IF a + 0 < Wrap THEN a + 0 ELSE (a + 0) - Wrap
  BY <1>1, AheadIs, Zenon
<1> QED
  BY <1>1, <1>2 DEF Index
------------------------------------------------------------------------------
(* A sequence is known by its elements. *)
LEMMA SeqSame ==
  ASSUME NEW S, NEW x \in Seq(S), NEW y \in Seq(S), Len(x) = Len(y), \A k \in 1..Len(x) : x[k] = y[k]
  PROVE  x = y
OBVIOUS

(* A function on 1..m is a sequence. *)
LEMMA FunctionSeq ==
  ASSUME NEW S, NEW m \in Nat, NEW s \in [1..m -> S]
  PROVE  s \in Seq(S) /\ Len(s) = m
OBVIOUS

(* The operators on sequences, element by element. *)
LEMMA Appends ==
  ASSUME NEW S, NEW s \in Seq(S), NEW c \in S, NEW m, m = Len(s)
  PROVE  /\ Append(s, c) \in Seq(S) /\ Len(Append(s, c)) = m + 1
         /\ \A k \in 1..m : Append(s, c)[k] = s[k]
         /\ Append(s, c)[m + 1] = c
OBVIOUS

(* One character behind two sequences, ... *)
LEMMA JoinAppend ==
  ASSUME NEW S, NEW s \in Seq(S), NEW t \in Seq(S), NEW c \in S
  PROVE  Append(s \o t, c) = s \o Append(t, c)
OBVIOUS

(* ... and the parts of a sequence. *)
LEMMA Parts ==
  ASSUME NEW S, NEW s \in Seq(S), NEW m, m = Len(s), NEW j \in 0..m
  PROVE  /\ SubSeq(s, 1, j) \in Seq(S) /\ Len(SubSeq(s, 1, j)) = j
         /\ \A k \in 1..j : SubSeq(s, 1, j)[k] = s[k]
         /\ SubSeq(s, j + 1, m) \in Seq(S) /\ Len(SubSeq(s, j + 1, m)) = m - j
         /\ \A k \in 1 .. m - j : SubSeq(s, j + 1, m)[k] = s[j + k]
OBVIOUS
------------------------------------------------------------------------------
Buffers == [0 .. INPUT_BUF - 1 -> Chars]

(* The m bytes from index a on. *)
Str(b, a, m) == [k \in 1..m |-> b[Place(a, k)]]

(* They are a sequence of characters. *)
LEMMA StrSeq ==
  ASSUME NEW b \in Buffers, NEW a \in Index, NEW m \in Nat
  PROVE  /\ Str(b, a, m) \in Seq(Chars) /\ Len(Str(b, a, m)) = m
         /\ \A k \in 1..m : Str(b, a, m)[k] = b[Place(a, k)] /\ b[Place(a, k)] \in Chars
<1>1. \A k \in 1..m : k \in Nat
  OBVIOUS
<1>2. \A k \in 1..m : b[Place(a, k)] \in Chars
  BY <1>1, PlaceIn, Zenon DEF Buffers
<1>3. Str(b, a, m) \in [1..m -> Chars]
  BY <1>2, Zenon DEF Str
<1>4. \A k \in 1..m : Str(b, a, m)[k] = b[Place(a, k)]
  BY Zenon DEF Str
<1> QED
  BY <1>2, <1>3, <1>4, FunctionSeq, Zenon

(* A byte written behind them. *)
LEMMA StrAppend ==
  ASSUME NEW b \in Buffers, NEW b2 \in Buffers, NEW a \in Index, NEW m \in Nat, NEW c \in Chars,
         \A k \in 1..m : b2[Place(a, k)] = b[Place(a, k)], b2[Place(a, m + 1)] = c
  PROVE  Str(b2, a, m + 1) = Append(Str(b, a, m), c)
<1>1. m + 1 \in Nat /\ 1 .. m + 1 = (1..m) \cup {m + 1}
  OBVIOUS
<1>2. PICK s \in Seq(Chars) : s = Str(b, a, m) /\ Len(s) = m /\ \A k \in 1..m : s[k] = b[Place(a, k)]
  BY StrSeq, Zenon
<1>3. PICK t \in Seq(Chars) : /\ t = Str(b2, a, m + 1) /\ Len(t) = m + 1
                              /\ \A k \in 1 .. m + 1 : t[k] = b2[Place(a, k)]
  BY <1>1, StrSeq, Zenon
<1>4. PICK x \in Seq(Chars) : /\ x = Append(s, c) /\ Len(x) = m + 1
                              /\ \A k \in 1..m : x[k] = s[k]
                              /\ x[m + 1] = c
  <2>1. /\ Append(s, c) \in Seq(Chars) /\ Len(Append(s, c)) = m + 1
        /\ \A k \in 1..m : Append(s, c)[k] = s[k]
        /\ Append(s, c)[m + 1] = c
    <3>1. Len(s) = m
      BY <1>2, Zenon
    <3> QED BY <3>1, Appends
  <2> QED BY <2>1, Zenon
<1>5. \A k \in 1 .. m + 1 : t[k] = x[k]
  BY <1>1, <1>2, <1>3, <1>4, Zenon
<1>6. t = x
  BY <1>3, <1>4, <1>5, SeqSame, Zenon
<1> QED
  BY <1>2, <1>3, <1>4, <1>6, Zenon

(* The same bytes in another buffer. *)
LEMMA StrSame ==
  ASSUME NEW b, NEW b2, NEW a, NEW m, \A k \in 1..m : b2[Place(a, k)] = b[Place(a, k)]
  PROVE  Str(b2, a, m) = Str(b, a, m)
BY Zenon DEF Str

(* The bytes up to an index and those from there. *)
LEMMA StrJoin ==
  ASSUME NEW b \in Buffers, NEW a \in Index, NEW q \in 0..Wrap, NEW d \in Nat
  PROVE  Str(b, a, q + d) = Str(b, a, q) \o Str(b, Ahead(a, q), d)
<1>1. q \in Nat /\ q + d \in Nat /\ Ahead(a, q) \in Index
  BY AheadIs, ConsoleAssumption
<1>2. PICK s \in Seq(Chars) : s = Str(b, a, q) /\ Len(s) = q /\ \A k \in 1..q : s[k] = b[Place(a, k)]
  BY <1>1, StrSeq, Zenon
<1>3. PICK t \in Seq(Chars) : /\ t = Str(b, Ahead(a, q), d) /\ Len(t) = d
                              /\ \A k \in 1..d : t[k] = b[Place(Ahead(a, q), k)]
  BY <1>1, StrSeq, Zenon
<1>4. PICK x \in Seq(Chars) : /\ x = Str(b, a, q + d) /\ Len(x) = q + d
                              /\ \A k \in 1 .. q + d : x[k] = b[Place(a, k)]
  BY <1>1, StrSeq, Zenon
<1>5. PICK y \in Seq(Chars) : /\ y = s \o t /\ Len(y) = q + d
                              /\ \A k \in 1 .. q + d : y[k] = IF k <= q THEN s[k] ELSE t[k - q]
  <2>1. /\ s \o t \in Seq(Chars) /\ Len(s \o t) = q + d
        /\ \A k \in 1 .. q + d : (s \o t)[k] = IF k <= q THEN s[k] ELSE t[k - q]
    <3>1. Len(s) = q /\ Len(t) = d
      BY <1>2, <1>3, Zenon
    <3> QED BY <3>1
  <2> QED BY <2>1, Zenon
<1>6. ASSUME NEW k \in 1 .. q + d PROVE x[k] = y[k]
  <2>1. CASE k <= q
    <3>1. k \in 1..q
      BY <1>1, <2>1
    <3> QED BY <1>2, <1>4, <1>5, <2>1, <3>1, Zenon
  <2>2. CASE ~(k <= q)
    <3>1. k - q \in 1..d /\ k - q \in Nat /\ q + (k - q) = k
      BY <1>1, <2>2
    <3>2. Place(Ahead(a, q), k - q) = Place(a, k)
      BY <3>1, PlaceAhead, Zenon
    <3> QED BY <1>3, <1>4, <1>5, <2>2, <3>1, <3>2, Zenon
  <2> QED BY <2>1, <2>2, Zenon
<1>7. x = y
  BY <1>4, <1>5, <1>6, SeqSame, Zenon
<1> QED
  BY <1>2, <1>3, <1>4, <1>5, <1>7, Zenon

(* The first of the bytes, ... *)
LEMMA StrPrefix ==
  ASSUME NEW b \in Buffers, NEW a \in Index, NEW m \in Nat, NEW j \in 0..m
  PROVE  Str(b, a, j) = SubSeq(Str(b, a, m), 1, j)
<1>1. j \in Nat /\ \A k \in 1..j : k \in 1..m
  OBVIOUS
<1>2. PICK s \in Seq(Chars) : s = Str(b, a, m) /\ Len(s) = m /\ \A k \in 1..m : s[k] = b[Place(a, k)]
  BY StrSeq, Zenon
<1>3. PICK t \in Seq(Chars) : t = Str(b, a, j) /\ Len(t) = j /\ \A k \in 1..j : t[k] = b[Place(a, k)]
  BY <1>1, StrSeq, Zenon
<1>4. PICK x \in Seq(Chars) : x = SubSeq(s, 1, j) /\ Len(x) = j /\ \A k \in 1..j : x[k] = s[k]
  <2>1. SubSeq(s, 1, j) \in Seq(Chars) /\ Len(SubSeq(s, 1, j)) = j /\ \A k \in 1..j : SubSeq(s, 1, j)[k] = s[k]
    <3>1. Len(s) = m
      BY <1>2, Zenon
    <3> QED BY <3>1, Parts
  <2> QED BY <2>1, Zenon
<1>5. \A k \in 1..j : t[k] = x[k]
  BY <1>1, <1>2, <1>3, <1>4, Zenon
<1>6. t = x
  BY <1>3, <1>4, <1>5, SeqSame, Zenon
<1> QED
  BY <1>2, <1>3, <1>4, <1>6, Zenon

(* ... and the others. *)
LEMMA StrSuffix ==
  ASSUME NEW b \in Buffers, NEW a \in Index, NEW m \in 0..Wrap, NEW j \in 0..m
  PROVE  Str(b, Ahead(a, j), m - j) = SubSeq(Str(b, a, m), j + 1, Len(Str(b, a, m)))
<1>1. /\ m \in Nat /\ j \in 0..Wrap /\ m - j \in Nat
      /\ \A k \in 1 .. m - j : k \in Nat /\ j + k \in 1..m
  BY ConsoleAssumption
<1>2. PICK s \in Seq(Chars) : s = Str(b, a, m) /\ Len(s) = m /\ \A k \in 1..m : s[k] = b[Place(a, k)]
  BY <1>1, StrSeq, Zenon
<1>3. PICK t \in Seq(Chars) : /\ t = Str(b, Ahead(a, j), m - j) /\ Len(t) = m - j
                              /\ \A k \in 1 .. m - j : t[k] = b[Place(Ahead(a, j), k)]
  BY <1>1, AheadIs, StrSeq, ZenonT(60)
<1>4. PICK x \in Seq(Chars) : /\ x = SubSeq(s, j + 1, m) /\ Len(x) = m - j
                              /\ \A k \in 1 .. m - j : x[k] = s[j + k]
  <2>1. /\ SubSeq(s, j + 1, m) \in Seq(Chars) /\ Len(SubSeq(s, j + 1, m)) = m - j
        /\ \A k \in 1 .. m - j : SubSeq(s, j + 1, m)[k] = s[j + k]
    <3>1. Len(s) = m
      BY <1>2, Zenon
    <3> QED BY <3>1, Parts
  <2> QED BY <2>1, Zenon
<1>5. \A k \in 1 .. m - j : t[k] = x[k]
  BY <1>1, <1>2, <1>3, <1>4, PlaceAhead, Zenon
<1>6. t = x
  BY <1>3, <1>4, <1>5, SeqSame, Zenon
<1> QED
  BY <1>2, <1>3, <1>4, <1>6, Zenon
------------------------------------------------------------------------------
(* The end-of-files among the m bytes from index a on. *)
Eofs(b, a, m) == {k \in 1..m : b[Place(a, k)] = EOF}

(* There are finitely many. *)
LEMMA EofsFinite ==
  ASSUME NEW b, NEW a, NEW m \in Nat
  PROVE  IsFiniteSet(Eofs(b, a, m)) /\ Cardinality(Eofs(b, a, m)) \in Nat
<1>1. IsFiniteSet(1..m)
  BY FS_Interval
<1>2. Eofs(b, a, m) \in SUBSET (1..m)
  BY Zenon DEF Eofs
<1>3. IsFiniteSet(Eofs(b, a, m))
  BY <1>1, <1>2, FS_Subset, Zenon
<1> QED
  BY <1>3, FS_CardinalityType, Zenon

(* A character typed is one more or none, ... *)
LEMMA EofsAppend ==
  ASSUME NEW b, NEW b2, NEW a, NEW m \in Nat, NEW c,
         \A k \in 1..m : b2[Place(a, k)] = b[Place(a, k)], b2[Place(a, m + 1)] = c
  PROVE  Cardinality(Eofs(b2, a, m + 1)) = Cardinality(Eofs(b, a, m)) + IF c = EOF THEN 1 ELSE 0
<1>1. 1 .. m + 1 = (1..m) \cup {m + 1} /\ m + 1 \notin 1..m
  OBVIOUS
<1>2. IsFiniteSet(Eofs(b, a, m)) /\ Cardinality(Eofs(b, a, m)) \in Nat
  BY EofsFinite, Zenon
<1>3. m + 1 \notin Eofs(b, a, m)
  BY <1>1, Zenon DEF Eofs
<1>4. CASE c = EOF
  <2>1. Eofs(b2, a, m + 1) = Eofs(b, a, m) \cup {m + 1}
    BY <1>1, <1>4, Zenon DEF Eofs
  <2>2. Cardinality(Eofs(b, a, m) \cup {m + 1}) = Cardinality(Eofs(b, a, m)) + 1
    BY <1>2, <1>3, FS_AddElement, Zenon
  <2> QED BY <1>4, <2>1, <2>2, Zenon
<1>5. CASE c # EOF
  <2>1. Eofs(b2, a, m + 1) = Eofs(b, a, m)
    BY <1>1, <1>5, Zenon DEF Eofs
  <2>2. PICK x \in Nat : x = Cardinality(Eofs(b, a, m))
    BY <1>2, Zenon
  <2>3. x + 0 = x
    OBVIOUS
  <2> QED BY <1>5, <2>1, <2>2, <2>3, Zenon
<1> QED
  BY <1>4, <1>5, Zenon

(* ... erasing other characters loses none, ... *)
LEMMA EofsPrefix ==
  ASSUME NEW b, NEW a, NEW m \in Nat, NEW j \in 0..m,
         \A k \in 1..m : k > j => b[Place(a, k)] # EOF
  PROVE  Eofs(b, a, j) = Eofs(b, a, m)
<1>1. \A k : k \in 1..j <=> k \in 1..m /\ ~(k > j)
  OBVIOUS
<1> QED
  BY <1>1, Zenon DEF Eofs

(* ... and those behind the first j bytes are counted from there. *)
LEMMA EofsSuffix ==
  ASSUME NEW b, NEW a \in Index, NEW m \in 0..Wrap, NEW j \in 0..m
  PROVE  Cardinality(Eofs(b, Ahead(a, j), m - j)) = Cardinality({k \in Eofs(b, a, m) : k > j})
<1> DEFINE S == Eofs(b, Ahead(a, j), m - j)
           T == {k \in Eofs(b, a, m) : k > j}
           f == [k \in S |-> j + k]
<1>1. /\ m \in Nat /\ j \in 0..Wrap /\ m - j \in Nat /\ j \in Nat
      /\ \A k \in 1 .. m - j : k \in Nat /\ j + k \in 1..m /\ j + k > j
      /\ \A k \in 1..m : k > j => k - j \in 1 .. m - j /\ j + (k - j) = k
      /\ \A k, l \in 1 .. m - j : j + k = j + l => k = l
  BY ConsoleAssumption
<1>2. \A k \in 1 .. m - j : Place(Ahead(a, j), k) = Place(a, j + k)
  <2>1. j \in 0..Wrap /\ \A k \in 1 .. m - j : k \in Nat
    BY <1>1, Zenon
  <2> QED BY <2>1, PlaceAhead, Zenon
<1>3. IsFiniteSet(S)
  BY <1>1, EofsFinite, Zenon
<1>4. f \in [S -> T]
  BY <1>1, <1>2, Zenon DEF Eofs
<1>5. \A k, l \in S : f[k] = f[l] => k = l
  BY <1>1, Zenon DEF Eofs
<1>6. \A t \in T : \E k \in S : f[k] = t
  <2> SUFFICES ASSUME NEW t \in T PROVE \E k \in S : f[k] = t
    BY Zenon
  <2>1. t \in 1..m /\ t > j /\ b[Place(a, t)] = EOF
    BY Zenon DEF Eofs
  <2>2. t - j \in 1 .. m - j /\ j + (t - j) = t
    BY <1>1, <2>1, Zenon
  <2>3. Place(Ahead(a, j), t - j) = Place(a, t)
    BY <1>2, <2>2, Zenon
  <2>4. t - j \in S
    BY <2>1, <2>2, <2>3, Zenon DEF Eofs
  <2> HIDE DEF S
  <2>5. f[t - j] = t
    BY <2>2, <2>4, Zenon
  <2> QED BY <2>4, <2>5, Zenon
<1> HIDE DEF f, S, T
<1>7. f \in Bijection(S, T)
  BY <1>4, <1>5, <1>6, Zenon DEF Bijection, Injection, Surjection, IsInjective
<1>8. ExistsBijection(S, T)
  BY <1>7, Zenon DEF ExistsBijection
<1>9. Cardinality(T) = Cardinality(S)
  BY <1>3, <1>8, FS_Bijection, Zenon
<1> QED
  BY <1>9, Zenon DEF S, T
------------------------------------------------------------------------------
(* The least number of a set: consoleread() stops somewhere. *)
LEMMA LeastNat ==
  ASSUME NEW T, T \subseteq Nat, T # {}
  PROVE  \E x \in T : \A y \in T : x <= y
<1> DEFINE R == OpToRel(<, Nat)
<1>1. IsWellFoundedOn(R, Nat)
  BY NatLessThanWellFounded, Zenon
<1>2. \E x \in T : \A y \in T : ~(<<y, x>> \in R)
  <2> HIDE DEF R
  <2> QED BY <1>1, WFMin, Zenon
<1>3. \A x, y \in Nat : y < x => <<y, x>> \in R
  BY Zenon DEF OpToRel
<1>4. PICK x \in T : \A y \in T : ~(<<y, x>> \in R)
  BY <1>2, Zenon
<1>5. \A y \in T : ~(y < x)
  <2> HIDE DEF R
  <2> QED BY <1>3, <1>4, Zenon
<1>6. \A y \in T : x <= y
  BY <1>5
<1> QED
  BY <1>6, Zenon

(* The byte it stops at is the first of those at which it may. *)
LEMMA FirstIs ==
  ASSUME NEW S, S \subseteq Nat, S # {}
  PROVE  First(S) \in S /\ \A j \in S : First(S) <= j
<1>1. \E i \in S : \A j \in S : i <= j
  BY LeastNat, Zenon
<1> QED
  BY <1>1, Zenon DEF First
------------------------------------------------------------------------------
(* What the indices say: r, w and e are in this order around the ring, with   *)
(* at most INPUT_BUF bytes between them.                                      *)
Shape(q, d) ==
  /\ buf \in Buffers /\ r \in Index /\ w \in Index /\ e \in Index
  /\ q = Dist(r, w) /\ d = Dist(w, e) /\ q + d = Dist(r, e)
  /\ w = Ahead(r, q) /\ e = Ahead(w, d) /\ e = Ahead(r, q + d)
  /\ e % INPUT_BUF = Place(r, q + d + 1)
  /\ \A k \in Nat : Place(w, k) = Place(r, q + k)

(* So they are in every state. *)
LEMMA ShapeIs ==
  ASSUME TypeOK
  PROVE  \E q \in Nat, d \in Nat : q + d <= INPUT_BUF /\ Shape(q, d)
<1>1. /\ Wrap \in Nat /\ INPUT_BUF \in Nat /\ INPUT_BUF < Wrap
  BY ConsoleAssumption
<1>2. /\ buf \in Buffers /\ r \in Index /\ w \in Index /\ e \in Index
      /\ Dist(r, w) + Dist(w, e) <= INPUT_BUF
  BY Zenon DEF TypeOK, Buffers, Index
<1>3. PICK q \in Nat, d \in Nat : q = Dist(r, w) /\ d = Dist(w, e)
  BY <1>2, DistIs, Zenon
<1>4. /\ q + d <= INPUT_BUF /\ q + d < Wrap /\ q + d \in 0..Wrap /\ q \in 0..Wrap
      /\ q \in 0..q /\ d \in 0..d /\ q + d \in 0 .. q + d
  BY <1>1, <1>2, <1>3
<1>5. Dist(r, e) = q + d
  BY <1>2, <1>3, <1>4, DistSum, Zenon
<1>6. w = Ahead(r, q) /\ e = Ahead(w, d) /\ e = Ahead(r, q + d)
  <2>1. w = Ahead(r, q)
    BY <1>2, <1>3, <1>4, DistAhead
  <2>2. e = Ahead(w, d)
    BY <1>2, <1>3, <1>4, DistAhead
  <2>3. PICK m : m = q + d /\ m = Dist(r, e) /\ m \in 0..m
    BY <1>4, <1>5, Zenon
  <2>4. e = Ahead(r, m)
    BY <1>2, <2>3, DistAhead
  <2> QED BY <2>1, <2>2, <2>3, <2>4, Zenon
<1>7. e % INPUT_BUF = Place(r, q + d + 1)
  BY <1>2, <1>4, <1>6, CharAt, Zenon
<1>8. \A k \in Nat : Place(w, k) = Place(r, q + k)
  BY <1>2, <1>4, <1>6, PlaceAhead, Zenon
<1> QED
  BY <1>2, <1>3, <1>4, <1>5, <1>6, <1>7, <1>8, Zenon DEF Shape

(* The bytes of Bytes(). *)
LEMMA BytesAre ==
  /\ \A a, b : Bytes(a, b) = Str(buf, a, Dist(a, b))
  /\ Bytes(w, e)' = Str(buf', w', Dist(w', e'))
  /\ Bytes(r, w)' = Str(buf', r', Dist(r', w'))
  /\ Bytes(r, e)' = Str(buf', r', Dist(r', e'))
BY Zenon DEF Bytes, Str, Place, Dist

(* The end-of-files to be returned are those of the buffer. *)
LEMMA EofOnceIs ==
  /\ EofOnce <=> eofs = Cardinality(Eofs(buf, r, Dist(r, e)))
  /\ EofOnce' <=> eofs' = Cardinality(Eofs(buf', r', Dist(r', e')))
<1>1. ASSUME NEW b, NEW a, NEW m
      PROVE  {k \in DOMAIN Str(b, a, m) : Str(b, a, m)[k] = EOF} = Eofs(b, a, m)
  BY Zenon DEF Str, Eofs
<1> QED
  BY <1>1, BytesAre, Zenon DEF EofOnce
------------------------------------------------------------------------------
(* A character typed goes behind the others, and finishes the line or joins   *)
(* it.                                                                        *)
LEMMA KeyEffect ==
  ASSUME TypeOK, NEW c \in Chars, Key(c), NEW q \in Nat, NEW d \in Nat, Shape(q, d)
  PROVE  /\ q + d + 1 <= INPUT_BUF /\ buf' \in Buffers /\ r' = r /\ e' \in Index
         /\ Dist(r, e') = q + d + 1 /\ Dist(w, e') = d + 1
         /\ \A k \in 1 .. q + d : buf'[Place(r, k)] = buf[Place(r, k)]
         /\ buf'[Place(r, q + d + 1)] = c
         /\ \/ c \in {NL, EOF} \/ q + d + 1 = INPUT_BUF
            \/ c \notin {NL, EOF} /\ q + d + 1 < INPUT_BUF
         /\ c \in {NL, EOF} \/ q + d + 1 = INPUT_BUF => w' = e' /\ pc' = Woken
         /\ c \notin {NL, EOF} /\ q + d + 1 < INPUT_BUF => w' = w /\ pc' = pc
<1>1. Wrap \in Nat /\ INPUT_BUF \in Nat /\ INPUT_BUF < Wrap
  BY ConsoleAssumption
<1>2. /\ buf \in Buffers /\ r \in Index /\ w \in Index /\ e \in Index
      /\ Dist(r, e) = q + d /\ Dist(w, e) = d /\ e % INPUT_BUF = Place(r, q + d + 1)
  BY Zenon DEF Shape
<1>3. /\ Dist(r, e) < INPUT_BUF /\ buf' = [buf EXCEPT ![e % INPUT_BUF] = c] /\ e' = Inc(e) /\ r' = r
      /\ Finished(c, Inc(e)) => w' = Inc(e) /\ pc' = Woken
      /\ ~Finished(c, Inc(e)) => w' = w /\ pc' = pc
  BY Zenon DEF Key, Wakeup
<1>4. /\ q + d + 1 \in 1..INPUT_BUF /\ q + d + 1 \in Nat /\ q + d + 1 <= INPUT_BUF
      /\ q + d + 1 < Wrap /\ d + 1 < Wrap
      /\ \A k \in 1 .. q + d : k \in 1..INPUT_BUF /\ k \in Nat /\ k # q + d + 1
      /\ q + d + 1 = INPUT_BUF \/ q + d + 1 < INPUT_BUF
      /\ ~(q + d + 1 = INPUT_BUF /\ q + d + 1 < INPUT_BUF)
  BY <1>1, <1>2, <1>3
<1>5. e' \in Index /\ Dist(r, e') = q + d + 1 /\ Dist(w, e') = d + 1
  <2>1. Dist(r, e) + 1 < Wrap /\ Dist(w, e) + 1 < Wrap
    BY <1>2, <1>4, Zenon
  <2>2. Inc(e) \in Index /\ Dist(r, Inc(e)) = Dist(r, e) + 1 /\ Dist(w, Inc(e)) = Dist(w, e) + 1
    BY <1>2, <2>1, Stepped, Zenon
  <2> QED BY <1>2, <1>3, <2>2, Zenon
<1>6. Place(r, q + d + 1) \in 0 .. INPUT_BUF - 1
  BY <1>2, <1>4, PlaceIn, Zenon
<1>7. buf' \in Buffers /\ buf'[Place(r, q + d + 1)] = c
  BY <1>2, <1>3, <1>6, Zenon DEF Buffers
<1>8. \A k \in 1 .. q + d : buf'[Place(r, k)] = buf[Place(r, k)]
  <2> SUFFICES ASSUME NEW k \in 1 .. q + d PROVE buf'[Place(r, k)] = buf[Place(r, k)]
    BY Zenon
  <2>1. Place(r, k) \in 0 .. INPUT_BUF - 1 /\ Place(r, k) # Place(r, q + d + 1)
    BY <1>2, <1>4, PlaceIn, PlaceOnce, Zenon
  <2> QED BY <1>2, <1>3, <2>1, Zenon DEF Buffers
<1>9. Finished(c, Inc(e)) <=> c \in {NL, EOF} \/ q + d + 1 = INPUT_BUF
  BY <1>3, <1>5, Zenon DEF Finished
<1>10. /\ c \in {NL, EOF} \/ q + d + 1 = INPUT_BUF => w' = e' /\ pc' = Woken
       /\ c \notin {NL, EOF} /\ q + d + 1 < INPUT_BUF => w' = w /\ pc' = pc
  BY <1>3, <1>4, <1>9, Zenon
<1> QED
  BY <1>3, <1>4, <1>5, <1>7, <1>8, <1>10, Zenon

(* ^H and ^U erase from the line that is being edited. *)
LEMMA EraseEffect ==
  ASSUME TypeOK, Backspace \/ KillLine, NEW q \in Nat, NEW d \in Nat, Shape(q, d), q + d <= INPUT_BUF
  PROVE  /\ buf' = buf /\ r' = r /\ w' = w /\ e' \in Index /\ d > 0
         /\ \E j \in 0 .. d - 1 : /\ j = 0 \/ j = d - 1
                                  /\ Dist(w, e') = j /\ Dist(r, e') = q + j
<1>1. Wrap \in Nat /\ INPUT_BUF \in Nat /\ INPUT_BUF < Wrap
  BY ConsoleAssumption
<1>2. /\ r \in Index /\ w \in Index /\ e \in Index /\ q = Dist(r, w) /\ d = Dist(w, e)
  BY Zenon DEF Shape
<1>3. buf' = buf /\ r' = r /\ w' = w /\ e # w /\ (e' = Dec(e) \/ e' = w)
  BY Zenon DEF Backspace, KillLine, Erasable
<1>4. d # 0 /\ d > 0
  <2>1. d # 0
    BY <1>2, <1>3, DistIs, Zenon
  <2> QED BY <2>1
<1>5. 0 \in 0 .. d - 1 /\ d - 1 \in 0 .. d - 1
  BY <1>4
<1>6. e' \in Index /\ \E j \in 0 .. d - 1 : (j = 0 \/ j = d - 1) /\ Dist(w, e') = j
  <2>1. CASE e' = Dec(e)
    BY <1>2, <1>3, <1>5, <2>1, Stepped, Zenon
  <2>2. CASE e' = w
    BY <1>2, <1>5, <2>2, DistIs, Zenon
  <2> QED BY <1>3, <2>1, <2>2, Zenon
<1>7. PICK j \in 0 .. d - 1 : (j = 0 \/ j = d - 1) /\ Dist(w, e') = j
  BY <1>6, Zenon
<1>8. q + j < Wrap
  BY <1>1
<1>9. Dist(r, e') = q + j
  BY <1>2, <1>6, <1>7, <1>8, DistSum, Zenon
<1> QED
  BY <1>3, <1>4, <1>6, <1>7, <1>9, Zenon

(* One pass of consoleread() takes finished bytes from the front: none that   *)
(* is an end-of-file, or one that is and comes first, for which it returns 0. *)
Takes(g, j, k, t) ==
  /\ g.r = Ahead(r, j) /\ g.n \in 0..k /\ g.done \in BOOLEAN
  /\ ~g.done => Ahead(r, j) = w
  /\ \/ /\ \A i \in 1..j : buf[Place(r, i)] # EOF
        /\ ~(g.done /\ g.n = t /\ g.n > 0)
     \/ j = 1 /\ buf[Place(r, 1)] = EOF /\ g.done /\ g.n = t /\ g.n > 0

(* So does Consume(). *)
LEMMA ConsumeTakes ==
  ASSUME TypeOK, NEW k \in Nat, NEW t \in Nat, k <= t, NEW q \in Nat, NEW d \in Nat, Shape(q, d),
         q <= INPUT_BUF
  PROVE  \E j \in 0..q : Takes(Consume(r, k, t), j, k, t)
<1> DEFINE S == Stops(r, k)
           i == First(S)
           a == Ahead(r, i)
<1>1. Wrap \in Nat /\ INPUT_BUF \in Nat /\ INPUT_BUF < Wrap
  BY ConsoleAssumption
<1>2. r \in Index /\ w \in Index /\ q = Dist(r, w) /\ w = Ahead(r, q)
  BY Zenon DEF Shape
<1>3. S \subseteq Nat /\ k \in S
  <2>1. k \in 0..k /\ 0..k \subseteq Nat
    OBVIOUS
  <2> QED BY <2>1, Zenon DEF Stops
<1>4. i \in S /\ \A j \in S : i <= j
  BY <1>3, FirstIs, Zenon
<1>5. i \in 0..k /\ (i = k \/ a = w \/ Char(a) \in {NL, EOF})
  BY <1>4, Zenon DEF Stops
<1>6. ASSUME NEW j \in 0..k, ~(i <= j) PROVE j # k /\ Ahead(r, j) # w /\ Char(Ahead(r, j)) \notin {NL, EOF}
  BY <1>4, <1>6, Zenon DEF Stops
<1> HIDE DEF S, i
<1>7. i \in 0..q /\ i \in Nat
  <2>1. CASE q <= k
    <3>1. q \in 0..k
      BY <2>1
    <3>2. i <= q
      BY <1>2, <1>6, <3>1, Zenon
    <3> QED BY <1>5, <3>2
  <2>2. CASE ~(q <= k)
    BY <1>5, <2>2
  <2> QED BY <2>1, <2>2, Zenon
<1>8. /\ i \in 0 .. Wrap - 1 /\ i \in 0..Wrap
      /\ \A j \in 1..i : j - 1 \in 0..k /\ j - 1 \in 0..Wrap /\ ~(i <= j - 1) /\ (j - 1) + 1 = j
  BY <1>1, <1>5, <1>7
<1>9. \A j \in 1..i : buf[Place(r, j)] \notin {NL, EOF}
  <2> SUFFICES ASSUME NEW j \in 1..i PROVE buf[Place(r, j)] \notin {NL, EOF}
    BY Zenon
  <2>1. j - 1 \in 0..k /\ j - 1 \in 0..Wrap /\ ~(i <= j - 1) /\ (j - 1) + 1 = j
    BY <1>8, Zenon
  <2>2. Ahead(r, j - 1) % INPUT_BUF = Place(r, (j - 1) + 1)
    BY <1>2, <2>1, CharAt, Zenon
  <2>3. Char(Ahead(r, j - 1)) \notin {NL, EOF}
    BY <1>6, <2>1, Zenon
  <2> QED BY <2>1, <2>2, <2>3, Zenon DEF Char
<1>10. Char(a) = buf[Place(r, i + 1)]
  BY <1>2, <1>8, CharAt, Zenon DEF Char
<1>11. Inc(a) = Ahead(r, i + 1)
  BY <1>2, <1>8, AheadNext, Zenon
<1> DEFINE g == Consume(r, k, t)
<1>12. /\ i = k => g = [r |-> a, n |-> 0, done |-> TRUE]
       /\ i # k /\ a = w => g = [r |-> a, n |-> k - i, done |-> FALSE]
       /\ i # k /\ a # w /\ Char(a) = EOF => g = [r |-> PutBack(a, k - i, t), n |-> k - i, done |-> TRUE]
       /\ i # k /\ a # w /\ Char(a) # EOF => g = [r |-> Inc(a), n |-> k - i - 1, done |-> TRUE]
  BY Zenon DEF Consume, S, i
<1>13. NL # EOF
  BY DEF NL, EOF
<1> HIDE DEF g
<1>14. CASE i = k
  <2>1. g.r = Ahead(r, i) /\ g.n = 0 /\ g.done = TRUE
    BY <1>12, <1>14
  <2>2. 0 \in 0..k /\ ~(0 > 0)
    OBVIOUS
  <2>3. Takes(g, i, k, t)
    BY <1>9, <2>1, <2>2, Zenon DEF Takes
  <2> QED BY <1>7, <2>3, Zenon DEF g
<1>15. CASE i # k /\ a = w
  <2>1. g.r = Ahead(r, i) /\ g.n = k - i /\ g.done = FALSE
    BY <1>12, <1>15
  <2>2. k - i \in 0..k
    BY <1>5
  <2>3. Takes(g, i, k, t)
    BY <1>9, <1>15, <2>1, <2>2, Zenon DEF Takes
  <2> QED BY <1>7, <2>3, Zenon DEF g
<1>16. ASSUME i # k, a # w PROVE i + 1 \in 0..q
  <2>1. i # q
    BY <1>2, <1>16, Zenon
  <2> QED BY <1>7, <2>1
<1>17. CASE i # k /\ a # w /\ Char(a) = EOF
  <2>1. g.r = PutBack(a, k - i, t) /\ g.n = k - i /\ g.done = TRUE
    BY <1>12, <1>17
  <2>2. k - i \in 0..k /\ k - i > 0
    BY <1>5, <1>17
  <2>3. CASE k - i < t
    <3>1. PutBack(a, k - i, t) = a /\ k - i # t
      BY <1>5, <2>3 DEF PutBack
    <3>2. Takes(g, i, k, t)
      BY <1>9, <2>1, <2>2, <3>1, Zenon DEF Takes
    <3> QED BY <1>7, <3>2, Zenon DEF g
  <2>4. CASE ~(k - i < t)
    <3>1. k - i = t /\ i = 0 /\ i + 1 = 1
      BY <1>5, <2>4
    <3>2. PutBack(a, k - i, t) = Ahead(r, 1)
      BY <1>11, <2>4, <3>1, Zenon DEF PutBack
    <3>3. buf[Place(r, 1)] = EOF
      BY <1>10, <1>17, <3>1, Zenon
    <3>4. Takes(g, 1, k, t)
      BY <2>1, <2>2, <3>1, <3>2, <3>3, Zenon DEF Takes
    <3>5. 1 \in 0..q
      BY <1>16, <1>17, <3>1, Zenon
    <3> QED BY <3>4, <3>5, Zenon DEF g
  <2> QED BY <2>3, <2>4, Zenon
<1>18. CASE i # k /\ a # w /\ Char(a) # EOF
  <2>1. g.r = Ahead(r, i + 1) /\ g.n = k - i - 1 /\ g.done = TRUE
    BY <1>11, <1>12, <1>18
  <2>2. k - i - 1 \in 0..k /\ k - i - 1 # t
    BY <1>5, <1>18
  <2>3. 1 .. i + 1 = (1..i) \cup {i + 1}
    BY <1>7
  <2>4. \A j \in 1 .. i + 1 : buf[Place(r, j)] # EOF
    BY <1>9, <1>10, <1>18, <2>3, Zenon
  <2>5. Takes(g, i + 1, k, t)
    BY <2>1, <2>2, <2>4, Zenon DEF Takes
  <2> QED BY <1>16, <1>18, <2>5, Zenon DEF g
<1> QED
  BY <1>14, <1>15, <1>17, <1>18, Zenon
------------------------------------------------------------------------------
(* The line being edited leaves room for a key and holds no end of line; who  *)
(* sleeps waits for input; tf_backup has the frame that the latest handler     *)
(* interrupted, or, once that handler has returned, the frame resumed.        *)
LineInv ==
  /\ Dist(w, e) < INPUT_BUF
  /\ \A k \in 1 .. Dist(w, e) : buf[Place(w, k)] \notin {NL, EOF}
SleepInv == \A p \in Procs : pc[p] = "asleep" => r = w
SignalInv ==
  \A p \in Procs :
    /\ fresh[p] => backup[p] = Saved(under[p])
    /\ ~fresh[p] /\ tf[p].rip > 0 => backup[p].rip = tf[p].rip /\ backup[p].rcx = "rip"
    /\ fresh[p] /\ under[p].rcx = "rip" => under[p].r11 = "rflags"
RingOK ==
  /\ buf \in Buffers /\ r \in Index /\ w \in Index /\ e \in Index
  /\ Dist(r, w) + Dist(w, e) <= INPUT_BUF
CallOK ==
  /\ pc \in [Procs -> {"user", "read", "asleep", "gone"}]
  /\ n \in [Procs -> Nat] /\ target \in [Procs -> Nat] /\ \A p \in Procs : n[p] <= target[p]
SignalOK ==
  /\ fgpid \in Procs \cup {0}
  /\ pending \in [Procs -> BOOLEAN] /\ fresh \in [Procs -> BOOLEAN]
  /\ disp \in [Procs -> {"default", "ignore", "handler"}]
  /\ tf \in [Procs -> Frames] /\ backup \in [Procs -> Frames] /\ under \in [Procs -> Frames]
IInv == TypeOK /\ LineInv /\ SleepInv /\ EofOnce /\ SignalInv

(* The frames that signals build are frames. *)
LEMMA FramesOK ==
  /\ \A f \in Frames : SysRet([f EXCEPT !.rax = "sigret"]) \in Frames
  /\ \A f \in Frames, call \in BOOLEAN :
       /\ Entered(f.rip, call) \in Frames /\ Saved(Entered(f.rip, call)) \in Frames
       /\ [Entered(f.rip, call) EXCEPT !.rip = f.rip + 1, !.rcx = "rip"] \in Frames
<1>1. ASSUME NEW f \in Frames PROVE SysRet([f EXCEPT !.rax = "sigret"]) \in Frames
  <2>1. [f EXCEPT !.rax = "sigret"] \in Frames
    BY DEF Frames
  <2>2. ASSUME NEW g \in Frames PROVE SysRet(g) \in Frames
    <3>1. /\ (IF g.rcx = "rip" THEN g.rip ELSE Lost) \in Int
          /\ (IF g.r11 = "rflags" THEN g.rflags ELSE "r11") \in {"own", "r11"}
      BY DEF Frames, Lost
    <3> QED BY <3>1 DEF SysRet, Frames
  <2> QED BY <2>1, <2>2
<1>2. ASSUME NEW f \in Frames, NEW call \in BOOLEAN
      PROVE  /\ Entered(f.rip, call) \in Frames /\ Saved(Entered(f.rip, call)) \in Frames
             /\ [Entered(f.rip, call) EXCEPT !.rip = f.rip + 1, !.rcx = "rip"] \in Frames
  <2>1. f.rip \in Int /\ f.rip + 1 \in Int
    BY DEF Frames
  <2>2. Entered(f.rip, call) \in Frames
    BY <2>1 DEF Entered, Frames
  <2>3. ASSUME NEW g \in Frames, NEW k \in Int
        PROVE  [g EXCEPT !.rcx = "rip"] \in Frames /\ [g EXCEPT !.rip = k, !.rcx = "rip"] \in Frames
    BY DEF Frames
  <2> QED BY <2>1, <2>2, <2>3 DEF Saved
<1> QED BY <1>1, <1>2

(* sysretq goes where tf_backup says, and a frame of a system call comes back *)
(* with another result only.                                                  *)
LEMMA FrameBack ==
  ASSUME NEW f \in Frames
  PROVE  /\ f.rcx = "rip" => SysRet([f EXCEPT !.rax = "sigret"]).rip = f.rip
         /\ Saved(f).rip = f.rip /\ Saved(f).rcx = "rip"
         /\ f.rcx = "rip" /\ f.r11 = "rflags" =>
              SysRet([Saved(f) EXCEPT !.rax = "sigret"]) = [f EXCEPT !.rax = "sigret"]
BY DEF Frames, SysRet, Saved

(* The parts of the type invariant. *)
LEMMA TypeParts ==
  /\ TypeOK <=> RingOK /\ CallOK /\ SignalOK
  /\ TypeOK' <=> RingOK' /\ CallOK' /\ SignalOK'
BY Zenon DEF TypeOK, RingOK, CallOK, SignalOK, Buffers, Index

(* A pass of consoleread(), with what Consume() says of it. *)
ReadTakes(p, q, j) ==
  /\ j \in 0..q /\ pc[p] = "read"
  /\ r' = Ahead(r, j) /\ buf' = buf /\ w' = w /\ e' = e
  /\ \/ (\A i \in 1..j : buf[Place(r, i)] # EOF) /\ eofs' = eofs
     \/ j = 1 /\ buf[Place(r, 1)] = EOF /\ eofs' = eofs - 1
  /\ \/ pc' = [pc EXCEPT ![p] = "user"]
     \/ pc' = [pc EXCEPT ![p] = "asleep"] /\ r' = w
  /\ n' \in [Procs -> Nat] /\ target' \in [Procs -> Nat]
  /\ \A x \in Procs : n'[x] <= target'[x]
  /\ UNCHANGED <<fgpid, signals>>

(* Every pass is one. *)
LEMMA ReadEffect ==
  ASSUME TypeOK, NEW p \in Procs, ReadStep(p), NEW q \in Nat, NEW d \in Nat, Shape(q, d), q <= INPUT_BUF
  PROVE  \E j \in 0..q : ReadTakes(p, q, j)
<1> DEFINE k == n[p]
           t == target[p]
           g == Consume(r, k, t)
<1>1. /\ k \in Nat /\ t \in Nat /\ k <= t
      /\ n \in [Procs -> Nat] /\ target \in [Procs -> Nat] /\ \A x \in Procs : n[x] <= target[x]
  BY Zenon DEF TypeOK
<1>2. PICK j \in 0..q : Takes(g, j, k, t)
  BY <1>1, ConsumeTakes, Zenon
<1>3. /\ pc[p] = "read" /\ r' = g.r
      /\ pc' = [pc EXCEPT ![p] = IF g.done THEN "user" ELSE "asleep"]
      /\ n' = [n EXCEPT ![p] = IF g.done THEN 0 ELSE g.n]
      /\ target' = [target EXCEPT ![p] = IF g.done THEN 0 ELSE target[p]]
      /\ eofs' = IF g.done /\ g.n = t /\ g.n > 0 THEN eofs - 1 ELSE eofs
      /\ buf' = buf /\ w' = w /\ e' = e /\ UNCHANGED <<fgpid, signals>>
  BY Zenon DEF ReadStep
<1> HIDE DEF g, k, t
<1>4. /\ \/ (\A i \in 1..j : buf[Place(r, i)] # EOF) /\ eofs' = eofs
         \/ j = 1 /\ buf[Place(r, 1)] = EOF /\ eofs' = eofs - 1
      /\ r' = Ahead(r, j) /\ g.done \in BOOLEAN /\ g.n \in 0..k
      /\ ~g.done => Ahead(r, j) = w
  BY <1>2, <1>3, Zenon DEF Takes
<1>5. \/ pc' = [pc EXCEPT ![p] = "user"]
      \/ pc' = [pc EXCEPT ![p] = "asleep"] /\ r' = w
  BY <1>3, <1>4, Zenon
<1>6. PICK x \in Nat, y \in Nat : /\ n' = [n EXCEPT ![p] = x] /\ target' = [target EXCEPT ![p] = y]
                                 /\ x <= y
  <2>1. g.n \in Nat /\ g.n <= t /\ 0 \in Nat /\ 0 <= 0
    BY <1>1, <1>4
  <2>2. CASE g.done
    BY <1>3, <2>1, <2>2, Zenon
  <2>3. CASE ~g.done
    BY <1>1, <1>3, <2>1, <2>3, Zenon DEF t
  <2> QED BY <2>2, <2>3, Zenon
<1>7. n' \in [Procs -> Nat] /\ target' \in [Procs -> Nat] /\ \A z \in Procs : n'[z] <= target'[z]
  BY <1>1, <1>6, Zenon
<1> QED
  BY <1>3, <1>4, <1>5, <1>7, Zenon DEF ReadTakes

(* The steps of the system, as the proofs of the parts take them. *)
Others ==
  /\ UNCHANGED <<input, eofs>>
  /\ \A p \in Procs : pc'[p] = "asleep" => pc[p] = "asleep"
Steps(q, d) ==
  \/ \E c \in Chars : Key(c)
  \/ Backspace \/ KillLine
  \/ \E p \in Procs, j \in 0..q : ReadTakes(p, q, j)
  \/ Others

(* Every step is one of them. *)
LEMMA NextSteps ==
  ASSUME TypeOK, [Next]_vars, NEW q \in Nat, NEW d \in Nat, Shape(q, d), q <= INPUT_BUF
  PROVE  Steps(q, d)
<1>0. pc \in [Procs -> {"user", "read", "asleep", "gone"}]
  BY Zenon DEF TypeOK
<1>1. CASE ControlC
  <2>1. /\ fgpid \in Procs /\ pc' = [pc EXCEPT ![fgpid] = IF pc[fgpid] = "asleep" THEN "read" ELSE pc[fgpid]]
        /\ UNCHANGED <<input, eofs>>
    BY <1>1, Zenon DEF ControlC
  <2>2. \A p \in Procs : pc'[p] = "asleep" => pc[p] = "asleep"
    BY <1>0, <2>1
  <2> QED BY <2>1, <2>2, Zenon DEF Others, Steps
<1>2. ASSUME NEW p \in Procs, NEW s \in Sizes, Read(p, s) PROVE Others
  <2>1. pc' = [pc EXCEPT ![p] = "read"] /\ UNCHANGED <<input, eofs>>
    BY <1>2, Zenon DEF Read
  <2> QED BY <1>0, <2>1 DEF Others
<1>3. ASSUME NEW p \in Procs, FgProc(p) \/ SigRet(p) \/ (\E x \in {"ignore", "handler"} : Signal(p, x))
      PROVE  Others
  BY <1>3, Zenon DEF FgProc, SigRet, Signal, procs, Others
<1>4. ASSUME NEW p \in Procs, NEW call \in BOOLEAN, CheckSignals(p, call) PROVE Others
  <2>1. UNCHANGED <<input, eofs>> /\ (pc' = pc \/ pc' = [pc EXCEPT ![p] = "gone"])
    BY <1>4, Zenon DEF CheckSignals, procs
  <2> QED BY <1>0, <2>1 DEF Others
<1>5. CASE UNCHANGED vars
  BY <1>5, Zenon DEF vars, procs, Others, Steps
<1>6. ASSUME NEW p \in Procs, ReadStep(p) PROVE \E j \in 0..q : ReadTakes(p, q, j)
  BY <1>6, ReadEffect, Zenon
<1>7. CASE Next
  BY <1>1, <1>2, <1>3, <1>4, <1>6, <1>7, Zenon DEF Next, Steps
<1> QED
  BY <1>5, <1>7, Zenon
------------------------------------------------------------------------------
(* The indices stay in their order, and the line being edited short and       *)
(* without an end: Key() gives it up before it fills the buffer.              *)
LEMMA RingStep ==
  ASSUME IInv, NEW q \in Nat, NEW d \in Nat, Shape(q, d), q + d <= INPUT_BUF, Steps(q, d)
  PROVE  RingOK' /\ LineInv'
<1> USE DEF RingOK, LineInv
<1>1. /\ Wrap \in Nat /\ INPUT_BUF \in Nat /\ INPUT_BUF < Wrap /\ INPUT_BUF > 0
  BY ConsoleAssumption
<1>2. /\ buf \in Buffers /\ r \in Index /\ w \in Index /\ e \in Index
      /\ Dist(r, w) = q /\ Dist(w, e) = d /\ Dist(r, e) = q + d
      /\ \A k \in Nat : Place(w, k) = Place(r, q + k)
      /\ TypeOK /\ d < INPUT_BUF /\ \A k \in 1..d : buf[Place(w, k)] \notin {NL, EOF}
  BY Zenon DEF Shape, IInv
<1>3. ASSUME NEW c \in Chars, Key(c) PROVE RingOK' /\ LineInv'
  <2>1. /\ q + d + 1 <= INPUT_BUF /\ buf' \in Buffers /\ r' = r /\ e' \in Index
        /\ Dist(r, e') = q + d + 1 /\ Dist(w, e') = d + 1
        /\ \A k \in 1 .. q + d : buf'[Place(r, k)] = buf[Place(r, k)]
        /\ buf'[Place(r, q + d + 1)] = c
        /\ \/ c \in {NL, EOF} \/ q + d + 1 = INPUT_BUF
           \/ c \notin {NL, EOF} /\ q + d + 1 < INPUT_BUF
        /\ c \in {NL, EOF} \/ q + d + 1 = INPUT_BUF => w' = e'
        /\ c \notin {NL, EOF} /\ q + d + 1 < INPUT_BUF => w' = w
    BY <1>2, <1>3, KeyEffect
  <2>2. CASE c \in {NL, EOF} \/ q + d + 1 = INPUT_BUF
    <3>1. w' = e' /\ w' \in Index /\ Dist(w', e') = 0
      BY <2>1, <2>2, DistIs
    <3>2. Dist(r', w') + Dist(w', e') <= INPUT_BUF
      <4>1. Dist(r', w') = q + d + 1
        BY <2>1, <3>1, Zenon
      <4> QED BY <1>1, <2>1, <3>1, <4>1
    <3>3. Dist(w', e') < INPUT_BUF
      BY <1>1, <3>1
    <3>4. \A k \in 1 .. Dist(w', e') : buf'[Place(w', k)] \notin {NL, EOF}
      <4>1. 1..0 = {}
        OBVIOUS
      <4> QED BY <3>1, <4>1, Zenon
    <3> QED BY <1>2, <2>1, <3>1, <3>2, <3>3, <3>4, Zenon DEF Place
  <2>3. CASE c \notin {NL, EOF} /\ q + d + 1 < INPUT_BUF
    <3>1. w' = w /\ Dist(w', e') = d + 1 /\ Dist(r', w') = q
      BY <1>2, <2>1, <2>3, Zenon
    <3>2. q + (d + 1) <= INPUT_BUF /\ d + 1 < INPUT_BUF
      BY <1>1, <2>1, <2>3
    <3>3. /\ 1 .. d + 1 = (1..d) \cup {d + 1} /\ d + 1 \in Nat /\ q + (d + 1) = q + d + 1
          /\ \A k \in 1..d : k \in Nat /\ q + k \in 1 .. q + d
      OBVIOUS
    <3>4. \A k \in 1..d : buf'[Place(w, k)] \notin {NL, EOF}
      BY <1>2, <2>1, <3>3
    <3>5. buf'[Place(w, d + 1)] \notin {NL, EOF}
      BY <1>2, <2>1, <2>3, <3>3, Zenon
    <3>6. \A k \in 1 .. Dist(w', e') : buf'[Place(w', k)] \notin {NL, EOF}
      BY <3>1, <3>3, <3>4, <3>5, Zenon
    <3> QED BY <1>2, <2>1, <3>1, <3>2, <3>6, Zenon DEF Place
  <2> QED BY <2>1, <2>2, <2>3, Zenon
<1>4. CASE Backspace \/ KillLine
  <2>1. buf' = buf /\ r' = r /\ w' = w /\ e' \in Index
    BY <1>2, <1>4, EraseEffect, Zenon
  <2>2. PICK j \in 0 .. d - 1 : Dist(w, e') = j
    BY <1>2, <1>4, EraseEffect, ZenonT(60)
  <2>3. q + j <= INPUT_BUF /\ j < INPUT_BUF /\ \A k \in 1..j : k \in 1..d
    BY <1>1, <1>2
  <2> QED BY <1>2, <2>1, <2>2, <2>3, Zenon DEF Place
<1>5. ASSUME NEW p \in Procs, NEW j \in 0..q, ReadTakes(p, q, j) PROVE RingOK' /\ LineInv'
  <2>1. r' = Ahead(r, j) /\ buf' = buf /\ w' = w /\ e' = e
    BY <1>5, Zenon DEF ReadTakes
  <2>2. Ahead(r, j) \in Index /\ Dist(Ahead(r, j), w) = q - j
    BY <1>2, DistAhead
  <2>3. (q - j) + d <= INPUT_BUF
    BY <1>1
  <2> QED BY <1>2, <2>1, <2>2, <2>3, Zenon DEF Place
<1>6. CASE Others
  <2>1. buf' = buf /\ r' = r /\ w' = w /\ e' = e
    BY <1>6, Zenon DEF Others, input
  <2> QED BY <1>2, <2>1, Zenon DEF Place
<1> QED
  BY <1>3, <1>4, <1>5, <1>6, Zenon DEF Steps

(* The type of what processes do in the kernel, and of signals. *)
LEMMA CallStep ==
  ASSUME IInv, [Next]_vars, NEW q \in Nat, NEW d \in Nat, Shape(q, d), q <= INPUT_BUF
  PROVE  CallOK' /\ SignalOK'
<1>0. /\ pc \in [Procs -> {"user", "read", "asleep", "gone"}]
      /\ n \in [Procs -> Nat] /\ target \in [Procs -> Nat] /\ \A p \in Procs : n[p] <= target[p]
      /\ TypeOK
  BY Zenon DEF IInv, TypeOK
<1>1. SignalOK
  BY Zenon DEF IInv, TypeOK, SignalOK
<1>2. CASE UNCHANGED vars
  BY <1>0, <1>1, <1>2, Zenon DEF vars, procs, signals, CallOK, SignalOK
<1>3. ASSUME NEW c \in Chars, Key(c) PROVE CallOK' /\ SignalOK'
  <2>1. (pc' = pc \/ pc' = Woken) /\ n' = n /\ target' = target /\ UNCHANGED <<fgpid, signals>>
    BY <1>3, Zenon DEF Key, Wakeup
  <2>2. Woken \in [Procs -> {"user", "read", "asleep", "gone"}]
    BY <1>0 DEF Woken
  <2> QED BY <1>0, <1>1, <2>1, <2>2, Zenon DEF signals, CallOK, SignalOK
<1>4. CASE Backspace \/ KillLine
  BY <1>0, <1>1, <1>4, Zenon DEF Backspace, KillLine, procs, signals, CallOK, SignalOK
<1>5. CASE ControlC
  <2>1. /\ fgpid \in Procs /\ pc' = [pc EXCEPT ![fgpid] = IF pc[fgpid] = "asleep" THEN "read" ELSE pc[fgpid]]
        /\ pending' = [pending EXCEPT ![fgpid] = TRUE]
        /\ UNCHANGED <<n, target, fgpid, disp, tf, backup, under, fresh>>
    BY <1>5, Zenon DEF ControlC
  <2>2. pc' \in [Procs -> {"user", "read", "asleep", "gone"}]
    BY <1>0, <2>1
  <2>3. pending' \in [Procs -> BOOLEAN]
    BY <1>1, <2>1, Zenon DEF SignalOK
  <2> QED BY <1>0, <1>1, <2>1, <2>2, <2>3, Zenon DEF CallOK, SignalOK
<1>6. ASSUME NEW p \in Procs, NEW s \in Sizes, Read(p, s) PROVE CallOK' /\ SignalOK'
  <2>1. /\ pc' = [pc EXCEPT ![p] = "read"] /\ n' = [n EXCEPT ![p] = s]
        /\ target' = [target EXCEPT ![p] = s] /\ UNCHANGED <<fgpid, signals>>
    BY <1>6, Zenon DEF Read
  <2>2. s \in Nat /\ s <= s
    BY ConsoleAssumption
  <2>3. pc' \in [Procs -> {"user", "read", "asleep", "gone"}]
    BY <1>0, <2>1
  <2>4. n' \in [Procs -> Nat] /\ target' \in [Procs -> Nat] /\ \A x \in Procs : n'[x] <= target'[x]
    BY <1>0, <2>1, <2>2, Zenon
  <2> QED BY <1>1, <2>1, <2>3, <2>4, Zenon DEF signals, CallOK, SignalOK
<1>7. ASSUME NEW p \in Procs, ReadStep(p) PROVE CallOK' /\ SignalOK'
  <2>1. PICK j \in 0..q : ReadTakes(p, q, j)
    BY <1>0, <1>7, ReadEffect, Zenon
  <2>2. pc' \in [Procs -> {"user", "read", "asleep", "gone"}]
    <3>1. pc' = [pc EXCEPT ![p] = "user"] \/ pc' = [pc EXCEPT ![p] = "asleep"]
      BY <2>1, Zenon DEF ReadTakes
    <3> QED BY <1>0, <3>1
  <2> QED BY <1>1, <2>1, <2>2, Zenon DEF ReadTakes, signals, CallOK, SignalOK
<1>8. ASSUME NEW p \in Procs, FgProc(p) \/ SigRet(p) \/ (\E call \in BOOLEAN : CheckSignals(p, call))
                              \/ (\E x \in {"ignore", "handler"} : Signal(p, x))
      PROVE  SignalOK'
  <2>1. CASE FgProc(p)
    BY <1>1, <2>1, Zenon DEF FgProc, signals, SignalOK
  <2>2. CASE \E x \in {"ignore", "handler"} : Signal(p, x)
    <3>1. PICK x \in {"ignore", "handler"} : Signal(p, x)
      BY <2>2, Zenon
    <3>2. disp' \in [Procs -> {"default", "ignore", "handler"}]
      BY <1>1, <3>1 DEF Signal, SignalOK
    <3> QED BY <1>1, <3>1, <3>2, Zenon DEF Signal, SignalOK
  <2>3. CASE SigRet(p)
    <3>1. SysRet([backup[p] EXCEPT !.rax = "sigret"]) \in Frames
      BY <1>1, FramesOK, Zenon DEF SignalOK
    <3>2. tf' \in [Procs -> Frames] /\ fresh' \in [Procs -> BOOLEAN]
      BY <1>1, <2>3, <3>1, Zenon DEF SigRet, SignalOK
    <3> QED BY <1>1, <2>3, <3>2, Zenon DEF SigRet, SignalOK
  <2>4. CASE \E call \in BOOLEAN : CheckSignals(p, call)
    <3>0. PICK call \in BOOLEAN : CheckSignals(p, call)
      BY <2>4, Zenon
    <3> DEFINE f == Entered(tf[p].rip, call)
               g == [f EXCEPT !.rip = tf[p].rip + 1, !.rcx = "rip"]
    <3>1. pending' \in [Procs -> BOOLEAN] /\ disp' = disp /\ fgpid' = fgpid
      BY <1>1, <3>0, Zenon DEF CheckSignals, SignalOK
    <3>2. CASE UNCHANGED <<tf, backup, under, fresh>>
      BY <1>1, <3>1, <3>2, Zenon DEF SignalOK
    <3>3. CASE /\ backup' = [backup EXCEPT ![p] = Saved(f)] /\ tf' = [tf EXCEPT ![p] = g]
               /\ under' = [under EXCEPT ![p] = f] /\ fresh' = [fresh EXCEPT ![p] = TRUE]
      <4>1. f \in Frames /\ g \in Frames /\ Saved(f) \in Frames
        BY <1>1, FramesOK, Zenon DEF SignalOK
      <4> HIDE DEF f, g
      <4>2. backup' \in [Procs -> Frames] /\ tf' \in [Procs -> Frames] /\ under' \in [Procs -> Frames]
        BY <1>1, <3>3, <4>1, Zenon DEF SignalOK
      <4>3. fresh' \in [Procs -> BOOLEAN]
        BY <1>1, <3>3, Zenon DEF SignalOK
      <4> QED BY <1>1, <3>1, <4>2, <4>3, Zenon DEF SignalOK
    <3> QED BY <3>0, <3>2, <3>3, Zenon DEF CheckSignals
  <2> QED BY <1>8, <2>1, <2>2, <2>3, <2>4, Zenon
<1>9. ASSUME NEW p \in Procs, FgProc(p) \/ SigRet(p) \/ (\E call \in BOOLEAN : CheckSignals(p, call))
                              \/ (\E x \in {"ignore", "handler"} : Signal(p, x))
      PROVE  CallOK'
  <2>1. (pc' = pc \/ pc' = [pc EXCEPT ![p] = "gone"]) /\ n' = n /\ target' = target
    BY <1>9, Zenon DEF FgProc, SigRet, CheckSignals, Signal, procs
  <2>2. pc' \in [Procs -> {"user", "read", "asleep", "gone"}]
    BY <1>0, <2>1
  <2> QED BY <1>0, <2>1, <2>2, Zenon DEF CallOK
<1>10. CASE Next
  BY <1>3, <1>4, <1>5, <1>6, <1>7, <1>8, <1>9, <1>10, Zenon DEF Next
<1> QED
  BY <1>2, <1>10, Zenon

(* Whoever sleeps is woken before a finished byte waits: the key that         *)
(* finishes a line wakes every sleeper, and a pass of consoleread() by        *)
(* another process takes nothing while nothing is finished.                   *)
LEMMA SleepStep ==
  ASSUME IInv, NEW q \in Nat, NEW d \in Nat, Shape(q, d), q <= INPUT_BUF, Steps(q, d)
  PROVE  SleepInv'
<1> SUFFICES ASSUME NEW x \in Procs, pc'[x] = "asleep" PROVE r' = w'
  BY Zenon DEF SleepInv
<1>1. /\ r \in Index /\ w \in Index /\ Dist(r, w) = q /\ TypeOK
      /\ pc \in [Procs -> {"user", "read", "asleep", "gone"}]
      /\ \A y \in Procs : pc[y] = "asleep" => r = w
  BY Zenon DEF Shape, IInv, TypeOK, SleepInv
<1>2. ASSUME NEW c \in Chars, Key(c) PROVE r' = w'
  <2>1. r' = r /\ (pc' = Woken \/ (pc' = pc /\ w' = w))
    BY <1>2, Zenon DEF Key, Wakeup
  <2>2. Woken[x] # "asleep"
    BY <1>1 DEF Woken
  <2> QED BY <1>1, <2>1, <2>2, Zenon
<1>3. CASE Backspace \/ KillLine
  BY <1>1, <1>3, Zenon DEF Backspace, KillLine, procs
<1>4. ASSUME NEW p \in Procs, NEW j \in 0..q, ReadTakes(p, q, j) PROVE r' = w'
  <2>1. /\ r' = Ahead(r, j) /\ w' = w
        /\ \/ pc' = [pc EXCEPT ![p] = "user"]
           \/ pc' = [pc EXCEPT ![p] = "asleep"] /\ r' = w
    BY <1>4, Zenon DEF ReadTakes
  <2>2. CASE pc[x] = "asleep"
    <3>1. q = 0
      BY <1>1, <2>2, DistIs, Zenon
    <3>2. j = 0
      BY <3>1
    <3> QED BY <1>1, <2>1, <2>2, <3>2, AheadZero, Zenon
  <2>3. CASE pc[x] # "asleep"
    <3>1. pc' = [pc EXCEPT ![p] = "user"] => pc'[x] # "asleep"
      BY <1>1, <2>3
    <3> QED BY <2>1, <3>1, Zenon
  <2> QED BY <2>2, <2>3, Zenon
<1>5. CASE Others
  BY <1>1, <1>5, Zenon DEF Others, input
<1> QED
  BY <1>2, <1>3, <1>4, <1>5, Zenon DEF Steps

(* Each end-of-file is counted until a read returns 0 for it: one that is not *)
(* first is put back, and ^H and ^U do not reach it.                          *)
LEMMA EofStep ==
  ASSUME IInv, NEW q \in Nat, NEW d \in Nat, Shape(q, d), q + d <= INPUT_BUF, Steps(q, d)
  PROVE  EofOnce'
<1> DEFINE m == q + d
<1>1. /\ Wrap \in Nat /\ INPUT_BUF \in Nat /\ INPUT_BUF < Wrap
      /\ m \in Nat /\ m \in 0..Wrap
  BY ConsoleAssumption
<1>2. /\ buf \in Buffers /\ r \in Index /\ w \in Index /\ e \in Index
      /\ Dist(r, w) = q /\ Dist(w, e) = d /\ Dist(r, e) = m
      /\ \A k \in Nat : Place(w, k) = Place(r, q + k)
      /\ e = Ahead(r, m) /\ TypeOK
      /\ \A k \in 1..d : buf[Place(w, k)] \notin {NL, EOF}
  BY Zenon DEF Shape, IInv, LineInv
<1>3. eofs = Cardinality(Eofs(buf, r, m)) /\ Cardinality(Eofs(buf, r, m)) \in Nat
      /\ IsFiniteSet(Eofs(buf, r, m))
  BY <1>1, <1>2, EofOnceIs, EofsFinite, Zenon DEF IInv
<1> SUFFICES eofs' = Cardinality(Eofs(buf', r', Dist(r', e')))
  BY EofOnceIs, Zenon
<1>4. ASSUME NEW c \in Chars, Key(c) PROVE eofs' = Cardinality(Eofs(buf', r', Dist(r', e')))
  <2>1. /\ r' = r /\ Dist(r, e') = m + 1
        /\ \A k \in 1..m : buf'[Place(r, k)] = buf[Place(r, k)]
        /\ buf'[Place(r, m + 1)] = c
    BY <1>2, <1>4, KeyEffect
  <2>2. eofs' = IF c = EOF THEN eofs + 1 ELSE eofs
    BY <1>4, Zenon DEF Key
  <2> HIDE DEF m
  <2>3. Cardinality(Eofs(buf', r, m + 1)) = Cardinality(Eofs(buf, r, m)) + IF c = EOF THEN 1 ELSE 0
    BY <1>1, <2>1, EofsAppend
  <2>4. PICK x \in Nat : x = Cardinality(Eofs(buf, r, m))
    BY <1>3, Zenon
  <2>5. x + 0 = x
    OBVIOUS
  <2> QED BY <1>3, <2>1, <2>2, <2>3, <2>4, <2>5, Zenon
<1>5. CASE Backspace \/ KillLine
  <2>1. buf' = buf /\ r' = r /\ eofs' = eofs
    BY <1>5, Zenon DEF Backspace, KillLine
  <2>2. PICK j \in 0 .. d - 1 : Dist(r, e') = q + j
    BY <1>2, <1>5, EraseEffect, Zenon
  <2>3. /\ q + j \in 0..m
        /\ \A k \in 1..m : k > q + j => k - q \in 1..d /\ k - q \in Nat /\ q + (k - q) = k
    OBVIOUS
  <2> HIDE DEF m
  <2>4. \A k \in 1..m : k > q + j => buf[Place(r, k)] # EOF
    BY <1>2, <2>3
  <2>5. Eofs(buf, r, q + j) = Eofs(buf, r, m)
    BY <1>1, <2>3, <2>4, EofsPrefix, Zenon
  <2> QED BY <1>3, <2>1, <2>2, <2>5, Zenon
<1>6. ASSUME NEW p \in Procs, NEW j \in 0..q, ReadTakes(p, q, j)
      PROVE  eofs' = Cardinality(Eofs(buf', r', Dist(r', e')))
  <2>1. /\ r' = Ahead(r, j) /\ buf' = buf /\ e' = e
        /\ \/ (\A i \in 1..j : buf[Place(r, i)] # EOF) /\ eofs' = eofs
           \/ j = 1 /\ buf[Place(r, 1)] = EOF /\ eofs' = eofs - 1
    BY <1>6, Zenon DEF ReadTakes
  <2>2. j \in 0..m /\ \A k \in 1..m : ~(k > j) => k \in 1..j
    OBVIOUS
  <2> HIDE DEF m
  <2>3. Dist(Ahead(r, j), e) = m - j
    BY <1>2, <2>2, DistAhead
  <2>4. Cardinality(Eofs(buf, Ahead(r, j), m - j)) = Cardinality({k \in Eofs(buf, r, m) : k > j})
    BY <1>1, <1>2, <2>2, EofsSuffix
  <2>5. CASE (\A i \in 1..j : buf[Place(r, i)] # EOF) /\ eofs' = eofs
    <3>1. {k \in Eofs(buf, r, m) : k > j} = Eofs(buf, r, m)
      BY <2>2, <2>5, Zenon DEF Eofs
    <3> QED BY <1>3, <2>1, <2>3, <2>4, <2>5, <3>1, Zenon
  <2>6. CASE j = 1 /\ buf[Place(r, 1)] = EOF /\ eofs' = eofs - 1
    <3>1. 1 \in 1..m /\ \A k \in 1..m : k > 1 <=> k # 1
      BY <1>1, <2>2, <2>6
    <3>2. 1 \in Eofs(buf, r, m) /\ {k \in Eofs(buf, r, m) : k > 1} = Eofs(buf, r, m) \ {1}
      BY <2>6, <3>1, Zenon DEF Eofs
    <3>3. Cardinality(Eofs(buf, r, m) \ {1}) = Cardinality(Eofs(buf, r, m)) - 1
      BY <1>3, <3>2, FS_RemoveElement, Zenon
    <3> QED BY <1>3, <2>1, <2>3, <2>4, <2>6, <3>2, <3>3, Zenon
  <2> QED BY <2>1, <2>5, <2>6, Zenon
<1>7. CASE Others
  <2>1. buf' = buf /\ r' = r /\ e' = e /\ eofs' = eofs
    BY <1>7, Zenon DEF Others, input
  <2> QED BY <1>2, <1>3, <2>1, Zenon
<1> QED
  BY <1>4, <1>5, <1>6, <1>7, Zenon DEF Steps

(* tf_backup holds what the latest handler interrupted. *)
LEMMA SignalStep ==
  ASSUME IInv, [Next]_vars
  PROVE  SignalInv'
<1> DEFINE Good(x) == /\ fresh[x] => backup[x] = Saved(under[x])
                      /\ ~fresh[x] /\ tf[x].rip > 0 =>
                           backup[x].rip = tf[x].rip /\ backup[x].rcx = "rip"
                      /\ fresh[x] /\ under[x].rcx = "rip" => under[x].r11 = "rflags"
<1> SUFFICES ASSUME NEW x \in Procs PROVE Good(x)'
  BY Zenon DEF SignalInv
<1>1. /\ fresh \in [Procs -> BOOLEAN] /\ tf \in [Procs -> Frames] /\ backup \in [Procs -> Frames]
      /\ under \in [Procs -> Frames] /\ Good(x)
  BY Zenon DEF IInv, TypeOK, SignalInv
<1>2. CASE UNCHANGED <<tf, backup, under, fresh>>
  BY <1>1, <1>2, Zenon
<1>3. ASSUME NEW p \in Procs, SigRet(p) PROVE Good(x)'
  <2>1. /\ tf' = [tf EXCEPT ![p] = SysRet([backup[p] EXCEPT !.rax = "sigret"])]
        /\ fresh' = [fresh EXCEPT ![p] = FALSE] /\ backup' = backup /\ under' = under /\ tf[p].rip > 0
    BY <1>3, Zenon DEF SigRet
  <2>2. CASE x = p
    <3>0. under[x] \in Frames /\ Saved(under[x]).rcx = "rip"
      BY <1>1, FrameBack, Zenon
    <3>1. backup[x].rcx = "rip"
      BY <1>1, <2>1, <2>2, <3>0, Zenon
    <3>2. ~fresh'[x] /\ tf'[x].rip = backup[x].rip
      BY <1>1, <2>1, <2>2, <3>1, FrameBack, Zenon
    <3> QED BY <2>1, <3>1, <3>2, Zenon
  <2>3. CASE x # p
    BY <1>1, <2>1, <2>3, Zenon
  <2> QED BY <2>2, <2>3, Zenon
<1>4. ASSUME NEW p \in Procs, NEW call \in BOOLEAN, CheckSignals(p, call) PROVE Good(x)'
  <2> DEFINE f == Entered(tf[p].rip, call)
  <2>1. CASE UNCHANGED <<tf, backup, under, fresh>>
    BY <1>2, <2>1, Zenon
  <2>2. CASE /\ backup' = [backup EXCEPT ![p] = Saved(f)] /\ under' = [under EXCEPT ![p] = f]
             /\ fresh' = [fresh EXCEPT ![p] = TRUE]
             /\ \E g : tf' = [tf EXCEPT ![p] = g]
    <3>1. f.rcx = "rip" => f.r11 = "rflags"
      BY DEF Entered
    <3> HIDE DEF f
    <3>2. CASE x = p
      BY <1>1, <2>2, <3>1, <3>2, Zenon
    <3>3. CASE x # p
      BY <1>1, <2>2, <3>3, Zenon
    <3> QED BY <3>2, <3>3, Zenon
  <2> QED BY <1>4, <2>1, <2>2, Zenon DEF CheckSignals
<1>5. CASE Next
  <2>1. ASSUME NEW p \in Procs, ReadStep(p) \/ FgProc(p) \/ (\E s \in Sizes : Read(p, s))
                                \/ (\E y \in {"ignore", "handler"} : Signal(p, y))
        PROVE  UNCHANGED <<tf, backup, under, fresh>>
    BY <2>1, Zenon DEF ReadStep, FgProc, Read, Signal, signals
  <2>2. ASSUME (\E c \in Chars : Key(c)) \/ Backspace \/ KillLine \/ ControlC
        PROVE  UNCHANGED <<tf, backup, under, fresh>>
    BY <2>2, Zenon DEF Key, Backspace, KillLine, ControlC, signals
  <2> QED BY <1>2, <1>3, <1>4, <1>5, <2>1, <2>2, Zenon DEF Next
<1>6. CASE UNCHANGED vars
  BY <1>2, <1>6, Zenon DEF vars, signals
<1> QED
  BY <1>5, <1>6, Zenon
------------------------------------------------------------------------------
(* The invariant holds initially, ... *)
LEMMA ConsoleInit == Init => IInv
<1> SUFFICES ASSUME Init PROVE IInv
  OBVIOUS
<1>1. Wrap \in Nat /\ INPUT_BUF \in Nat /\ INPUT_BUF > 0 /\ Wrap > 0 /\ 0 \in Index
  BY ConsoleAssumption DEF Index
<1>2. Dist(0, 0) = 0
  BY <1>1, DistIs, Zenon
<1>3. /\ r = 0 /\ w = 0 /\ e = 0 /\ eofs = 0 /\ buf = [k \in 0 .. INPUT_BUF - 1 |-> NL]
  BY Zenon DEF Init
<1>4. RingOK
  <2>1. buf \in Buffers
    BY <1>3 DEF Buffers, Chars
  <2>2. 0 + 0 <= INPUT_BUF
    BY <1>1
  <2> QED BY <1>1, <1>2, <1>3, <2>1, <2>2, Zenon DEF RingOK
<1>5. CallOK
  BY DEF Init, CallOK
<1>6. SignalOK
  <2>1. Entered(0, FALSE) \in Frames
    BY DEF Entered, Frames
  <2>2. under \in [Procs -> Frames] /\ tf \in [Procs -> Frames] /\ backup \in [Procs -> Frames]
    BY <2>1, Zenon DEF Init
  <2>3. pending \in [Procs -> BOOLEAN] /\ fresh \in [Procs -> BOOLEAN]
    BY Zenon DEF Init
  <2>4. disp \in [Procs -> {"default", "ignore", "handler"}] /\ fgpid \in Procs \cup {0}
    BY DEF Init
  <2> QED BY <2>2, <2>3, <2>4, Zenon DEF SignalOK
<1>7. 1..0 = {} /\ 0 < INPUT_BUF
  BY <1>1
<1>8. LineInv
  BY <1>2, <1>3, <1>7, Zenon DEF LineInv
<1>9. SleepInv
  BY <1>3, Zenon DEF SleepInv
<1>10. EofOnce
  <2>1. Eofs(buf, 0, 0) = {}
    BY <1>7, Zenon DEF Eofs
  <2> QED BY <1>2, <1>3, <2>1, EofOnceIs, FS_EmptySet, Zenon
<1>11. SignalInv
  <2>1. Entered(0, FALSE).rip = 0 /\ ~(0 > 0)
    BY DEF Entered
  <2> QED BY <2>1, Zenon DEF Init, SignalInv
<1> QED
  BY <1>4, <1>5, <1>6, <1>8, <1>9, <1>10, <1>11, TypeParts, Zenon DEF IInv

(* ... every step keeps it, ... *)
LEMMA ConsoleNext == IInv /\ [Next]_vars => IInv'
<1> SUFFICES ASSUME IInv, [Next]_vars PROVE IInv'
  BY Zenon
<1>1. TypeOK
  BY Zenon DEF IInv
<1>2. PICK q \in Nat, d \in Nat : q + d <= INPUT_BUF /\ Shape(q, d)
  BY <1>1, ShapeIs, Zenon
<1>3. q <= INPUT_BUF
  BY <1>2, ConsoleAssumption
<1>4. Steps(q, d)
  BY <1>1, <1>2, <1>3, NextSteps, Zenon
<1> QED
  BY <1>2, <1>3, <1>4, RingStep, CallStep, SleepStep, EofStep, SignalStep, TypeParts, Zenon DEF IInv

(* ... and so it holds for ever. *)
LEMMA Inductive == Spec => []IInv
BY ConsoleInit, ConsoleNext, PTL DEF Spec

(* consoleread() sleeps only while no finished byte waits and a key can be    *)
(* typed that finishes one, however many processes read.                      *)
THEOREM ReadersSleepForInput == Spec => []SleepersWait
<1>1. IInv => SleepersWait
  <2> SUFFICES ASSUME IInv, NEW p \in Procs, pc[p] = "asleep"
               PROVE  r = w /\ Dist(r, e) < INPUT_BUF
    BY Zenon DEF SleepersWait, IInv
  <2>1. r = w
    BY Zenon DEF IInv, SleepInv
  <2> QED BY <2>1, Zenon DEF IInv, LineInv
<1> QED
  BY <1>1, Inductive, PTL

(* A ^D typed is in the buffer until the one read that returns 0 for it, also *)
(* when consoleread() met it behind other bytes and put it back.              *)
THEOREM EndOfFileOnce == Spec => []EofOnce
<1>1. IInv => EofOnce
  BY Zenon DEF IInv
<1> QED
  BY <1>1, Inductive, PTL

(* sigret() goes back to the instruction its handler interrupted and leaves a *)
(* system call nothing but its result changed, however deep handlers nest; a  *)
(* handler that was itself interrupted goes back to its own middle.           *)
THEOREM HandlersReturn == Spec => HandlerReturns
<1> DEFINE Back(p) == IF fresh[p]
                      THEN /\ tf'[p].rip = under[p].rip
                           /\ under[p].rcx = "rip" => tf'[p] = [under[p] EXCEPT !.rax = "sigret"]
                      ELSE tf'[p].rip = tf[p].rip
<1>1. IInv /\ [Next]_vars => [\A p \in Procs : SigRet(p) => Back(p)]_vars
  <2> SUFFICES ASSUME IInv, NEW p \in Procs, SigRet(p)
               PROVE  Back(p)
    BY Zenon
  <2>1. /\ tf[p] \in Frames /\ backup[p] \in Frames /\ under[p] \in Frames /\ fresh[p] \in BOOLEAN
        /\ tf'[p] = SysRet([backup[p] EXCEPT !.rax = "sigret"]) /\ tf[p].rip > 0
        /\ fresh[p] => backup[p] = Saved(under[p])
        /\ fresh[p] /\ under[p].rcx = "rip" => under[p].r11 = "rflags"
        /\ ~fresh[p] => backup[p].rip = tf[p].rip /\ backup[p].rcx = "rip"
    BY Zenon DEF IInv, TypeOK, SignalInv, SigRet
  <2>2. CASE fresh[p]
    <3>1. Saved(under[p]).rip = under[p].rip /\ Saved(under[p]).rcx = "rip"
      BY <2>1, FrameBack, Zenon
    <3>2. tf'[p].rip = under[p].rip
      <4>1. backup[p].rcx = "rip" /\ backup[p].rip = under[p].rip
        BY <2>1, <2>2, <3>1, Zenon
      <4>2. SysRet([backup[p] EXCEPT !.rax = "sigret"]).rip = backup[p].rip
        BY <2>1, <4>1, FrameBack, Zenon
      <4> QED BY <2>1, <4>1, <4>2, Zenon
    <3>3. ASSUME under[p].rcx = "rip" PROVE tf'[p] = [under[p] EXCEPT !.rax = "sigret"]
      <4>1. backup[p] = Saved(under[p]) /\ under[p].r11 = "rflags"
        BY <2>1, <2>2, <3>3, Zenon
      <4>2. SysRet([Saved(under[p]) EXCEPT !.rax = "sigret"]) = [under[p] EXCEPT !.rax = "sigret"]
        BY <2>1, <3>3, <4>1, FrameBack, Zenon
      <4>3. tf'[p] = SysRet([Saved(under[p]) EXCEPT !.rax = "sigret"])
        BY <2>1, <4>1, Zenon
      <4> QED BY <4>2, <4>3, Zenon
    <3> QED BY <2>2, <3>2, <3>3, Zenon
  <2>3. CASE ~fresh[p]
    BY <2>1, <2>3, FrameBack, Zenon
  <2> QED BY <2>2, <2>3, Zenon
<1> QED
  BY <1>1, Inductive, PTL DEF Spec, HandlerReturns
------------------------------------------------------------------------------
(* The refinement: initially nothing is typed, ... *)
LEMMA LineInit == Init => LI!Init
<1> SUFFICES ASSUME Init PROVE LI!Init
  OBVIOUS
<1>1. 0 \in Index
  BY ConsoleAssumption DEF Index
<1>2. r = 0 /\ w = 0 /\ e = 0 /\ Dist(0, 0) = 0
  BY <1>1, DistIs, Zenon DEF Init
<1>3. \A a : Str(buf, a, 0) = <<>>
  BY DEF Str
<1> QED
  BY <1>2, <1>3, BytesAre, Zenon DEF LI!Init

(* ... a key is Type(), ... *)
LEMMA KeyRefines ==
  ASSUME IInv, NEW q \in Nat, NEW d \in Nat, Shape(q, d), q + d <= INPUT_BUF, NEW c \in Chars, Key(c)
  PROVE  LI!Type(c)
<1>1. /\ Wrap \in Nat /\ INPUT_BUF \in Nat /\ INPUT_BUF < Wrap /\ q \in 0..Wrap
      /\ q + d \in Nat /\ q + d + 1 \in Nat /\ q + (d + 1) = q + d + 1 /\ d + 1 \in Nat
      /\ \A k \in 1..q : k \in 1 .. q + d
      /\ \A k \in 1..d : k \in Nat /\ q + k \in 1 .. q + d
  BY ConsoleAssumption
<1>2. /\ buf \in Buffers /\ r \in Index /\ w \in Index /\ e \in Index /\ w = Ahead(r, q)
      /\ Dist(r, w) = q /\ Dist(w, e) = d /\ TypeOK
      /\ \A k \in Nat : Place(w, k) = Place(r, q + k)
  BY Zenon DEF Shape, IInv
<1>3. /\ q + d + 1 <= INPUT_BUF /\ buf' \in Buffers /\ r' = r /\ e' \in Index
      /\ Dist(r, e') = q + d + 1 /\ Dist(w, e') = d + 1
      /\ \A k \in 1 .. q + d : buf'[Place(r, k)] = buf[Place(r, k)]
      /\ buf'[Place(r, q + d + 1)] = c
      /\ \/ c \in {NL, EOF} \/ q + d + 1 = INPUT_BUF
         \/ c \notin {NL, EOF} /\ q + d + 1 < INPUT_BUF
      /\ c \in {NL, EOF} \/ q + d + 1 = INPUT_BUF => w' = e'
      /\ c \notin {NL, EOF} /\ q + d + 1 < INPUT_BUF => w' = w
  BY <1>2, KeyEffect
<1>4. PICK edit \in Seq(Chars) : edit = Bytes(w, e) /\ edit = Str(buf, w, d) /\ Len(edit) = d
  BY <1>2, BytesAre, StrSeq, ZenonT(60)
<1>5. PICK queue \in Seq(Chars) : queue = Bytes(r, w) /\ queue = Str(buf, r, q) /\ Len(queue) = q
  BY <1>2, BytesAre, StrSeq, ZenonT(60)
<1>6. d + q < INPUT_BUF /\ (d + 1 + q = INPUT_BUF <=> q + d + 1 = INPUT_BUF)
  BY <1>1, <1>3
<1>7. LI!Full <=> q + d + 1 = INPUT_BUF
  BY <1>4, <1>5, <1>6, Zenon DEF LI!Full
<1>8. CASE c \in {NL, EOF} \/ q + d + 1 = INPUT_BUF
  <2>1. w' = e' /\ Dist(w', e') = 0 /\ Dist(r', w') = q + d + 1
    BY <1>3, <1>8, DistIs
  <2>2. Bytes(w, e)' = <<>>
    <3>1. Str(buf', w', 0) = <<>>
      BY DEF Str
    <3> QED BY <2>1, <3>1, BytesAre, Zenon
  <2>3. Str(buf', r, q + d + 1) = Append(Str(buf, r, q + d), c)
    <3>1. PICK m \in Nat : m = q + d
      BY <1>1, Zenon
    <3>2. /\ buf \in Buffers /\ buf' \in Buffers /\ r \in Index
          /\ \A k \in 1..m : buf'[Place(r, k)] = buf[Place(r, k)]
          /\ buf'[Place(r, m + 1)] = c
      BY <1>2, <1>3, <3>1, Zenon
    <3>3. Str(buf', r, m + 1) = Append(Str(buf, r, m), c)
      BY <3>2, StrAppend, ZenonT(60)
    <3> QED BY <3>1, <3>3, Zenon
  <2>4. Str(buf, r, q + d) = queue \o edit
    <3>1. Str(buf, r, q + d) = Str(buf, r, q) \o Str(buf, Ahead(r, q), d)
      <4>1. buf \in Buffers /\ r \in Index /\ q \in 0..Wrap /\ d \in Nat
        BY <1>1, <1>2, Zenon
      <4> QED BY ONLY <4>1, StrJoin, Zenon
    <3> QED BY <1>2, <1>4, <1>5, <3>1, Zenon
  <2>5. Append(queue \o edit, c) = queue \o Append(edit, c)
    BY JoinAppend, SMTT(60)
  <2>6. Bytes(r, w)' = queue \o Append(edit, c)
    BY <1>3, <2>1, <2>3, <2>4, <2>5, BytesAre, Zenon
  <2> QED BY <1>4, <1>5, <1>6, <1>7, <1>8, <2>2, <2>6, Zenon DEF LI!Type
<1>9. CASE c \notin {NL, EOF} /\ q + d + 1 < INPUT_BUF
  <2>1. w' = w /\ Dist(w', e') = d + 1 /\ Dist(r', w') = q /\ q + d + 1 # INPUT_BUF
    <3>1. q + d + 1 # INPUT_BUF
      BY <1>1, <1>9
    <3> QED BY <1>2, <1>3, <1>9, <3>1, Zenon
  <2>2. \A k \in 1..d : buf'[Place(w, k)] = buf[Place(w, k)]
    BY <1>1, <1>2, <1>3, ZenonT(60)
  <2>3. buf'[Place(w, d + 1)] = c
    BY <1>1, <1>2, <1>3, Zenon
  <2>4. Str(buf', w, d + 1) = Append(Str(buf, w, d), c)
    BY <1>2, <1>3, <2>2, <2>3, StrAppend, ZenonT(60)
  <2>5. Str(buf', r, q) = Str(buf, r, q)
    BY <1>1, <1>3, StrSame
  <2>6. Bytes(w, e)' = Append(edit, c) /\ Bytes(r, w)' = queue
    BY <1>3, <1>4, <1>5, <2>1, <2>4, <2>5, BytesAre, Zenon
  <2> QED BY <1>4, <1>5, <1>6, <1>7, <1>9, <2>1, <2>6, Zenon DEF LI!Type
<1> QED
  BY <1>3, <1>8, <1>9, Zenon

(* ... ^H and ^U are Erase(), ... *)
LEMMA EraseRefines ==
  ASSUME IInv, NEW q \in Nat, NEW d \in Nat, Shape(q, d), q + d <= INPUT_BUF, Backspace \/ KillLine
  PROVE  \E k \in {0, Len(Bytes(w, e)) - 1} : Bytes(w, e) # <<>> /\ LI!Erase(k)
<1>1. /\ buf \in Buffers /\ r \in Index /\ w \in Index /\ Dist(r, w) = q /\ Dist(w, e) = d /\ TypeOK
  BY Zenon DEF Shape, IInv
<1>2. buf' = buf /\ r' = r /\ w' = w /\ d > 0
  BY <1>1, EraseEffect, Zenon
<1>3. PICK j \in 0 .. d - 1 : (j = 0 \/ j = d - 1) /\ Dist(w, e') = j
  BY <1>1, EraseEffect, Zenon
<1>4. j \in 0..d
  OBVIOUS
<1>5. PICK edit \in Seq(Chars) : edit = Bytes(w, e) /\ edit = Str(buf, w, d) /\ Len(edit) = d
  BY <1>1, BytesAre, StrSeq, Zenon
<1>6. Str(buf, w, j) = SubSeq(edit, 1, j)
  BY <1>1, <1>4, <1>5, StrPrefix
<1>7. Bytes(w, e)' = SubSeq(edit, 1, j) /\ Bytes(r, w)' = Bytes(r, w)
  BY <1>1, <1>2, <1>3, <1>6, BytesAre, Zenon
<1>8. edit # <<>>
  BY <1>2, <1>5
<1> QED
  BY <1>3, <1>5, <1>7, <1>8, Zenon DEF LI!Erase

(* ... and a pass of consoleread() is Take(), or takes nothing. *)
LEMMA ReadRefines ==
  ASSUME IInv, NEW q \in Nat, NEW d \in Nat, Shape(q, d), q + d <= INPUT_BUF,
         NEW p \in Procs, NEW j \in 0..q, ReadTakes(p, q, j)
  PROVE  \/ \E k \in 1 .. Len(Bytes(r, w)) : LI!Take(k)
         \/ UNCHANGED <<Bytes(w, e), Bytes(r, w)>>
<1>1. /\ buf \in Buffers /\ r \in Index /\ w \in Index /\ Dist(r, w) = q /\ Dist(w, e) = d
  BY Zenon DEF Shape
<1>2. r' = Ahead(r, j) /\ buf' = buf /\ w' = w /\ e' = e
  BY Zenon DEF ReadTakes
<1>3. Dist(Ahead(r, j), w) = q - j
  BY <1>1, DistAhead
<1>4. Bytes(w, e)' = Bytes(w, e) /\ Bytes(r, w)' = Str(buf, Ahead(r, j), q - j)
  BY <1>1, <1>2, <1>3, BytesAre, Zenon
<1>5. Bytes(r, w) = Str(buf, r, q) /\ Len(Str(buf, r, q)) = q
  BY <1>1, BytesAre, StrSeq, Zenon
<1>6. q \in 0..Wrap
  BY ConsoleAssumption
<1>7. Str(buf, Ahead(r, j), q - j) = SubSeq(Str(buf, r, q), j + 1, Len(Str(buf, r, q)))
  BY <1>1, <1>6, StrSuffix, Zenon
<1>8. CASE j = 0
  <2>1. Ahead(r, j) = r /\ q - j = q
    BY <1>1, <1>8, AheadZero
  <2> QED BY <1>4, <1>5, <2>1, Zenon
<1>9. CASE j # 0
  <2>1. j \in 1..q
    BY <1>9
  <2> QED BY <1>4, <1>5, <1>7, <2>1, Zenon DEF LI!Take
<1> QED
  BY <1>8, <1>9, Zenon

(* console.c's ring buffer of wrapping indices is a line editor in front of a *)
(* queue: readers get every byte of a finished line, once, in order and as    *)
(* typed, and ^H and ^U change only the line being edited.                    *)
THEOREM ConsoleIsLineEditor == Spec => LineEditor
<1>1. IInv /\ [Next]_vars => [LI!Next]_<<Bytes(w, e), Bytes(r, w)>>
  <2> SUFFICES ASSUME IInv, [Next]_vars PROVE LI!Next \/ UNCHANGED <<Bytes(w, e), Bytes(r, w)>>
    BY Zenon
  <2>1. PICK q \in Nat, d \in Nat : q + d <= INPUT_BUF /\ Shape(q, d)
    BY ShapeIs, Zenon DEF IInv
  <2>2. q <= INPUT_BUF
    BY <2>1, ConsoleAssumption
  <2>3. Steps(q, d)
    BY <2>1, <2>2, NextSteps, Zenon DEF IInv
  <2>4. ASSUME NEW c \in Chars, Key(c) PROVE LI!Next
    BY <2>1, <2>4, KeyRefines, Zenon DEF LI!Next
  <2>5. ASSUME Backspace \/ KillLine PROVE LI!Next
    BY <2>1, <2>5, EraseRefines, Zenon DEF LI!Next
  <2>6. ASSUME NEW p \in Procs, NEW j \in 0..q, ReadTakes(p, q, j)
        PROVE  LI!Next \/ UNCHANGED <<Bytes(w, e), Bytes(r, w)>>
    BY <2>1, <2>6, ReadRefines, Zenon DEF LI!Next
  <2>7. ASSUME Others PROVE UNCHANGED <<Bytes(w, e), Bytes(r, w)>>
    BY <2>7, Zenon DEF Others, input, Bytes, Dist
  <2> QED BY <2>3, <2>4, <2>5, <2>6, <2>7, Zenon DEF Steps
<1> QED
  BY <1>1, LineInit, Inductive, PTL DEF Spec, LineEditor, LI!Spec
=============================================================================
