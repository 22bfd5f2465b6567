---------------------------- MODULE TypeUse_proofs ----------------------------
(***************************************************************************)
(* What TypeUse promises, for any types, any library and any values.       *)
(***************************************************************************)
EXTENDS TypeUse, SelectionTheorems, SequenceTheorems

-----------------------------------------------------------------------------
(* The bytes of numbers and texts.                                         *)

Widths == {1, 2, 4, 8}

\* A remainder.
LEMMA Remainder ==
    ASSUME NEW a \in Int, NEW w \in Widths
    PROVE  a % w \in 0..(w - 1)
<1>1. CASE w = 1
  BY <1>1
<1>2. CASE w = 2
  BY <1>2
<1>3. CASE w = 4
  BY <1>3
<1>4. CASE w = 8
  BY <1>4
<1> QED BY <1>1, <1>2, <1>3, <1>4 DEF Widths

LEMMA AlignedFacts ==
    ASSUME NEW at \in Nat, NEW w \in Widths
    PROVE  Aligned(at, w) \in Nat /\ Aligned(at, w) >= at
<1> DEFINE r == at % w
           pad == (w - r) % w
<1>1. r \in Int
  <2>1. at \in Int /\ r \in 0..(w - 1)
    BY Remainder
  <2> QED BY <2>1
<1>2. w - r \in Int /\ w \in Int
  BY <1>1 DEF Widths
<1> HIDE DEF r
<1>3. pad \in Nat
  <2>1. pad \in 0..(w - 1)
    BY <1>2, Remainder
  <2> QED BY <2>1
<1>4. Aligned(at, w) = at + pad
  BY DEF Aligned, r
<1> QED BY <1>3, <1>4

LEMMA Division ==
    ASSUME NEW n \in Nat
    PROVE  /\ n % 256 \in Byte /\ n \div 256 \in Nat
           /\ \A k \in Nat : n < 256 * k => n \div 256 < k
           /\ n = 256 * (n \div 256) + (n % 256)
<1>1. n % 256 \in 0..255 /\ n = 256 * (n \div 256) + (n % 256) /\ n \div 256 \in Int
  OBVIOUS
<1> DEFINE q == n \div 256
           m == n % 256
<1>2. n = 256 * q + m /\ m \in 0..255 /\ q \in Int
  BY <1>1
<1> HIDE DEF q, m
<1>3. q \in Nat /\ \A k \in Nat : n < 256 * k => q < k
  BY <1>2
<1> QED BY <1>1, <1>3 DEF q, Byte

\* A number is what its bytes say.
LEMMA NumberOfBytes ==
    ASSUME NEW n \in Int32, NEW w \in Widths
    PROVE  /\ LittleEndian(w, n) \in Bytes
           /\ Len(LittleEndian(w, n)) = w
           /\ w >= 4 => Number(LittleEndian(w, n)) = n
<1> DEFINE q == n \div 256
           r == q \div 256
           s == r \div 256
           b(i) == CASE i = 1 -> n % 256
                     [] i = 2 -> q % 256
                     [] i = 3 -> r % 256
                     [] i = 4 -> s
                     [] i > 4 -> 0
<1>1. n % 256 \in Byte /\ n = 256 * q + (n % 256) /\ q \in Nat /\ q < 256 * (256 * 128)
  <2>1. n \in Nat /\ q < 256 * (256 * 128)
    BY DEF Int32
  <2> QED BY <2>1, Division
<1>2. q % 256 \in Byte /\ q = 256 * r + (q % 256) /\ r \in Nat /\ r < 256 * 128
  <2> HIDE DEF q
  <2> QED BY <1>1, Division
<1>3. r % 256 \in Byte /\ r = 256 * s + (r % 256) /\ s \in Byte
  <2> HIDE DEF r
  <2>1. s \in Nat /\ s < 128
    BY <1>2, Division
  <2> HIDE DEF s
  <2>2. s \in Byte
    BY <2>1 DEF Byte
  <2> QED BY <1>2, <2>2, Division DEF s
<1>4. LittleEndian(w, n) = [i \in 1..w |-> b(i)]
  BY DEF LittleEndian
<1> HIDE DEF q, r, s
<1>5. n % 256 \in Int /\ q % 256 \in Int /\ r % 256 \in Int /\ s \in Int
  BY <1>1, <1>2, <1>3 DEF Byte
<1>0. w \in Nat
  BY DEF Widths
<1>6. ASSUME NEW i \in 1..w PROVE b(i) \in Byte
  <2>1. i = 1 \/ i = 2 \/ i = 3 \/ i = 4 \/ i > 4
    BY <1>0
  <2>2. 0 \in Byte
    BY DEF Byte
  <2> QED BY <1>1, <1>2, <1>3, <2>1, <2>2
<1>7. b(1) = n % 256 /\ b(2) = q % 256 /\ b(3) = r % 256 /\ b(4) = s
  OBVIOUS
<1> HIDE DEF b
<1>8. LittleEndian(w, n) \in Bytes /\ Len(LittleEndian(w, n)) = w
  BY <1>0, <1>4, <1>6 DEF Bytes
<1>9. ASSUME w >= 4 PROVE Number(LittleEndian(w, n)) = n
  <2>1. {1, 2, 3, 4} \subseteq 1..w
    BY <1>0, <1>9
  <2>2. DOMAIN [i \in 1..w |-> b(i)] = 1..w
    OBVIOUS
  <2>3. Number([i \in 1..w |-> b(i)]) = b(1) + 256 * (b(2) + 256 * (b(3) + 256 * b(4)))
    BY <2>1, <2>2 DEF Number
  <2>4. n = (n % 256) + 256 * ((q % 256) + 256 * ((r % 256) + 256 * s))
    <3> DEFINE x == n % 256
               y == q % 256
               z == r % 256
    <3>1. /\ x \in Int /\ y \in Int /\ z \in Int /\ s \in Int
          /\ n = 256 * q + x /\ q = 256 * r + y /\ r = 256 * s + z
      BY <1>1, <1>2, <1>3, <1>5
    <3> HIDE DEF x, y, z
    <3>2. n = x + 256 * (y + 256 * (z + 256 * s))
      BY <3>1
    <3> QED BY <3>2 DEF x, y, z
  <2> QED BY <1>4, <1>7, <2>3, <2>4
<1> QED BY <1>8, <1>9

\* The bytes all begin with these.
Begins(all, bytes) ==
    /\ Len(bytes) <= Len(all)
    /\ \A i \in 1..Len(bytes) : all[i] = bytes[i]

LEMMA LengthOfBytes ==
    ASSUME NEW bytes \in Bytes
    PROVE  Len(bytes) \in Nat
BY DEF Bytes

LEMMA BeginsTransitive ==
    ASSUME NEW a \in Bytes, NEW b \in Bytes, NEW c \in Bytes, Begins(a, b), Begins(b, c)
    PROVE  Begins(a, c)
<1>1. Len(a) \in Nat /\ Len(b) \in Nat /\ Len(c) \in Nat
  BY LengthOfBytes
<1> QED BY <1>1 DEF Begins

LEMMA BeginsReflexive ==
    ASSUME NEW a \in Bytes
    PROVE  Begins(a, a)
BY LengthOfBytes DEF Begins

LEMMA ConcatBytes ==
    ASSUME NEW s \in Bytes, NEW t \in Bytes
    PROVE  /\ s \o t \in Bytes /\ Len(s \o t) = Len(s) + Len(t)
           /\ Begins(s \o t, s)
           /\ \A i \in 1..Len(t) : (s \o t)[Len(s) + i] = t[i]
<1>1. /\ s \o t \in Bytes /\ Len(s \o t) = Len(s) + Len(t)
      /\ \A i \in 1..(Len(s) + Len(t)) :
            (s \o t)[i] = IF i <= Len(s) THEN s[i] ELSE t[i - Len(s)]
  BY ConcatProperties DEF Bytes
<1>2. Len(s) \in Nat /\ Len(t) \in Nat
  BY LengthOfBytes
<1> DEFINE c == s \o t
<1> HIDE DEF c
<1>3. ASSUME NEW i \in 1..Len(t) PROVE c[Len(s) + i] = t[i]
  <2>1. /\ Len(s) + i \in 1..(Len(s) + Len(t)) /\ ~(Len(s) + i <= Len(s))
        /\ (Len(s) + i) - Len(s) = i
    BY <1>2
  <2> QED BY <1>1, <2>1 DEF c
<1>4. \A i \in 1..Len(s) : i \in 1..(Len(s) + Len(t)) /\ i <= Len(s)
  BY <1>2
<1>5. Len(s) <= Len(s) + Len(t)
  BY <1>2
<1> QED BY <1>1, <1>3, <1>4, <1>5 DEF Begins, c

LEMMA SubSequence ==
    ASSUME NEW all \in Bytes, NEW v \in Bytes, NEW k \in Nat,
           k + Len(v) <= Len(all), \A i \in 1..Len(v) : all[k + i] = v[i]
    PROVE  SubSeq(all, k + 1, k + Len(v)) = v
<1> DEFINE x == SubSeq(all, k + 1, k + Len(v))
<1>1. k + Len(v) \in Nat /\ Len(v) \in Nat
  BY LengthOfBytes
<1>2. x \in Bytes /\ Len(x) = Len(v)
  <2>1. \A i \in (k + 1)..(k + Len(v)) : i \in 1..Len(all)
    BY <1>1, LengthOfBytes
  <2>2. Len(x) = Len(v)
    BY <1>1, <2>1 DEF Bytes
  <2>3. x \in Bytes
    BY <1>1, <2>1 DEF Bytes
  <2> QED BY <2>2, <2>3
<1>3. \A i \in 1..Len(v) : x[i] = v[i]
  BY <1>1 DEF Bytes
<1> HIDE DEF x
<1>4. x = v
  BY <1>2, <1>3 DEF Bytes
<1> QED BY <1>4 DEF x

\* What is put behind some bytes, and where.
LEMMA PutFacts ==
    ASSUME NEW bytes \in Bytes, NEW w \in Widths, NEW v \in Bytes
    PROVE  /\ Put(bytes, w, v) \in Bytes
           /\ Len(Put(bytes, w, v)) = Aligned(Len(bytes), w) + Len(v)
           /\ Begins(Put(bytes, w, v), bytes)
           /\ \A i \in 1..Len(v) : Put(bytes, w, v)[Aligned(Len(bytes), w) + i] = v[i]
<1> DEFINE from == Aligned(Len(bytes), w)
           pad == Zeros(from - Len(bytes))
           head == bytes \o pad
<1>1. Len(bytes) \in Nat /\ from \in Nat /\ from >= Len(bytes)
  BY LengthOfBytes, AlignedFacts
<1> HIDE DEF from
<1>2. pad \in Bytes /\ Len(pad) = from - Len(bytes)
  BY <1>1 DEF Zeros, Byte, Bytes
<1>3. Put(bytes, w, v) = head \o v
  BY DEF Put, from
<1> HIDE DEF pad
<1>4. head \in Bytes /\ Len(head) = from /\ Begins(head, bytes)
  <2>1. Len(bytes) + (from - Len(bytes)) = from
    BY <1>1
  <2>2. /\ bytes \o pad \in Bytes /\ Len(bytes \o pad) = Len(bytes) + Len(pad)
        /\ Begins(bytes \o pad, bytes)
    BY <1>2, ConcatBytes
  <2> QED BY <1>2, <2>1, <2>2
<1> HIDE DEF head
<1>5. /\ head \o v \in Bytes /\ Len(head \o v) = from + Len(v) /\ Begins(head \o v, head)
      /\ \A i \in 1..Len(v) : (head \o v)[from + i] = v[i]
  BY <1>4, ConcatBytes
<1>6. Begins(head \o v, bytes)
  BY <1>4, <1>5, BeginsTransitive
<1> QED BY <1>3, <1>5, <1>6 DEF from

\* read_primitive() reads back what has been put.
LEMMA ReadsWhatWasPut ==
    ASSUME NEW bytes \in Bytes, NEW w \in Widths, NEW v \in Bytes, Len(v) = w,
           NEW all \in Bytes, Begins(all, Put(bytes, w, v))
    PROVE  ReadPrimitive(w, all, Len(bytes)) = [bytes |-> v, at |-> Len(Put(bytes, w, v))]
<1> DEFINE from == Aligned(Len(bytes), w)
           p == Put(bytes, w, v)
<1>1. Len(bytes) \in Nat /\ from \in Nat
  BY LengthOfBytes, AlignedFacts
<1>2. p \in Bytes /\ Len(p) = from + w /\ \A i \in 1..Len(v) : p[from + i] = v[i]
  BY PutFacts
<1>3. Len(p) <= Len(all) /\ \A i \in 1..Len(p) : all[i] = p[i]
  BY DEF Begins
<1>4. ReadPrimitive(w, all, Len(bytes)) =
        IF from + w <= Len(all)
        THEN [bytes |-> SubSeq(all, from + 1, from + w), at |-> from + w]
        ELSE [bytes |-> Zeros(w), at |-> from]
  BY DEF ReadPrimitive
<1> HIDE DEF from, p
<1>5. SubSeq(all, from + 1, from + w) = v
  <2>1. w \in Nat
    BY DEF Widths
  <2>2. from + Len(v) <= Len(all) /\ \A i \in 1..Len(v) : all[from + i] = v[i]
    BY <1>1, <1>2, <1>3, <2>1
  <2> QED BY <1>1, <2>2, SubSequence
<1> QED BY <1>2, <1>3, <1>4, <1>5 DEF p

LEMMA PutNumberFacts ==
    ASSUME NEW bytes \in Bytes, NEW w \in Widths, NEW n \in Int32
    PROVE  PutNumber(bytes, w, n) \in Bytes /\ Begins(PutNumber(bytes, w, n), bytes)
BY NumberOfBytes, PutFacts DEF PutNumber

\* And so it does with numbers.
LEMMA ReadsTheNumber ==
    ASSUME NEW bytes \in Bytes, NEW w \in {4, 8}, NEW n \in Int32,
           NEW all \in Bytes, Begins(all, PutNumber(bytes, w, n))
    PROVE  /\ Number(ReadPrimitive(w, all, Len(bytes)).bytes) = n
           /\ ReadPrimitive(w, all, Len(bytes)).at = Len(PutNumber(bytes, w, n))
<1>1. w \in Widths /\ w >= 4
  BY DEF Widths
<1>2. /\ LittleEndian(w, n) \in Bytes /\ Len(LittleEndian(w, n)) = w
      /\ Number(LittleEndian(w, n)) = n
  BY <1>1, NumberOfBytes
<1>3. ReadPrimitive(w, all, Len(bytes)) =
        [bytes |-> LittleEndian(w, n), at |-> Len(PutNumber(bytes, w, n))]
  BY <1>1, <1>2, ReadsWhatWasPut DEF PutNumber
<1> QED BY <1>2, <1>3

\* read_string() reads back a text.
LEMMA ReadsTheText ==
    ASSUME NEW bytes \in Bytes, NEW v \in Bytes, Len(v) + 1 \in Int32,
           NEW all \in Bytes
    PROVE  /\ PutText(bytes, v) \in Bytes /\ Begins(PutText(bytes, v), bytes)
           /\ Begins(all, PutText(bytes, v)) =>
                 ReadString(all, Len(bytes)) = [bytes |-> v, at |-> Len(PutText(bytes, v))]
<1> DEFINE p == PutText(bytes, v)
           q == PutNumber(bytes, 4, Len(v) + 1)
           t == Append(v, 0)
<1>1. q \in Bytes /\ Begins(q, bytes)
  BY PutNumberFacts DEF Widths
<1>2. t \in Bytes /\ Len(t) = Len(v) + 1 /\ \A i \in 1..Len(v) : t[i] = v[i]
  BY DEF Byte, Bytes
<1>3. p = q \o t
  BY DEF PutText
<1>4. ASSUME Begins(all, q)
      PROVE  /\ Number(ReadPrimitive(4, all, Len(bytes)).bytes) = Len(v) + 1
             /\ ReadPrimitive(4, all, Len(bytes)).at = Len(q)
  BY <1>4, ReadsTheNumber
<1> HIDE DEF p, q, t
<1>5. /\ p \in Bytes /\ Len(p) = Len(q) + Len(t) /\ Begins(p, q)
      /\ \A i \in 1..Len(t) : p[Len(q) + i] = t[i]
  <2>1. /\ q \o t \in Bytes /\ Len(q \o t) = Len(q) + Len(t) /\ Begins(q \o t, q)
        /\ \A i \in 1..Len(t) : (q \o t)[Len(q) + i] = t[i]
    BY <1>1, <1>2, ConcatBytes
  <2> QED BY <1>3, <2>1, Zenon
<1>6. Begins(p, bytes)
  BY <1>1, <1>5, BeginsTransitive
<1>7. ASSUME Begins(all, p)
      PROVE  ReadString(all, Len(bytes)) = [bytes |-> v, at |-> Len(p)]
  <2>1. Begins(all, q)
    BY <1>1, <1>5, <1>7, BeginsTransitive
  <2>2. Len(p) <= Len(all) /\ \A i \in 1..Len(p) : all[i] = p[i]
    BY <1>7 DEF Begins
  <2>3. Len(q) \in Nat /\ Len(v) \in Nat /\ Len(all) \in Nat
    BY <1>1, LengthOfBytes
  <2>4. ReadString(all, Len(bytes)) =
          IF Len(v) + 1 = 0 \/ Len(q) + (Len(v) + 1) > Len(all)
          THEN [bytes |-> <<>>, at |-> Len(q)]
          ELSE [bytes |-> SubSeq(all, Len(q) + 1, Len(q) + (Len(v) + 1) - 1),
                at |-> Len(q) + (Len(v) + 1)]
    BY <1>4, <2>1 DEF ReadString
  <2>5. SubSeq(all, Len(q) + 1, Len(q) + Len(v)) = v
    <3>1. Len(q) + Len(v) <= Len(all)
      BY <1>2, <1>5, <2>2, <2>3
    <3>2. ASSUME NEW i \in 1..Len(v) PROVE all[Len(q) + i] = v[i]
      <4>1. Len(q) + i \in 1..Len(p) /\ i \in 1..Len(t)
        BY <1>2, <1>5, <2>3
      <4> QED BY <1>2, <1>5, <2>2, <4>1
    <3> QED BY <2>3, <3>1, <3>2, SubSequence
  <2>6. /\ Len(q) + (Len(v) + 1) - 1 = Len(q) + Len(v) /\ Len(q) + (Len(v) + 1) = Len(p)
        /\ ~(Len(v) + 1 = 0) /\ ~(Len(q) + (Len(v) + 1) > Len(all))
    BY <1>2, <1>5, <2>2, <2>3
  <2> QED BY <2>4, <2>5, <2>6
<1> QED BY <1>5, <1>6, <1>7 DEF p

-----------------------------------------------------------------------------
(* Recursive functions: each exists, by induction, and so is what its      *)
(* definition says.                                                        *)

\* A function up to n - 1 with one more value.
LEMMA Extension ==
    ASSUME NEW n \in Nat \ {0}, NEW h, NEW x, NEW f,
           f = [i \in 0..n |-> IF i = n THEN x ELSE h[i]]
    PROVE  /\ \A i \in 1..n : f[i - 1] = h[i - 1]
           /\ f[n] = x
           /\ \A i \in 0..n : i # n => i \in 0..(n - 1) /\ f[i] = h[i]
<1>1. \A i \in 1..n : i - 1 \in 0..n /\ i - 1 # n
  OBVIOUS
<1> QED BY <1>1

InTurnStep(members, nested, start, before, i) ==
    IF i = 0 THEN [items |-> <<>>, at |-> start]
    ELSE LET r == nested[members[i].type][before.at]
         IN [items |-> Append(before.items, Field(members[i].name, r.node)), at |-> r.at]

LEMMA InTurnRecursion ==
    ASSUME NEW members, NEW nested, NEW start, Len(members) \in Nat
    PROVE  \A i \in 0..Len(members) : InTurnUpTo(members, nested, start)[i] = InTurnStep(members, nested, start, InTurnUpTo(members, nested, start)[i - 1], i)
<1> DEFINE u == InTurnUpTo(members, nested, start)
           N == Len(members)
           S(f, i) == InTurnStep(members, nested, start, f[i - 1], i)
           Is(f, n) == f = [i \in 0..n |-> S(f, i)]
           G == {n \in 0..N : \E f : Is(f, n)}
<1>1. (\A f, h : S(f, 0) = S(h, 0)) /\ u = CHOOSE f : Is(f, N)
  BY DEF InTurnUpTo, InTurnStep
<1>2. N \in Nat
  OBVIOUS
<1> HIDE DEF N, u
<1>3. ASSUME NEW n \in 1..N, NEW h, Is(h, n - 1), NEW f,
             f = [i \in 0..n |-> IF i = n THEN S(h, n) ELSE h[i]]
      PROVE  Is(f, n)
  <2>0. n \in Nat \ {0} /\ n \in 0..n /\ n \in 1..n
    BY <1>2
  <2>1. \A i \in 1..n : S(f, i) = S(h, i)
    BY <1>3, <2>0, Extension
  <2> HIDE DEF S
  <2>2. f[n] = S(h, n) /\ S(f, n) = S(h, n)
    BY <1>3, <2>0, <2>1
  <2>3. \A i \in 0..n : i # n => f[i] = S(h, i)
    <3>1. \A i \in 0..n : i # n => i \in 0..(n - 1)
      BY <2>0
    <3>2. \A i \in 0..(n - 1) : h[i] = S(h, i)
      BY <1>3, Zenon
    <3>3. \A i \in 0..n : i # n => f[i] = h[i]
      BY <1>3, Zenon
    <3> QED BY <3>1, <3>2, <3>3
  <2>4. \A i \in 0..n : f[i] = S(f, i)
    BY <1>1, <1>2, <2>1, <2>2, <2>3
  <2> QED BY <1>3, <2>4
<1>4. 0 \in G
  <2> HIDE DEF S
  <2>1. [i \in 0..0 |-> S(<<>>, 0)] = [i \in 0..0 |-> S([k \in 0..0 |-> S(<<>>, 0)], i)]
    BY <1>1
  <2> QED BY <1>2, <2>1
<1>5. ASSUME NEW n \in 1..N, n - 1 \in G PROVE n \in G
  <2>1. PICK h : Is(h, n - 1)
    BY <1>5
  <2> HIDE DEF S, Is
  <2>2. \E f : f = [i \in 0..n |-> IF i = n THEN S(h, n) ELSE h[i]]
    OBVIOUS
  <2>3. \E f : Is(f, n)
    BY <1>3, <2>1, <2>2
  <2> QED BY <1>2, <2>3
<1>6. N \in G
  <2> HIDE DEF G
  <2>1. 0..N \subseteq G /\ N \in 0..N
    BY <1>2, <1>4, <1>5, InductionUpTo
  <2> QED BY <2>1
<1>7. Is(u, N)
  BY <1>1, <1>6, Zenon
<1> QED BY <1>7 DEF N, u

TogetherStep(members, nested, bytes, before, i) ==
    IF i = 0 THEN {[items |-> <<>>, bytes |-> bytes]}
    ELSE UNION {{[items |-> Append(s.items, Field(members[i].name, v.node)),
                  bytes |-> v.bytes] : v \in nested[members[i].type][s.bytes]} : s \in before}

LEMMA TogetherRecursion ==
    ASSUME NEW members, NEW nested, NEW bytes, Len(members) \in Nat
    PROVE  \A i \in 0..Len(members) : TogetherUpTo(members, nested, bytes)[i] = TogetherStep(members, nested, bytes, TogetherUpTo(members, nested, bytes)[i - 1], i)
<1> DEFINE u == TogetherUpTo(members, nested, bytes)
           N == Len(members)
           S(f, i) == TogetherStep(members, nested, bytes, f[i - 1], i)
           Is(f, n) == f = [i \in 0..n |-> S(f, i)]
           G == {n \in 0..N : \E f : Is(f, n)}
<1>1. (\A f, h : S(f, 0) = S(h, 0)) /\ u = CHOOSE f : Is(f, N)
  BY DEF TogetherUpTo, TogetherStep
<1>2. N \in Nat
  OBVIOUS
<1> HIDE DEF N, u
<1>3. ASSUME NEW n \in 1..N, NEW h, Is(h, n - 1), NEW f,
             f = [i \in 0..n |-> IF i = n THEN S(h, n) ELSE h[i]]
      PROVE  Is(f, n)
  <2>0. n \in Nat \ {0} /\ n \in 0..n /\ n \in 1..n
    BY <1>2
  <2>1. \A i \in 1..n : S(f, i) = S(h, i)
    BY <1>3, <2>0, Extension
  <2> HIDE DEF S
  <2>2. f[n] = S(h, n) /\ S(f, n) = S(h, n)
    BY <1>3, <2>0, <2>1
  <2>3. \A i \in 0..n : i # n => f[i] = S(h, i)
    <3>1. \A i \in 0..n : i # n => i \in 0..(n - 1)
      BY <2>0
    <3>2. \A i \in 0..(n - 1) : h[i] = S(h, i)
      BY <1>3, Zenon
    <3>3. \A i \in 0..n : i # n => f[i] = h[i]
      BY <1>3, Zenon
    <3> QED BY <3>1, <3>2, <3>3
  <2>4. \A i \in 0..n : f[i] = S(f, i)
    BY <1>1, <1>2, <2>1, <2>2, <2>3
  <2> QED BY <1>3, <2>4
<1>4. 0 \in G
  <2> HIDE DEF S
  <2>1. [i \in 0..0 |-> S(<<>>, 0)] = [i \in 0..0 |-> S([k \in 0..0 |-> S(<<>>, 0)], i)]
    BY <1>1
  <2> QED BY <1>2, <2>1
<1>5. ASSUME NEW n \in 1..N, n - 1 \in G PROVE n \in G
  <2>1. PICK h : Is(h, n - 1)
    BY <1>5
  <2> HIDE DEF S, Is
  <2>2. \E f : f = [i \in 0..n |-> IF i = n THEN S(h, n) ELSE h[i]]
    OBVIOUS
  <2>3. \E f : Is(f, n)
    BY <1>3, <2>1, <2>2
  <2> QED BY <1>2, <2>3
<1>6. N \in G
  <2> HIDE DEF G
  <2>1. 0..N \subseteq G /\ N \in 0..N
    BY <1>2, <1>4, <1>5, InductionUpTo
  <2> QED BY <2>1
<1>7. Is(u, N)
  BY <1>1, <1>6, Zenon
<1> QED BY <1>7 DEF N, u

ReadStep(format, mapping, bytes, before, i) ==
    [tid \in Types |-> [at \in Nat |->
        IF i = 0 THEN Read(Unknown, at) ELSE Value(format, tid, mapping, bytes, before, at)]]

LEMMA ReadRecursion ==
    ASSUME NEW format, NEW mapping, NEW bytes
    PROVE  \A i \in 0..MaxDepth : ReadUpTo(format, mapping, bytes)[i] = ReadStep(format, mapping, bytes, ReadUpTo(format, mapping, bytes)[i - 1], i)
<1> DEFINE u == ReadUpTo(format, mapping, bytes)
           N == MaxDepth
           S(f, i) == ReadStep(format, mapping, bytes, f[i - 1], i)
           Is(f, n) == f = [i \in 0..n |-> S(f, i)]
           G == {n \in 0..N : \E f : Is(f, n)}
<1>1. (\A f, h : S(f, 0) = S(h, 0)) /\ u = CHOOSE f : Is(f, N)
  BY DEF ReadUpTo, ReadStep
<1>2. N \in Nat
  BY TypeUseAssumption DEF TypeUseAssumption
<1> HIDE DEF N, u
<1>3. ASSUME NEW n \in 1..N, NEW h, Is(h, n - 1), NEW f,
             f = [i \in 0..n |-> IF i = n THEN S(h, n) ELSE h[i]]
      PROVE  Is(f, n)
  <2>0. n \in Nat \ {0} /\ n \in 0..n /\ n \in 1..n
    BY <1>2
  <2>1. \A i \in 1..n : S(f, i) = S(h, i)
    BY <1>3, <2>0, Extension
  <2> HIDE DEF S
  <2>2. f[n] = S(h, n) /\ S(f, n) = S(h, n)
    BY <1>3, <2>0, <2>1
  <2>3. \A i \in 0..n : i # n => f[i] = S(h, i)
    <3>1. \A i \in 0..n : i # n => i \in 0..(n - 1)
      BY <2>0
    <3>2. \A i \in 0..(n - 1) : h[i] = S(h, i)
      BY <1>3, Zenon
    <3>3. \A i \in 0..n : i # n => f[i] = h[i]
      BY <1>3, Zenon
    <3> QED BY <3>1, <3>2, <3>3
  <2>4. \A i \in 0..n : f[i] = S(f, i)
    BY <1>1, <1>2, <2>1, <2>2, <2>3
  <2> QED BY <1>3, <2>4
<1>4. 0 \in G
  <2> HIDE DEF S
  <2>1. [i \in 0..0 |-> S(<<>>, 0)] = [i \in 0..0 |-> S([k \in 0..0 |-> S(<<>>, 0)], i)]
    BY <1>1
  <2> QED BY <1>2, <2>1
<1>5. ASSUME NEW n \in 1..N, n - 1 \in G PROVE n \in G
  <2>1. PICK h : Is(h, n - 1)
    BY <1>5
  <2> HIDE DEF S, Is
  <2>2. \E f : f = [i \in 0..n |-> IF i = n THEN S(h, n) ELSE h[i]]
    OBVIOUS
  <2>3. \E f : Is(f, n)
    BY <1>3, <2>1, <2>2
  <2> QED BY <1>2, <2>3
<1>6. N \in G
  <2> HIDE DEF G
  <2>1. 0..N \subseteq G /\ N \in 0..N
    BY <1>2, <1>4, <1>5, InductionUpTo
  <2> QED BY <2>1
<1>7. Is(u, N)
  BY <1>1, <1>6, Zenon
<1> QED BY <1>7 DEF N, u

SamplesStep(mapping, before, i) ==
    [tid \in Types |-> [bytes \in Bytes |->
        IF i = 0 THEN {} ELSE SamplesOf(tid, mapping, before, bytes)]]

LEMMA SamplesRecursion ==
    ASSUME NEW mapping
    PROVE  \A i \in 0..MaxDepth : SamplesUpTo(mapping)[i] = SamplesStep(mapping, SamplesUpTo(mapping)[i - 1], i)
<1> DEFINE u == SamplesUpTo(mapping)
           N == MaxDepth
           S(f, i) == SamplesStep(mapping, f[i - 1], i)
           Is(f, n) == f = [i \in 0..n |-> S(f, i)]
           G == {n \in 0..N : \E f : Is(f, n)}
<1>1. (\A f, h : S(f, 0) = S(h, 0)) /\ u = CHOOSE f : Is(f, N)
  BY DEF SamplesUpTo, SamplesStep
<1>2. N \in Nat
  BY TypeUseAssumption DEF TypeUseAssumption
<1> HIDE DEF N, u
<1>3. ASSUME NEW n \in 1..N, NEW h, Is(h, n - 1), NEW f,
             f = [i \in 0..n |-> IF i = n THEN S(h, n) ELSE h[i]]
      PROVE  Is(f, n)
  <2>0. n \in Nat \ {0} /\ n \in 0..n /\ n \in 1..n
    BY <1>2
  <2>1. \A i \in 1..n : S(f, i) = S(h, i)
    BY <1>3, <2>0, Extension
  <2> HIDE DEF S
  <2>2. f[n] = S(h, n) /\ S(f, n) = S(h, n)
    BY <1>3, <2>0, <2>1
  <2>3. \A i \in 0..n : i # n => f[i] = S(h, i)
    <3>1. \A i \in 0..n : i # n => i \in 0..(n - 1)
      BY <2>0
    <3>2. \A i \in 0..(n - 1) : h[i] = S(h, i)
      BY <1>3, Zenon
    <3>3. \A i \in 0..n : i # n => f[i] = h[i]
      BY <1>3, Zenon
    <3> QED BY <3>1, <3>2, <3>3
  <2>4. \A i \in 0..n : f[i] = S(f, i)
    BY <1>1, <1>2, <2>1, <2>2, <2>3
  <2> QED BY <1>3, <2>4
<1>4. 0 \in G
  <2> HIDE DEF S
  <2>1. [i \in 0..0 |-> S(<<>>, 0)] = [i \in 0..0 |-> S([k \in 0..0 |-> S(<<>>, 0)], i)]
    BY <1>1
  <2> QED BY <1>2, <2>1
<1>5. ASSUME NEW n \in 1..N, n - 1 \in G PROVE n \in G
  <2>1. PICK h : Is(h, n - 1)
    BY <1>5
  <2> HIDE DEF S, Is
  <2>2. \E f : f = [i \in 0..n |-> IF i = n THEN S(h, n) ELSE h[i]]
    OBVIOUS
  <2>3. \E f : Is(f, n)
    BY <1>3, <2>1, <2>2
  <2> QED BY <1>2, <2>3
<1>6. N \in G
  <2> HIDE DEF G
  <2>1. 0..N \subseteq G /\ N \in 0..N
    BY <1>2, <1>4, <1>5, InductionUpTo
  <2> QED BY <2>1
<1>7. Is(u, N)
  BY <1>1, <1>6, Zenon
<1> QED BY <1>7 DEF N, u

PartsStep(mapping, before, i) ==
    [part \in Types \X BOOLEAN |->
        IF i = 0 THEN {} ELSE {part} \cup UNION {before[p] : p \in Inside(part, mapping)}]

LEMMA PartsRecursion ==
    ASSUME NEW mapping
    PROVE  \A i \in 0..MaxDepth : PartsUpTo(mapping)[i] = PartsStep(mapping, PartsUpTo(mapping)[i - 1], i)
<1> DEFINE u == PartsUpTo(mapping)
           N == MaxDepth
           S(f, i) == PartsStep(mapping, f[i - 1], i)
           Is(f, n) == f = [i \in 0..n |-> S(f, i)]
           G == {n \in 0..N : \E f : Is(f, n)}
<1>1. (\A f, h : S(f, 0) = S(h, 0)) /\ u = CHOOSE f : Is(f, N)
  BY DEF PartsUpTo, PartsStep
<1>2. N \in Nat
  BY TypeUseAssumption DEF TypeUseAssumption
<1> HIDE DEF N, u
<1>3. ASSUME NEW n \in 1..N, NEW h, Is(h, n - 1), NEW f,
             f = [i \in 0..n |-> IF i = n THEN S(h, n) ELSE h[i]]
      PROVE  Is(f, n)
  <2>0. n \in Nat \ {0} /\ n \in 0..n /\ n \in 1..n
    BY <1>2
  <2>1. \A i \in 1..n : S(f, i) = S(h, i)
    BY <1>3, <2>0, Extension
  <2> HIDE DEF S
  <2>2. f[n] = S(h, n) /\ S(f, n) = S(h, n)
    BY <1>3, <2>0, <2>1
  <2>3. \A i \in 0..n : i # n => f[i] = S(h, i)
    <3>1. \A i \in 0..n : i # n => i \in 0..(n - 1)
      BY <2>0
    <3>2. \A i \in 0..(n - 1) : h[i] = S(h, i)
      BY <1>3, Zenon
    <3>3. \A i \in 0..n : i # n => f[i] = h[i]
      BY <1>3, Zenon
    <3> QED BY <3>1, <3>2, <3>3
  <2>4. \A i \in 0..n : f[i] = S(f, i)
    BY <1>1, <1>2, <2>1, <2>2, <2>3
  <2> QED BY <1>3, <2>4
<1>4. 0 \in G
  <2> HIDE DEF S
  <2>1. [i \in 0..0 |-> S(<<>>, 0)] = [i \in 0..0 |-> S([k \in 0..0 |-> S(<<>>, 0)], i)]
    BY <1>1
  <2> QED BY <1>2, <2>1
<1>5. ASSUME NEW n \in 1..N, n - 1 \in G PROVE n \in G
  <2>1. PICK h : Is(h, n - 1)
    BY <1>5
  <2> HIDE DEF S, Is
  <2>2. \E f : f = [i \in 0..n |-> IF i = n THEN S(h, n) ELSE h[i]]
    OBVIOUS
  <2>3. \E f : Is(f, n)
    BY <1>3, <2>1, <2>2
  <2> QED BY <1>2, <2>3
<1>6. N \in G
  <2> HIDE DEF G
  <2>1. 0..N \subseteq G /\ N \in 0..N
    BY <1>2, <1>4, <1>5, InductionUpTo
  <2> QED BY <2>1
<1>7. Is(u, N)
  BY <1>1, <1>6, Zenon
<1> QED BY <1>7 DEF N, u

IdlStep(mapping, before, i) ==
    [tid \in Types |-> IF i = 0 THEN <<Basic(Octet)>> ELSE TypeidToIdl(tid, mapping, before)]

LEMMA IdlRecursion ==
    ASSUME NEW mapping
    PROVE  \A i \in 0..MaxDepth : IdlUpTo(mapping)[i] = IdlStep(mapping, IdlUpTo(mapping)[i - 1], i)
<1> DEFINE u == IdlUpTo(mapping)
           N == MaxDepth
           S(f, i) == IdlStep(mapping, f[i - 1], i)
           Is(f, n) == f = [i \in 0..n |-> S(f, i)]
           G == {n \in 0..N : \E f : Is(f, n)}
<1>1. (\A f, h : S(f, 0) = S(h, 0)) /\ u = CHOOSE f : Is(f, N)
  BY DEF IdlUpTo, IdlStep
<1>2. N \in Nat
  BY TypeUseAssumption DEF TypeUseAssumption
<1> HIDE DEF N, u
<1>3. ASSUME NEW n \in 1..N, NEW h, Is(h, n - 1), NEW f,
             f = [i \in 0..n |-> IF i = n THEN S(h, n) ELSE h[i]]
      PROVE  Is(f, n)
  <2>0. n \in Nat \ {0} /\ n \in 0..n /\ n \in 1..n
    BY <1>2
  <2>1. \A i \in 1..n : S(f, i) = S(h, i)
    BY <1>3, <2>0, Extension
  <2> HIDE DEF S
  <2>2. f[n] = S(h, n) /\ S(f, n) = S(h, n)
    BY <1>3, <2>0, <2>1
  <2>3. \A i \in 0..n : i # n => f[i] = S(h, i)
    <3>1. \A i \in 0..n : i # n => i \in 0..(n - 1)
      BY <2>0
    <3>2. \A i \in 0..(n - 1) : h[i] = S(h, i)
      BY <1>3, Zenon
    <3>3. \A i \in 0..n : i # n => f[i] = h[i]
      BY <1>3, Zenon
    <3> QED BY <3>1, <3>2, <3>3
  <2>4. \A i \in 0..n : f[i] = S(f, i)
    BY <1>1, <1>2, <2>1, <2>2, <2>3
  <2> QED BY <1>3, <2>4
<1>4. 0 \in G
  <2> HIDE DEF S
  <2>1. [i \in 0..0 |-> S(<<>>, 0)] = [i \in 0..0 |-> S([k \in 0..0 |-> S(<<>>, 0)], i)]
    BY <1>1
  <2> QED BY <1>2, <2>1
<1>5. ASSUME NEW n \in 1..N, n - 1 \in G PROVE n \in G
  <2>1. PICK h : Is(h, n - 1)
    BY <1>5
  <2> HIDE DEF S, Is
  <2>2. \E f : f = [i \in 0..n |-> IF i = n THEN S(h, n) ELSE h[i]]
    OBVIOUS
  <2>3. \E f : Is(f, n)
    BY <1>3, <2>1, <2>2
  <2> QED BY <1>2, <2>3
<1>6. N \in G
  <2> HIDE DEF G
  <2>1. 0..N \subseteq G /\ N \in 0..N
    BY <1>2, <1>4, <1>5, InductionUpTo
  <2> QED BY <2>1
<1>7. Is(u, N)
  BY <1>1, <1>6, Zenon
<1> QED BY <1>7 DEF N, u

ExpressibleStep(mapping, before, i) ==
    [tid \in Types |->
        /\ i # 0
        /\ IsList(tid) => tid.element.d # "ARRAY" /\ before[tid.element]
        /\ tid.d = "EK_COMPLETE" => KindOf(tid, mapping) = "STRUCTURE"]

LEMMA ExpressibleRecursion ==
    ASSUME NEW mapping
    PROVE  \A i \in 0..MaxDepth : ExpressibleUpTo(mapping)[i] = ExpressibleStep(mapping, ExpressibleUpTo(mapping)[i - 1], i)
<1> DEFINE u == ExpressibleUpTo(mapping)
           N == MaxDepth
           S(f, i) == ExpressibleStep(mapping, f[i - 1], i)
           Is(f, n) == f = [i \in 0..n |-> S(f, i)]
           G == {n \in 0..N : \E f : Is(f, n)}
<1>1. (\A f, h : S(f, 0) = S(h, 0)) /\ u = CHOOSE f : Is(f, N)
  BY DEF ExpressibleUpTo, ExpressibleStep
<1>2. N \in Nat
  BY TypeUseAssumption DEF TypeUseAssumption
<1> HIDE DEF N, u
<1>3. ASSUME NEW n \in 1..N, NEW h, Is(h, n - 1), NEW f,
             f = [i \in 0..n |-> IF i = n THEN S(h, n) ELSE h[i]]
      PROVE  Is(f, n)
  <2>0. n \in Nat \ {0} /\ n \in 0..n /\ n \in 1..n
    BY <1>2
  <2>1. \A i \in 1..n : S(f, i) = S(h, i)
    BY <1>3, <2>0, Extension
  <2> HIDE DEF S
  <2>2. f[n] = S(h, n) /\ S(f, n) = S(h, n)
    BY <1>3, <2>0, <2>1
  <2>3. \A i \in 0..n : i # n => f[i] = S(h, i)
    <3>1. \A i \in 0..n : i # n => i \in 0..(n - 1)
      BY <2>0
    <3>2. \A i \in 0..(n - 1) : h[i] = S(h, i)
      BY <1>3, Zenon
    <3>3. \A i \in 0..n : i # n => f[i] = h[i]
      BY <1>3, Zenon
    <3> QED BY <3>1, <3>2, <3>3
  <2>4. \A i \in 0..n : f[i] = S(f, i)
    BY <1>1, <1>2, <2>1, <2>2, <2>3
  <2> QED BY <1>3, <2>4
<1>4. 0 \in G
  <2> HIDE DEF S
  <2>1. [i \in 0..0 |-> S(<<>>, 0)] = [i \in 0..0 |-> S([k \in 0..0 |-> S(<<>>, 0)], i)]
    BY <1>1
  <2> QED BY <1>2, <2>1
<1>5. ASSUME NEW n \in 1..N, n - 1 \in G PROVE n \in G
  <2>1. PICK h : Is(h, n - 1)
    BY <1>5
  <2> HIDE DEF S, Is
  <2>2. \E f : f = [i \in 0..n |-> IF i = n THEN S(h, n) ELSE h[i]]
    OBVIOUS
  <2>3. \E f : Is(f, n)
    BY <1>3, <2>1, <2>2
  <2> QED BY <1>2, <2>3
<1>6. N \in G
  <2> HIDE DEF G
  <2>1. 0..N \subseteq G /\ N \in 0..N
    BY <1>2, <1>4, <1>5, InductionUpTo
  <2> QED BY <2>1
<1>7. Is(u, N)
  BY <1>1, <1>6, Zenon
<1> QED BY <1>7 DEF N, u

MeaningStep(mapping, before, i) ==
    [idl \in Seq(IdlToken) |->
        IF i = 0 \/ idl = <<>> THEN NoType
        ELSE IF idl[1].kind = "sequence<" THEN ListOf(before[SubSeq(idl, 2, Len(idl) - 1)])
        ELSE IF idl[1].kind = "name" THEN TypeNamed(idl[1].name, mapping)
        ELSE idl[1].type]

LEMMA MeaningRecursion ==
    ASSUME NEW mapping
    PROVE  \A i \in 0..MaxDepth : MeaningUpTo(mapping)[i] = MeaningStep(mapping, MeaningUpTo(mapping)[i - 1], i)
<1> DEFINE u == MeaningUpTo(mapping)
           N == MaxDepth
           S(f, i) == MeaningStep(mapping, f[i - 1], i)
           Is(f, n) == f = [i \in 0..n |-> S(f, i)]
           G == {n \in 0..N : \E f : Is(f, n)}
<1>1. (\A f, h : S(f, 0) = S(h, 0)) /\ u = CHOOSE f : Is(f, N)
  BY DEF MeaningUpTo, MeaningStep
<1>2. N \in Nat
  BY TypeUseAssumption DEF TypeUseAssumption
<1> HIDE DEF N, u
<1>3. ASSUME NEW n \in 1..N, NEW h, Is(h, n - 1), NEW f,
             f = [i \in 0..n |-> IF i = n THEN S(h, n) ELSE h[i]]
      PROVE  Is(f, n)
  <2>0. n \in Nat \ {0} /\ n \in 0..n /\ n \in 1..n
    BY <1>2
  <2>1. \A i \in 1..n : S(f, i) = S(h, i)
    BY <1>3, <2>0, Extension
  <2> HIDE DEF S
  <2>2. f[n] = S(h, n) /\ S(f, n) = S(h, n)
    BY <1>3, <2>0, <2>1
  <2>3. \A i \in 0..n : i # n => f[i] = S(h, i)
    <3>1. \A i \in 0..n : i # n => i \in 0..(n - 1)
      BY <2>0
    <3>2. \A i \in 0..(n - 1) : h[i] = S(h, i)
      BY <1>3, Zenon
    <3>3. \A i \in 0..n : i # n => f[i] = h[i]
      BY <1>3, Zenon
    <3> QED BY <3>1, <3>2, <3>3
  <2>4. \A i \in 0..n : f[i] = S(f, i)
    BY <1>1, <1>2, <2>1, <2>2, <2>3
  <2> QED BY <1>3, <2>4
<1>4. 0 \in G
  <2> HIDE DEF S
  <2>1. [i \in 0..0 |-> S(<<>>, 0)] = [i \in 0..0 |-> S([k \in 0..0 |-> S(<<>>, 0)], i)]
    BY <1>1
  <2> QED BY <1>2, <2>1
<1>5. ASSUME NEW n \in 1..N, n - 1 \in G PROVE n \in G
  <2>1. PICK h : Is(h, n - 1)
    BY <1>5
  <2> HIDE DEF S, Is
  <2>2. \E f : f = [i \in 0..n |-> IF i = n THEN S(h, n) ELSE h[i]]
    OBVIOUS
  <2>3. \E f : Is(f, n)
    BY <1>3, <2>1, <2>2
  <2> QED BY <1>2, <2>3
<1>6. N \in G
  <2> HIDE DEF G
  <2>1. 0..N \subseteq G /\ N \in 0..N
    BY <1>2, <1>4, <1>5, InductionUpTo
  <2> QED BY <2>1
<1>7. Is(u, N)
  BY <1>1, <1>6, Zenon
<1> QED BY <1>7 DEF N, u

EnumsStep(mapping, before, i) ==
    IF i = 0 THEN <<>>
    ELSE LET o == mapping[i].object
         IN IF o.d = "ENUM" /\ ~Declares(before, o.name)
            THEN Append(before, EnumIdl(o)) ELSE before

LEMMA EnumsRecursion ==
    ASSUME NEW mapping, Len(mapping) \in Nat
    PROVE  \A i \in 0..Len(mapping) : EnumsUpTo(mapping)[i] = EnumsStep(mapping, EnumsUpTo(mapping)[i - 1], i)
<1> DEFINE u == EnumsUpTo(mapping)
           N == Len(mapping)
           S(f, i) == EnumsStep(mapping, f[i - 1], i)
           Is(f, n) == f = [i \in 0..n |-> S(f, i)]
           G == {n \in 0..N : \E f : Is(f, n)}
<1>1. (\A f, h : S(f, 0) = S(h, 0)) /\ u = CHOOSE f : Is(f, N)
  BY DEF EnumsUpTo, EnumsStep
<1>2. N \in Nat
  OBVIOUS
<1> HIDE DEF N, u
<1>3. ASSUME NEW n \in 1..N, NEW h, Is(h, n - 1), NEW f,
             f = [i \in 0..n |-> IF i = n THEN S(h, n) ELSE h[i]]
      PROVE  Is(f, n)
  <2>0. n \in Nat \ {0} /\ n \in 0..n /\ n \in 1..n
    BY <1>2
  <2>1. \A i \in 1..n : S(f, i) = S(h, i)
    BY <1>3, <2>0, Extension
  <2> HIDE DEF S
  <2>2. f[n] = S(h, n) /\ S(f, n) = S(h, n)
    BY <1>3, <2>0, <2>1
  <2>3. \A i \in 0..n : i # n => f[i] = S(h, i)
    <3>1. \A i \in 0..n : i # n => i \in 0..(n - 1)
      BY <2>0
    <3>2. \A i \in 0..(n - 1) : h[i] = S(h, i)
      BY <1>3, Zenon
    <3>3. \A i \in 0..n : i # n => f[i] = h[i]
      BY <1>3, Zenon
    <3> QED BY <3>1, <3>2, <3>3
  <2>4. \A i \in 0..n : f[i] = S(f, i)
    BY <1>1, <1>2, <2>1, <2>2, <2>3
  <2> QED BY <1>3, <2>4
<1>4. 0 \in G
  <2> HIDE DEF S
  <2>1. [i \in 0..0 |-> S(<<>>, 0)] = [i \in 0..0 |-> S([k \in 0..0 |-> S(<<>>, 0)], i)]
    BY <1>1
  <2> QED BY <1>2, <2>1
<1>5. ASSUME NEW n \in 1..N, n - 1 \in G PROVE n \in G
  <2>1. PICK h : Is(h, n - 1)
    BY <1>5
  <2> HIDE DEF S, Is
  <2>2. \E f : f = [i \in 0..n |-> IF i = n THEN S(h, n) ELSE h[i]]
    OBVIOUS
  <2>3. \E f : Is(f, n)
    BY <1>3, <2>1, <2>2
  <2> QED BY <1>2, <2>3
<1>6. N \in G
  <2> HIDE DEF G
  <2>1. 0..N \subseteq G /\ N \in 0..N
    BY <1>2, <1>4, <1>5, InductionUpTo
  <2> QED BY <2>1
<1>7. Is(u, N)
  BY <1>1, <1>6, Zenon
<1> QED BY <1>7 DEF N, u

StructsStep(main, mapping, before, i) ==
    IF i = 0 THEN EnumsUpTo(mapping)[Len(mapping)]
    ELSE LET o == mapping[i].object
         IN IF o.d = "STRUCTURE" /\ o.name # main /\ ~Declares(before, o.name)
            THEN Append(before, StructIdl(o, mapping)) ELSE before

LEMMA StructsRecursion ==
    ASSUME NEW main, NEW mapping, Len(mapping) \in Nat
    PROVE  \A i \in 0..Len(mapping) : StructsUpTo(main, mapping)[i] = StructsStep(main, mapping, StructsUpTo(main, mapping)[i - 1], i)
<1> DEFINE u == StructsUpTo(main, mapping)
           N == Len(mapping)
           S(f, i) == StructsStep(main, mapping, f[i - 1], i)
           Is(f, n) == f = [i \in 0..n |-> S(f, i)]
           G == {n \in 0..N : \E f : Is(f, n)}
<1>1. (\A f, h : S(f, 0) = S(h, 0)) /\ u = CHOOSE f : Is(f, N)
  BY DEF StructsUpTo, StructsStep
<1>2. N \in Nat
  OBVIOUS
<1> HIDE DEF N, u
<1>3. ASSUME NEW n \in 1..N, NEW h, Is(h, n - 1), NEW f,
             f = [i \in 0..n |-> IF i = n THEN S(h, n) ELSE h[i]]
      PROVE  Is(f, n)
  <2>0. n \in Nat \ {0} /\ n \in 0..n /\ n \in 1..n
    BY <1>2
  <2>1. \A i \in 1..n : S(f, i) = S(h, i)
    BY <1>3, <2>0, Extension
  <2> HIDE DEF S
  <2>2. f[n] = S(h, n) /\ S(f, n) = S(h, n)
    BY <1>3, <2>0, <2>1
  <2>3. \A i \in 0..n : i # n => f[i] = S(h, i)
    <3>1. \A i \in 0..n : i # n => i \in 0..(n - 1)
      BY <2>0
    <3>2. \A i \in 0..(n - 1) : h[i] = S(h, i)
      BY <1>3, Zenon
    <3>3. \A i \in 0..n : i # n => f[i] = h[i]
      BY <1>3, Zenon
    <3> QED BY <3>1, <3>2, <3>3
  <2>4. \A i \in 0..n : f[i] = S(f, i)
    BY <1>1, <1>2, <2>1, <2>2, <2>3
  <2> QED BY <1>3, <2>4
<1>4. 0 \in G
  <2> HIDE DEF S
  <2>1. [i \in 0..0 |-> S(<<>>, 0)] = [i \in 0..0 |-> S([k \in 0..0 |-> S(<<>>, 0)], i)]
    BY <1>1
  <2> QED BY <1>2, <2>1
<1>5. ASSUME NEW n \in 1..N, n - 1 \in G PROVE n \in G
  <2>1. PICK h : Is(h, n - 1)
    BY <1>5
  <2> HIDE DEF S, Is
  <2>2. \E f : f = [i \in 0..n |-> IF i = n THEN S(h, n) ELSE h[i]]
    OBVIOUS
  <2>3. \E f : Is(f, n)
    BY <1>3, <2>1, <2>2
  <2> QED BY <1>2, <2>3
<1>6. N \in G
  <2> HIDE DEF G
  <2>1. 0..N \subseteq G /\ N \in 0..N
    BY <1>2, <1>4, <1>5, InductionUpTo
  <2> QED BY <2>1
<1>7. Is(u, N)
  BY <1>1, <1>6, Zenon
<1> QED BY <1>7 DEF N, u

-----------------------------------------------------------------------------
(* What is printed.                                                        *)

\* A sample v behind some bytes: where all bytes begin with it, its document is read, up to
\* its end.
AsMeant(v, read, all, bytes) ==
    /\ v.bytes \in Bytes /\ Begins(v.bytes, bytes)
    /\ Begins(all, v.bytes) => read = Read(v.node, Len(v.bytes))

Agrees(look, nested, all, tid) ==
    \A bytes \in Bytes : \A v \in nested[tid][bytes] :
        AsMeant(v, look[tid][Len(bytes)], all, bytes)

LEMMA InTurnAgrees ==
    ASSUME NEW members, Len(members) \in Nat, NEW look, NEW nested, NEW all \in Bytes,
           \A i \in 1..Len(members) : Agrees(look, nested, all, members[i].type),
           NEW bytes \in Bytes, NEW s \in Together(members, nested, bytes)
    PROVE  /\ s.bytes \in Bytes /\ Begins(s.bytes, bytes)
           /\ Begins(all, s.bytes) =>
                 InTurn(members, look, Len(bytes)) = [items |-> s.items, at |-> Len(s.bytes)]
<1> DEFINE N == Len(members)
           T == TogetherUpTo(members, nested, bytes)
           R == InTurnUpTo(members, look, Len(bytes))
           Good(t, i) == /\ t.bytes \in Bytes /\ Begins(t.bytes, bytes)
                         /\ Begins(all, t.bytes) => R[i] = [items |-> t.items, at |-> Len(t.bytes)]
           G == {i \in 0..N : \A t \in T[i] : Good(t, i)}
<1>1. \A i \in 0..N : /\ T[i] = TogetherStep(members, nested, bytes, T[i - 1], i)
                      /\ R[i] = InTurnStep(members, look, Len(bytes), R[i - 1], i)
  BY TogetherRecursion, InTurnRecursion
<1>0. N \in Nat
  OBVIOUS
<1> HIDE DEF T, R, N
<1>2. 0 \in G
  <2>0. 0 \in 0..N
    BY <1>0
  <2>1. T[0] = {[items |-> <<>>, bytes |-> bytes]}
    BY <1>1, <2>0 DEF TogetherStep
  <2>2. R[0] = [items |-> <<>>, at |-> Len(bytes)]
    BY <1>1, <2>0 DEF InTurnStep
  <2> QED BY <2>0, <2>1, <2>2, BeginsReflexive
<1>3. ASSUME NEW i \in 1..N, i - 1 \in G
      PROVE  i \in G
  <2> DEFINE m == members[i]
  <2>1. i \in 0..N /\ i # 0
    BY <1>0
  <2>2. T[i] = UNION {{[items |-> Append(p.items, Field(m.name, v.node)), bytes |-> v.bytes] :
                          v \in nested[m.type][p.bytes]} : p \in T[i - 1]}
    BY <1>1, <2>1 DEF TogetherStep
  <2>3. R[i] = LET r == look[m.type][R[i - 1].at]
               IN [items |-> Append(R[i - 1].items, Field(m.name, r.node)), at |-> r.at]
    BY <1>1, <2>1 DEF InTurnStep
  <2>4. Agrees(look, nested, all, m.type)
    BY DEF N
  <2> HIDE DEF m
  <2>5. ASSUME NEW t \in T[i]
        PROVE  Good(t, i)
    <3>1. PICK p \in T[i - 1] : \E v \in nested[m.type][p.bytes] :
              t = [items |-> Append(p.items, Field(m.name, v.node)), bytes |-> v.bytes]
      BY <2>2
    <3>2. PICK v \in nested[m.type][p.bytes] :
              t = [items |-> Append(p.items, Field(m.name, v.node)), bytes |-> v.bytes]
      BY <3>1
    <3>3. Good(p, i - 1)
      BY <1>3
    <3>4. /\ v.bytes \in Bytes /\ Begins(v.bytes, p.bytes)
          /\ Begins(all, v.bytes) => look[m.type][Len(p.bytes)] = Read(v.node, Len(v.bytes))
      BY <2>4, <3>3 DEF Agrees, AsMeant
    <3>5. Begins(v.bytes, bytes)
      BY <3>3, <3>4, BeginsTransitive
    <3>6. ASSUME Begins(all, v.bytes)
          PROVE  R[i] = [items |-> t.items, at |-> Len(t.bytes)]
      <4>1. Begins(all, p.bytes)
        BY <3>3, <3>4, <3>6, BeginsTransitive
      <4>2. R[i - 1] = [items |-> p.items, at |-> Len(p.bytes)]
        BY <3>3, <4>1
      <4>3. look[m.type][R[i - 1].at] = Read(v.node, Len(v.bytes))
        BY <3>4, <3>6, <4>2
      <4> QED BY <2>3, <3>2, <4>2, <4>3 DEF Read
    <3> QED BY <3>2, <3>4, <3>5, <3>6
  <2> QED BY <2>1, <2>5
<1> HIDE DEF G
<1>4. N \in G
  <2>1. \A i \in 1..N : i - 1 \in G => i \in G
    BY <1>3
  <2>2. 0..N \subseteq G
    BY <1>0, <1>2, <2>1, InductionUpTo
  <2> QED BY <1>0, <2>2
<1>5. Good(s, N)
  BY <1>4 DEF G, Together, T, N
<1> QED BY <1>5 DEF InTurn, R, N

-----------------------------------------------------------------------------
(* Type mappings: what a search finds in one.                              *)

IsMapping(main, mapping) ==
    /\ Len(mapping) \in Nat /\ DOMAIN mapping = 1..Len(mapping)
    /\ \A i \in DOMAIN mapping : IsObject(mapping[i].object)
    /\ \A i, j \in DOMAIN mapping : (\/ mapping[i].hash = mapping[j].hash
                                     \/ mapping[i].object.name = mapping[j].object.name) => i = j
    /\ IsStruct(main) /\ main.name = MainName
    /\ \E i \in DOMAIN mapping : mapping[i] = [hash |-> MainHash, object |-> main]

LEMMA MappingsAreProper ==
    ASSUME NEW main \in Mains, NEW mapping \in Mappings(main)
    PROVE  IsMapping(main, mapping)
<1> DEFINE pair == [hash |-> MainHash, object |-> main]
           N == Len(Library)
<1>1. N \in Nat /\ DOMAIN Library = 1..N
  <2>1. Library \in Seq({Library[i] : i \in DOMAIN Library})
    BY TypeUseAssumption DEF TypeUseAssumption
  <2> QED BY <2>1
<1>2. IsStruct(main) /\ main.name = MainName
  BY TypeUseAssumption DEF TypeUseAssumption
<1>3. \A i \in 1..N : /\ IsObject(Library[i].object)
                      /\ Library[i].hash # MainHash /\ Library[i].object.name # MainName
                      /\ \A j \in 1..N : (\/ Library[i].hash = Library[j].hash
                                          \/ Library[i].object.name = Library[j].object.name)
                                           => i = j
  BY <1>1, TypeUseAssumption DEF TypeUseAssumption
<1>4. IsObject(main) /\ pair.hash = MainHash /\ pair.object = main
  BY TypeUseAssumption DEF TypeUseAssumption
<1>5. CASE mapping = <<pair>> \o Library
  <2>1. /\ Len(mapping) = N + 1 /\ DOMAIN mapping = 1..(N + 1)
        /\ mapping[1] = pair /\ \A i \in 2..(N + 1) : mapping[i] = Library[i - 1]
    <3>1. Library \in Seq({Library[i] : i \in DOMAIN Library} \cup {pair})
      BY <1>1, TypeUseAssumption DEF TypeUseAssumption
    <3>2. <<pair>> \in Seq({Library[i] : i \in DOMAIN Library} \cup {pair})
      OBVIOUS
    <3> HIDE DEF pair
    <3> QED BY <1>1, <1>5, <3>1, <3>2
  <2>2. \A i \in DOMAIN mapping : i = 1 \/ (i \in 2..(N + 1) /\ i - 1 \in 1..N)
    BY <1>1, <2>1
  <2> HIDE DEF pair
  <2>3. \A i \in DOMAIN mapping : IsObject(mapping[i].object)
    BY <1>3, <1>4, <2>1, <2>2
  <2>4. \A i, j \in DOMAIN mapping : (\/ mapping[i].hash = mapping[j].hash
                                      \/ mapping[i].object.name = mapping[j].object.name) => i = j
    BY <1>1, <1>2, <1>3, <1>4, <2>1, <2>2
  <2> QED BY <1>1, <1>2, <2>1, <2>3, <2>4 DEF IsMapping, pair
<1>6. CASE mapping = Library \o <<pair>>
  <2>1. /\ Len(mapping) = N + 1 /\ DOMAIN mapping = 1..(N + 1)
        /\ mapping[N + 1] = pair /\ \A i \in 1..N : mapping[i] = Library[i]
    <3>1. Library \in Seq({Library[i] : i \in DOMAIN Library} \cup {pair})
      BY <1>1, TypeUseAssumption DEF TypeUseAssumption
    <3>2. <<pair>> \in Seq({Library[i] : i \in DOMAIN Library} \cup {pair})
      OBVIOUS
    <3> HIDE DEF pair
    <3> QED BY <1>1, <1>6, <3>1, <3>2
  <2>2. \A i \in DOMAIN mapping : i = N + 1 \/ i \in 1..N
    BY <1>1, <2>1
  <2> HIDE DEF pair
  <2>3. \A i \in DOMAIN mapping : IsObject(mapping[i].object)
    BY <1>3, <1>4, <2>1, <2>2
  <2>4. \A i, j \in DOMAIN mapping : (\/ mapping[i].hash = mapping[j].hash
                                      \/ mapping[i].object.name = mapping[j].object.name) => i = j
    BY <1>1, <1>2, <1>3, <1>4, <2>1, <2>2
  <2> QED BY <1>1, <1>2, <2>1, <2>3, <2>4 DEF IsMapping, pair
<1> QED BY <1>5, <1>6 DEF Mappings

\* The smallest of one number.
LEMMA MinOfOne ==
    ASSUME NEW i \in Nat
    PROVE  Min({i}) = i
<1>1. \A y \in {i} : i <= y
  OBVIOUS
<1> QED BY <1>1 DEF Min

\* There is at most one object under a hash.
LEMMA ObjectFound ==
    ASSUME NEW main, NEW mapping, IsMapping(main, mapping), NEW hash
    PROVE  \/ /\ ObjectOf(hash, mapping) = NoType
              /\ \A i \in DOMAIN mapping : mapping[i].hash # hash
           \/ \E i \in DOMAIN mapping :
                 mapping[i].hash = hash /\ ObjectOf(hash, mapping) = mapping[i].object
<1> DEFINE hits == {i \in DOMAIN mapping : mapping[i].hash = hash}
<1>1. CASE hits = {}
  BY <1>1 DEF ObjectOf
<1>2. ASSUME NEW i \in hits PROVE hits = {i} /\ i \in Nat
  BY DEF IsMapping
<1>3. CASE hits # {}
  <2>1. PICK i \in hits : TRUE
    BY <1>3
  <2>2. Min(hits) = i
    BY <1>2, <2>1, MinOfOne
  <2> QED BY <2>1, <2>2 DEF ObjectOf
<1> QED BY <1>1, <1>3

LEMMA ObjectIsObject ==
    ASSUME NEW main, NEW mapping, IsMapping(main, mapping), NEW hash,
           ObjectOf(hash, mapping).d # NoType.d
    PROVE  IsObject(ObjectOf(hash, mapping))
<1>1. PICK i \in DOMAIN mapping : ObjectOf(hash, mapping) = mapping[i].object
  BY ObjectFound
<1> QED BY <1>1 DEF IsMapping

\* A search for one kind finds it, if it is of this kind.
LEMMA KindFound ==
    ASSUME NEW main, NEW mapping, IsMapping(main, mapping), NEW hash,
           NEW kind \in {"STRUCTURE", "ENUM", "UNION"}
    PROVE  FindByHash(kind, hash, mapping) =
              IF ObjectOf(hash, mapping).d = kind THEN ObjectOf(hash, mapping) ELSE NoType
<1> DEFINE hits == {i \in DOMAIN mapping : mapping[i].hash = hash /\ mapping[i].object.d = kind}
<1>1. CASE ObjectOf(hash, mapping) = NoType /\ \A i \in DOMAIN mapping : mapping[i].hash # hash
  <2>1. hits = {} /\ NoType.d # kind
    BY <1>1 DEF NoType
  <2> QED BY <1>1, <2>1 DEF FindByHash
<1>2. ASSUME NEW i \in DOMAIN mapping,
             mapping[i].hash = hash, ObjectOf(hash, mapping) = mapping[i].object
      PROVE  FindByHash(kind, hash, mapping) =
               IF ObjectOf(hash, mapping).d = kind THEN ObjectOf(hash, mapping) ELSE NoType
  <2>1. i \in Nat /\ \A j \in DOMAIN mapping : mapping[j].hash = hash => j = i
    BY <1>2 DEF IsMapping
  <2>2. CASE mapping[i].object.d = kind
    <3>1. hits = {i}
      BY <1>2, <2>1, <2>2
    <3>2. Min(hits) = i
      BY <2>1, <3>1, MinOfOne
    <3> QED BY <1>2, <2>2, <3>1, <3>2 DEF FindByHash
  <2>3. CASE mapping[i].object.d # kind
    <3>1. hits = {}
      BY <2>1, <2>3
    <3> QED BY <1>2, <2>3, <3>1 DEF FindByHash
  <2> QED BY <2>2, <2>3
<1> QED BY <1>1, <1>2, ObjectFound

\* The main struct is found by its name and by its hash.
LEMMA MainFound ==
    ASSUME NEW main, NEW mapping, IsMapping(main, mapping)
    PROVE  /\ FindStructByTypeName(MainName, mapping) = main
           /\ ObjectOf(MainHash, mapping) = main
           /\ main.d = "STRUCTURE" /\ main # NoType
<1> DEFINE pair == [hash |-> MainHash, object |-> main]
<1>1. pair.hash = MainHash /\ pair.object = main
  OBVIOUS
<1>2. PICK i \in DOMAIN mapping : mapping[i] = pair
  BY DEF IsMapping
<1> HIDE DEF pair
<1>3. main.d = "STRUCTURE" /\ main.name = MainName /\ i \in Nat
  BY DEF IsMapping, IsStruct
<1>4. {j \in Structs(mapping) : mapping[j].object.name = MainName} = {i}
  BY <1>1, <1>2, <1>3 DEF IsMapping, Structs
<1>5. FindStructByTypeName(MainName, mapping) = main
  BY <1>1, <1>2, <1>3, <1>4, MinOfOne DEF FindStructByTypeName
<1>6. ObjectOf(MainHash, mapping) = main
  <2>1. PICK j \in DOMAIN mapping :
            mapping[j].hash = MainHash /\ ObjectOf(MainHash, mapping) = mapping[j].object
    BY <1>1, <1>2, ObjectFound
  <2>2. j = i
    BY <1>1, <1>2, <2>1 DEF IsMapping
  <2> QED BY <1>1, <1>2, <2>1, <2>2
<1>7. NoType.d = "none"
  BY DEF NoType
<1> QED BY <1>3, <1>5, <1>6, <1>7

-----------------------------------------------------------------------------
(* One kind of type after the other.                                       *)

LEMMA PrimitiveAgrees ==
    ASSUME NEW tid, IsPrimitive(tid), NEW x \in Numbers[Width[tid.d]], NEW bytes \in Bytes,
           NEW all \in Bytes
    PROVE  AsMeant(Sample(Leaf(x), Put(bytes, Width[tid.d], x)),
                   FormatPrimitive(tid, all, Len(bytes)), all, bytes)
<1> DEFINE w == Width[tid.d]
           p == Put(bytes, w, x)
<1>1. w \in {1, 2, 4, 8}
  BY DEF IsPrimitive, Width
<1> HIDE DEF w
<1>2. w \in Widths /\ x \in Bytes /\ Len(x) = w
  BY <1>1, TypeUseAssumption DEF TypeUseAssumption, Widths, w
<1>3. p \in Bytes /\ Begins(p, bytes)
  BY <1>2, PutFacts
<1>4. Begins(all, p) => ReadPrimitive(w, all, Len(bytes)) = [bytes |-> x, at |-> Len(p)]
  BY <1>2, ReadsWhatWasPut
<1> HIDE DEF p
<1>5. Begins(all, p) => FormatPrimitive(tid, all, Len(bytes)) = Read(Leaf(x), Len(p))
  BY <1>4 DEF FormatPrimitive, w
<1>6. Sample(Leaf(x), p).bytes = p /\ Sample(Leaf(x), p).node = Leaf(x)
  BY DEF Sample
<1>7. AsMeant(Sample(Leaf(x), p), FormatPrimitive(tid, all, Len(bytes)), all, bytes)
  BY <1>3, <1>5, <1>6 DEF AsMeant
<1> QED BY <1>7 DEF p, w

LEMMA TextAgrees ==
    ASSUME NEW x \in Texts, NEW bytes \in Bytes, NEW all \in Bytes
    PROVE  AsMeant(Sample(Leaf(x), PutText(bytes, x)),
                   Read(Leaf(ReadString(all, Len(bytes)).bytes), ReadString(all, Len(bytes)).at),
                   all, bytes)
<1>1. x \in Bytes /\ Len(x) + 1 \in Int32
  BY TypeUseAssumption DEF TypeUseAssumption
<1>2. /\ PutText(bytes, x) \in Bytes /\ Begins(PutText(bytes, x), bytes)
      /\ Begins(all, PutText(bytes, x)) =>
            ReadString(all, Len(bytes)) = [bytes |-> x, at |-> Len(PutText(bytes, x))]
  BY <1>1, ReadsTheText
<1> QED BY <1>2 DEF AsMeant, Sample

LEMMA ManyElements ==
    ASSUME NEW n \in Nat, NEW tid
    PROVE  /\ Len(Repeated(n, tid)) \in Nat
           /\ \A i \in 1..Len(Repeated(n, tid)) : Repeated(n, tid)[i].type = tid
<1>1. Len(Repeated(n, tid)) = n
  BY DEF Repeated
<1>2. Member("", tid).type = tid
  BY DEF Member
<1> QED BY <1>1, <1>2 DEF Repeated

\* The elements of a list that is not longer than the bound.
LEMMA ListAgrees ==
    ASSUME NEW n \in Nat, n <= MaxElements, NEW format, NEW tid \in Types, NEW mapping,
           NEW look, NEW nested, NEW all \in Bytes, Agrees(look, nested, all, tid),
           \/ format = "json"
           \/ tid.d = "EK_COMPLETE" => FindByHash("STRUCTURE", tid.hash, mapping) # NoType
           \/ \A b \in Bytes : nested[tid][b] = {},
           NEW bytes \in Bytes, NEW v \in ListSamples(n, tid, nested, bytes)
    PROVE  AsMeant(v, Elements(format, n, tid, mapping, look, Len(bytes)), all, bytes)
<1>1. PICK members : members = Repeated(n, tid)
  OBVIOUS
<1>2. PICK there : there = Element(format, mapping, look)
  OBVIOUS
<1>3. /\ Len(members) \in Nat
      /\ \A i \in 1..Len(members) : members[i].type = tid
  BY <1>1, ManyElements
<1>4. Agrees(there, nested, all, tid)
  <2>1. CASE \A b \in Bytes : nested[tid][b] = {}
    BY <2>1 DEF Agrees
  <2>2. CASE format = "json"
    BY <1>2, <2>2 DEF Element
  <2>3. CASE /\ format # "json"
             /\ tid.d = "EK_COMPLETE" => FindByHash("STRUCTURE", tid.hash, mapping) # NoType
    <3>1. \A at \in Nat : there[tid][at] = look[tid][at]
      BY <1>2, <2>3 DEF Element
    <3> QED BY <3>1, LengthOfBytes DEF Agrees
  <2> QED BY <2>1, <2>2, <2>3
<1>5. PICK s \in Together(members, nested, bytes) : v = Sample(List(s.items), s.bytes)
  BY <1>1 DEF ListSamples
<1>6. /\ s.bytes \in Bytes /\ Begins(s.bytes, bytes)
      /\ Begins(all, s.bytes) =>
            InTurn(members, there, Len(bytes)) = [items |-> s.items, at |-> Len(s.bytes)]
  <2>1. \A i \in 1..Len(members) : Agrees(there, nested, all, members[i].type)
    BY <1>3, <1>4
  <2> QED BY <1>3, <1>5, <2>1, InTurnAgrees
<1>7. Elements(format, n, tid, mapping, look, Len(bytes)) =
        Read(List(InTurn(members, there, Len(bytes)).items),
             InTurn(members, there, Len(bytes)).at)
  <2>1. MaxElements \in Nat
    BY TypeUseAssumption DEF TypeUseAssumption
  <2>2. (IF n < MaxElements THEN n ELSE MaxElements) = n
    BY <2>1
  <2> QED BY <1>1, <1>2, <2>2 DEF Elements
<1>8. v.bytes = s.bytes /\ v.node = List(s.items)
  BY <1>5 DEF Sample
<1> QED BY <1>6, <1>7, <1>8 DEF AsMeant

\* A struct, member by member.
LEMMA StructAgrees ==
    ASSUME NEW struct, Len(struct.members) \in Nat, NEW look, NEW nested, NEW all \in Bytes,
           \A i \in 1..Len(struct.members) : Agrees(look, nested, all, struct.members[i].type),
           NEW bytes \in Bytes, NEW v \in StructSamples(struct, nested, bytes)
    PROVE  AsMeant(v, Members(struct.members, look, Len(bytes)), all, bytes)
<1>1. PICK s \in Together(struct.members, nested, bytes) : v = Sample(Object(s.items), s.bytes)
  BY DEF StructSamples
<1>2. /\ s.bytes \in Bytes /\ Begins(s.bytes, bytes)
      /\ Begins(all, s.bytes) =>
            InTurn(struct.members, look, Len(bytes)) = [items |-> s.items, at |-> Len(s.bytes)]
  BY <1>1, InTurnAgrees
<1>3. v.bytes = s.bytes /\ v.node = Object(s.items)
  BY <1>1 DEF Sample
<1> QED BY <1>2, <1>3 DEF AsMeant, Members

\* An enumerator is printed by its name, for no other has its value.
LEMMA EnumAgrees ==
    ASSUME NEW enum, IsEnum(enum), NEW all \in Bytes, NEW bytes \in Bytes,
           NEW v \in EnumSamples(enum, bytes)
    PROVE  AsMeant(v, EnumValue(enum, all, Len(bytes)), all, bytes)
<1>1. PICK i \in DOMAIN enum.literals :
          v = Sample(Literal(enum.literals[i].name), PutNumber(bytes, 4, enum.literals[i].value))
  BY DEF EnumSamples
<1> DEFINE n == enum.literals[i].value
           p == PutNumber(bytes, 4, n)
           r == ReadPrimitive(4, all, Len(bytes))
           known == {k \in DOMAIN enum.literals : enum.literals[k].value = Number(r.bytes)}
<1>2. i \in Nat /\ n \in Int32 /\ \A k \in DOMAIN enum.literals : enum.literals[k].value = n => k = i
  <2>1. i \in DOMAIN enum.literals /\ enum.literals \in Seq([value : Int32, name : STRING])
    BY <1>1 DEF IsEnum
  <2>4. /\ Len(enum.literals) \in Nat /\ i \in 1..Len(enum.literals)
        /\ enum.literals[i] \in [value : Int32, name : STRING]
    BY <2>1, LenProperties, ElementOfSeq
  <2>2. i \in Nat /\ n \in Int32
    BY <2>4
  <2>3. \A k \in DOMAIN enum.literals : enum.literals[k].value = n => k = i
    BY <1>1 DEF IsEnum
  <2> QED BY <2>2, <2>3
<1>3. p \in Bytes /\ Begins(p, bytes)
  BY <1>2, PutNumberFacts DEF Widths
<1>4. v.bytes = p /\ v.node = Literal(enum.literals[i].name)
  BY <1>1 DEF Sample
<1>5. ASSUME Begins(all, p)
      PROVE  EnumValue(enum, all, Len(bytes)) = Read(Literal(enum.literals[i].name), Len(p))
  <2>1. Number(r.bytes) = n /\ r.at = Len(p)
    BY <1>2, <1>5, ReadsTheNumber
  <2>2. EnumValue(enum, all, Len(bytes)) =
          Read(IF known = {} THEN Leaf(r.bytes) ELSE Literal(enum.literals[Min(known)].name), r.at)
    BY DEF EnumValue
  <2> HIDE DEF r, p
  <2>3. known = {i}
    BY <1>2, <2>1
  <2>4. Min({i}) = i
    BY <1>2, MinOfOne
  <2> HIDE DEF known
  <2> QED BY <2>1, <2>2, <2>3, <2>4
<1> HIDE DEF p
<1> QED BY <1>3, <1>4, <1>5 DEF AsMeant

-----------------------------------------------------------------------------
(* Unions, and all kinds together.                                         *)

\* A branch is printed that has the discriminator among its labels: no other has it.
LEMMA UnionAgrees ==
    ASSUME NEW union, IsUnion(union),
           DiscriminatorSize(union) = DiscriminatorWidth(union.discriminator),
           \A i \in DOMAIN union.members : union.members[i].labels # {},
           NEW look, NEW nested, NEW all \in Bytes,
           \A i \in DOMAIN union.members : Agrees(look, nested, all, union.members[i].type),
           NEW bytes \in Bytes, NEW v \in UnionSamples(union, nested, bytes)
    PROVE  AsMeant(v, UnionValue(union, all, look, Len(bytes)), all, bytes)
<1> DEFINE w == DiscriminatorSize(union)
<1>1. PICK i \in DOMAIN union.members : \E n \in Selecting(union, union.members[i]) :
          v \in BranchSamples(union.members[i], n, nested, PutNumber(bytes, w, n))
  BY DEF UnionSamples
<1>2. PICK n \in Selecting(union, union.members[i]) :
          v \in BranchSamples(union.members[i], n, nested, PutNumber(bytes, w, n))
  BY <1>1
<1> DEFINE b == union.members[i]
           p == PutNumber(bytes, w, n)
           r == ReadPrimitive(w, all, Len(bytes))
           chosen(k) == {j \in DOMAIN union.members : k \in union.members[j].labels}
           d(k) == Field("_d", Leaf(LittleEndian(4, k)))
<1>3. w \in {4, 8}
  BY DEF DiscriminatorWidth
<1>4. /\ i \in Nat /\ n \in b.labels /\ n \in Int32
      /\ \A j \in DOMAIN union.members : n \in union.members[j].labels => j = i
  <2>1. n \in b.labels
    BY <1>1, <1>2 DEF Selecting
  <2>2. union.members \in Seq([name : STRING, type : Types, labels : SUBSET Int32])
    BY DEF IsUnion
  <2>3. /\ Len(union.members) \in Nat /\ i \in 1..Len(union.members)
        /\ b \in [name : STRING, type : Types, labels : SUBSET Int32]
    BY <1>1, <2>2, LenProperties, ElementOfSeq
  <2>4. \A j \in DOMAIN union.members : n \in union.members[j].labels => j = i
    BY <1>1, <2>1 DEF IsUnion
  <2> QED BY <2>1, <2>3, <2>4
<1>5. PICK x \in nested[b.type][p] :
          v = Sample(Object(<<d(n), Field(b.name, x.node)>>), x.bytes)
  BY <1>2 DEF BranchSamples
<1>6. v.bytes = x.bytes /\ v.node = Object(<<d(n), Field(b.name, x.node)>>)
  BY <1>5 DEF Sample
<1>7. w \in Widths /\ p \in Bytes /\ Begins(p, bytes)
  BY <1>3, <1>4, PutNumberFacts DEF Widths
<1>8. Agrees(look, nested, all, b.type)
  BY <1>1
<1>9. Begins(all, p) => Number(r.bytes) = n /\ r.at = Len(p)
  BY <1>3, <1>4, ReadsTheNumber
<1> DEFINE value(k, at) ==
             LET c == union.members[Min(chosen(k))]
                 y == look[c.type][at]
             IN IF chosen(k) = {} THEN Read(Object(<<d(k)>>), at)
                ELSE Read(Object(<<d(k), Field(c.name, y.node)>>), y.at)
<1>10. UnionValue(union, all, look, Len(bytes)) = value(Number(r.bytes), r.at)
  BY DEF UnionValue
<1>11. chosen(n) = {i} /\ Min(chosen(n)) = i
  <2>1. chosen(n) = {i}
    BY <1>1, <1>4
  <2> HIDE DEF chosen
  <2> QED BY <1>4, <2>1, MinOfOne
<1> HIDE DEF w, p, r, chosen, d
<1>12. /\ x.bytes \in Bytes /\ Begins(x.bytes, p)
       /\ Begins(all, x.bytes) => look[b.type][Len(p)] = Read(x.node, Len(x.bytes))
  BY <1>5, <1>7, <1>8 DEF Agrees, AsMeant
<1>13. Begins(x.bytes, bytes)
  BY <1>7, <1>12, BeginsTransitive
<1>14. ASSUME Begins(all, x.bytes)
       PROVE  UnionValue(union, all, look, Len(bytes)) =
                Read(Object(<<d(n), Field(b.name, x.node)>>), Len(x.bytes))
  <2>1. Begins(all, p)
    BY <1>7, <1>12, <1>14, BeginsTransitive
  <2>2. Number(r.bytes) = n /\ r.at = Len(p)
    BY <1>9, <2>1
  <2>3. look[b.type][r.at] = Read(x.node, Len(x.bytes))
    BY <1>12, <1>14, <2>2
  <2>4. chosen(n) # {}
    BY <1>11
  <2>5. value(n, Len(p)) = Read(Object(<<d(n), Field(b.name, x.node)>>), Len(x.bytes))
    <3> DEFINE y == look[b.type][Len(p)]
    <3>1. value(n, Len(p)) = Read(Object(<<d(n), Field(b.name, y.node)>>), y.at)
      BY <1>11, <2>4
    <3>2. y.node = x.node /\ y.at = Len(x.bytes)
      BY <2>2, <2>3 DEF Read
    <3> HIDE DEF y, value
    <3> QED BY <3>1, <3>2
  <2> HIDE DEF value
  <2> QED BY <1>10, <2>2, <2>5
<1> QED BY <1>6, <1>12, <1>13, <1>14 DEF AsMeant

\* What is known of the types inside a type: they agree, and are printable if they occur.
Known(look, nested, all, format, part, mapping) ==
    \A p \in Inside(part, mapping) :
        /\ Agrees(look, nested, all, p[1])
        /\ Printable(format, p, mapping) \/ \A b \in Bytes : nested[p[1]][b] = {}

\* A reference to a struct, an enumeration or a union.
LEMMA ReferenceAgrees ==
    ASSUME NEW main, NEW mapping, IsMapping(main, mapping), NEW format,
           NEW tid, NEW list, tid.d = "EK_COMPLETE", Printable(format, <<tid, list>>, mapping),
           NEW look, NEW nested, NEW all \in Bytes,
           Known(look, nested, all, format, <<tid, list>>, mapping),
           NEW bytes \in Bytes, NEW v \in SamplesOf(tid, mapping, nested, bytes)
    PROVE  AsMeant(v, Value(format, tid, mapping, all, look, Len(bytes)), all, bytes)
<1> DEFINE t == ObjectOf(tid.hash, mapping)
           part == <<tid, list>>
<1>1. ~IsPrimitive(tid) /\ ~IsList(tid)
  BY DEF IsPrimitive, IsList, Width
<1>2. /\ KindOf(tid, mapping) = t.d /\ t.d \notin {"ALIAS", NoType.d}
      /\ t.d = "UNION" => /\ DiscriminatorSize(t) = DiscriminatorWidth(t.discriminator)
                          /\ \A i \in DOMAIN t.members : t.members[i].labels # {}
  BY DEF Printable, KindOf
<1>3. IsObject(t) /\ t # NoType
  BY <1>2, ObjectIsObject
<1>4. Value(format, tid, mapping, all, look, Len(bytes)) =
        Referred(tid.hash, mapping, all, look, Len(bytes))
  BY <1>1 DEF Value
<1>5. /\ FindByHash("STRUCTURE", tid.hash, mapping) = IF t.d = "STRUCTURE" THEN t ELSE NoType
      /\ FindByHash("ENUM", tid.hash, mapping) = IF t.d = "ENUM" THEN t ELSE NoType
      /\ FindByHash("UNION", tid.hash, mapping) = IF t.d = "UNION" THEN t ELSE NoType
  BY KindFound
<1>6. v \in CASE t.d = "STRUCTURE" -> StructSamples(t, nested, bytes)
              [] t.d = "ENUM"      -> EnumSamples(t, bytes)
              [] t.d = "UNION"     -> UnionSamples(t, nested, bytes)
              [] t.d = "ALIAS"     -> nested[t.of][bytes]
              [] t = NoType        -> {}
  BY <1>1 DEF SamplesOf
<1>7. Inside(part, mapping) =
        CASE t.d \in {"STRUCTURE", "UNION"} ->
                {<<t.members[i].type, FALSE>> : i \in DOMAIN t.members}
          [] t.d = "ALIAS" -> {<<t.of, FALSE>>}
          [] t.d \notin {"STRUCTURE", "UNION", "ALIAS"} -> {}
  BY <1>1 DEF Inside
<1> HIDE DEF t
<1>8. t.d \in {"STRUCTURE", "UNION"} =>
        \A i \in DOMAIN t.members : Agrees(look, nested, all, t.members[i].type)
  <2>1. ASSUME t.d \in {"STRUCTURE", "UNION"}, NEW i \in DOMAIN t.members
        PROVE  Agrees(look, nested, all, t.members[i].type)
    <3>1. <<t.members[i].type, FALSE>> \in Inside(part, mapping)
      BY <1>7, <2>1
    <3> QED BY <3>1 DEF Known
  <2> QED BY <2>1
<1>9. CASE t.d = "STRUCTURE"
  <2>1. v \in StructSamples(t, nested, bytes)
    BY <1>6, <1>9
  <2>2. Referred(tid.hash, mapping, all, look, Len(bytes)) = Members(t.members, look, Len(bytes))
    BY <1>3, <1>5, <1>9 DEF Referred
  <2>3. t.members \in Seq([name : STRING, type : Types])
    BY <1>3, <1>9 DEF IsObject, IsStruct, IsEnum, IsUnion, IsAlias
  <2>4. Len(t.members) \in Nat /\ DOMAIN t.members = 1..Len(t.members)
    BY <2>3, LenProperties
  <2> QED BY <1>4, <1>8, <1>9, <2>1, <2>2, <2>4, StructAgrees
<1>10. CASE t.d = "ENUM"
  <2>1. v \in EnumSamples(t, bytes)
    BY <1>6, <1>10
  <2>2. Referred(tid.hash, mapping, all, look, Len(bytes)) = EnumValue(t, all, Len(bytes))
    BY <1>3, <1>5, <1>10 DEF Referred
  <2>3. IsEnum(t)
    BY <1>3, <1>10 DEF IsObject, IsStruct, IsUnion, IsAlias
  <2> QED BY <1>4, <2>1, <2>2, <2>3, EnumAgrees
<1>11. CASE t.d = "UNION"
  <2>1. v \in UnionSamples(t, nested, bytes)
    BY <1>6, <1>11
  <2>2. Referred(tid.hash, mapping, all, look, Len(bytes)) =
          UnionValue(t, all, look, Len(bytes))
    BY <1>3, <1>5, <1>11 DEF Referred
  <2>3. IsUnion(t)
    BY <1>3, <1>11 DEF IsObject, IsStruct, IsEnum, IsAlias
  <2> QED BY <1>2, <1>4, <1>8, <1>11, <2>1, <2>2, <2>3, UnionAgrees
<1>12. t.d \in {"STRUCTURE", "ENUM", "UNION"}
  BY <1>2, <1>3 DEF IsObject, IsStruct, IsEnum, IsUnion, IsAlias
<1> QED BY <1>9, <1>10, <1>11, <1>12

\* The samples of a type are printed as they are meant, if those inside it are.
LEMMA ValueAgrees ==
    ASSUME NEW main, NEW mapping, IsMapping(main, mapping),
           NEW format \in {"yaml", "json"},
           NEW tid \in Types, NEW list, Printable(format, <<tid, list>>, mapping),
           NEW look, NEW nested, NEW all \in Bytes,
           Known(look, nested, all, format, <<tid, list>>, mapping),
           NEW bytes \in Bytes, NEW v \in SamplesOf(tid, mapping, nested, bytes)
    PROVE  AsMeant(v, Value(format, tid, mapping, all, look, Len(bytes)), all, bytes)
<1>1. IsTypeIdentifier(tid) /\ (tid.d = "ARRAY" => Product(tid.bounds) \in 0..MaxElements)
  BY TypeUseAssumption DEF TypeUseAssumption
<1>2. MaxElements \in Nat /\ Lengths \subseteq 0..MaxElements /\ Lengths \subseteq Int32
  BY TypeUseAssumption DEF TypeUseAssumption
<1>3. CASE IsPrimitive(tid)
  <2>1. PICK x \in Numbers[Width[tid.d]] : v = Sample(Leaf(x), Put(bytes, Width[tid.d], x))
    BY <1>3 DEF SamplesOf, IsPrimitive, Width
  <2>2. Value(format, tid, mapping, all, look, Len(bytes)) = FormatPrimitive(tid, all, Len(bytes))
    BY <1>3 DEF Value, IsPrimitive, Width
  <2> QED BY <1>3, <2>1, <2>2, PrimitiveAgrees
<1>4. CASE tid.d = "STRING8"
  <2>1. PICK x \in Texts : v = Sample(Leaf(x), PutText(bytes, x))
    BY <1>4 DEF SamplesOf, IsPrimitive, Width
  <2>2. Value(format, tid, mapping, all, look, Len(bytes)) =
          Read(Leaf(ReadString(all, Len(bytes)).bytes), ReadString(all, Len(bytes)).at)
    BY <1>4 DEF Value, IsPrimitive, Width
  <2> QED BY <2>1, <2>2, TextAgrees
<1>5. ASSUME IsList(tid)
      PROVE  /\ tid.element \in Types /\ Agrees(look, nested, all, tid.element)
             /\ \/ format = "json"
                \/ tid.element.d = "EK_COMPLETE" =>
                      FindByHash("STRUCTURE", tid.element.hash, mapping) # NoType
                \/ \A b \in Bytes : nested[tid.element][b] = {}
  <2> DEFINE e == tid.element
             t == ObjectOf(e.hash, mapping)
  <2>1. e \in Types
    BY <1>1, <1>5 DEF IsTypeIdentifier, IsList, IsPrimitive, Width
  <2>2. <<e, TRUE>> \in Inside(<<tid, list>>, mapping)
    BY <1>5 DEF Inside, IsList, IsPrimitive, Width
  <2>3. /\ Agrees(look, nested, all, e)
        /\ Printable(format, <<e, TRUE>>, mapping) \/ \A b \in Bytes : nested[e][b] = {}
    BY <2>2 DEF Known
  <2> HIDE DEF e
  <2>4. ASSUME Printable(format, <<e, TRUE>>, mapping), format # "json", e.d = "EK_COMPLETE"
        PROVE  FindByHash("STRUCTURE", e.hash, mapping) # NoType
    <3>1. t.d \notin {"ALIAS", NoType.d} /\ (format = "yaml" => t.d \notin {"ENUM", "UNION"})
      BY <2>4 DEF Printable, KindOf
    <3>2. IsObject(t) /\ t # NoType
      BY <3>1, ObjectIsObject
    <3>3. FindByHash("STRUCTURE", e.hash, mapping) = IF t.d = "STRUCTURE" THEN t ELSE NoType
      BY KindFound
    <3> HIDE DEF t
    <3>4. t.d = "STRUCTURE"
      BY <2>4, <3>1, <3>2 DEF IsObject, IsStruct, IsEnum, IsUnion, IsAlias
    <3> QED BY <3>2, <3>3, <3>4
  <2> QED BY <2>1, <2>3, <2>4 DEF e
<1>6. CASE tid.d = "SEQUENCE"
  <2>1. PICK n \in Lengths : v \in ListSamples(n, tid.element, nested, PutNumber(bytes, 4, n))
    BY <1>6 DEF SamplesOf, IsPrimitive, Width
  <2> DEFINE p == PutNumber(bytes, 4, n)
             r == ReadPrimitive(4, all, Len(bytes))
  <2>2. n \in Nat /\ n <= MaxElements /\ n \in Int32
    BY <1>2
  <2>3. p \in Bytes /\ Begins(p, bytes)
    BY <2>2, PutNumberFacts DEF Widths
  <2>4. Begins(all, p) => Number(r.bytes) = n /\ r.at = Len(p)
    BY <2>2, ReadsTheNumber
  <2>5. Value(format, tid, mapping, all, look, Len(bytes)) =
          Elements(format, Number(r.bytes), tid.element, mapping, look, r.at)
    BY <1>6 DEF Value, IsPrimitive, Width
  <2> HIDE DEF p, r
  <2>6. AsMeant(v, Elements(format, n, tid.element, mapping, look, Len(p)), all, p)
    BY <1>5, <1>6, <2>1, <2>2, <2>3, ListAgrees DEF IsList, p
  <2>7. v.bytes \in Bytes /\ Begins(v.bytes, bytes)
    BY <2>3, <2>6, BeginsTransitive DEF AsMeant
  <2>8. ASSUME Begins(all, v.bytes)
        PROVE  Value(format, tid, mapping, all, look, Len(bytes)) = Read(v.node, Len(v.bytes))
    <3>1. Begins(all, p)
      BY <2>3, <2>6, <2>8, BeginsTransitive DEF AsMeant
    <3> QED BY <2>4, <2>5, <2>6, <2>8, <3>1 DEF AsMeant
  <2> QED BY <2>7, <2>8 DEF AsMeant
<1>7. CASE tid.d = "ARRAY"
  <2> DEFINE n == Product(tid.bounds)
  <2>1. n \in Nat /\ n <= MaxElements
    BY <1>1, <1>2, <1>7
  <2>2. v \in ListSamples(n, tid.element, nested, bytes)
    BY <1>7 DEF SamplesOf, IsPrimitive, Width
  <2>3. Value(format, tid, mapping, all, look, Len(bytes)) =
          Elements(format, n, tid.element, mapping, look, Len(bytes))
    BY <1>7 DEF Value, IsPrimitive, Width
  <2> HIDE DEF n
  <2> QED BY <1>5, <1>7, <2>1, <2>2, <2>3, ListAgrees DEF IsList
<1>8. CASE tid.d = "EK_COMPLETE"
  BY <1>8, ReferenceAgrees
<1> QED BY <1>1, <1>3, <1>4, <1>6, <1>7, <1>8 DEF IsTypeIdentifier

-----------------------------------------------------------------------------
(* Types of any depth, and what echo prints.                               *)

LEMMA InsideIsTyped ==
    ASSUME NEW main, NEW mapping, IsMapping(main, mapping),
           NEW part \in Types \X BOOLEAN, NEW p \in Inside(part, mapping)
    PROVE  p \in Types \X BOOLEAN
<1> DEFINE tid == part[1]
           t == ObjectOf(tid.hash, mapping)
<1>1. tid \in Types /\ IsTypeIdentifier(tid)
  BY TypeUseAssumption DEF TypeUseAssumption
<1>2. CASE IsList(tid)
  <2>1. tid.element \in Types
    BY <1>1, <1>2 DEF IsTypeIdentifier, IsList, IsPrimitive, Width
  <2>2. p = <<tid.element, TRUE>>
    <3>1. ~IsPrimitive(tid) /\ tid.d # "STRING8" /\ tid.d # "EK_COMPLETE"
      BY <1>2 DEF IsPrimitive, IsList, Width
    <3> QED BY <1>2, <3>1 DEF Inside
  <2> QED BY <2>1, <2>2
<1>3. CASE IsPrimitive(tid) \/ tid.d = "STRING8"
  BY <1>3 DEF Inside, IsPrimitive, IsList, Width
<1>4. CASE tid.d = "EK_COMPLETE"
  <2>1. p \in CASE t.d \in {"STRUCTURE", "UNION"} ->
                     {<<t.members[i].type, FALSE>> : i \in DOMAIN t.members}
                [] t.d = "ALIAS" -> {<<t.of, FALSE>>}
                [] t.d \notin {"STRUCTURE", "UNION", "ALIAS"} -> {}
    BY <1>4 DEF Inside, IsPrimitive, IsList, Width
  <2>2. t.d # NoType.d => IsObject(t)
    BY ObjectIsObject
  <2>3. NoType.d = "none"
    BY DEF NoType
  <2> HIDE DEF t
  <2>4. CASE t.d \in {"STRUCTURE", "UNION"}
    <3>1. PICK i \in DOMAIN t.members : p = <<t.members[i].type, FALSE>>
      BY <2>1, <2>4
    <3>2. \/ t.members \in Seq([name : STRING, type : Types])
          \/ t.members \in Seq([name : STRING, type : Types, labels : SUBSET Int32])
      BY <2>2, <2>3, <2>4 DEF IsObject, IsStruct, IsEnum, IsUnion, IsAlias
    <3>3. \/ t.members[i] \in [name : STRING, type : Types]
          \/ t.members[i] \in [name : STRING, type : Types, labels : SUBSET Int32]
      BY <3>1, <3>2, LenProperties, ElementOfSeq
    <3>4. t.members[i].type \in Types
      BY <3>3
    <3> QED BY <3>1, <3>4
  <2>5. CASE t.d = "ALIAS"
    <3>1. t.of \in Types
      BY <2>2, <2>3, <2>5 DEF IsObject, IsStruct, IsEnum, IsUnion, IsAlias
    <3>2. p = <<t.of, FALSE>>
      BY <2>1, <2>5
    <3> QED BY <3>1, <3>2
  <2>6. CASE t.d \notin {"STRUCTURE", "UNION", "ALIAS"}
    BY <2>1, <2>6
  <2> QED BY <2>4, <2>5, <2>6
<1> QED BY <1>1, <1>2, <1>3, <1>4 DEF IsTypeIdentifier, IsList

\* By induction over the references that are followed: the values of a type all parts of
\* which are printable are printed as they are meant.
LEMMA PrintedAsMeant ==
    ASSUME NEW main, NEW mapping, IsMapping(main, mapping),
           NEW format \in {"yaml", "json"}, NEW all \in Bytes
    PROVE  \A d \in 0..MaxDepth : \A part \in Types \X BOOLEAN :
              (\A p \in PartsUpTo(mapping)[d][part] : Printable(format, p, mapping)) =>
                 Agrees(ReadUpTo(format, mapping, all)[d], SamplesUpTo(mapping)[d], all, part[1])
<1> DEFINE look(d) == ReadUpTo(format, mapping, all)[d]
           nested(d) == SamplesUpTo(mapping)[d]
           parts(d) == PartsUpTo(mapping)[d]
           Claim(d, part) == (\A p \in parts(d)[part] : Printable(format, p, mapping)) =>
                                Agrees(look(d), nested(d), all, part[1])
           G == {d \in 0..MaxDepth : \A part \in Types \X BOOLEAN : Claim(d, part)}
<1>1. MaxDepth \in Nat
  BY TypeUseAssumption DEF TypeUseAssumption
<1>2. \A d \in 0..MaxDepth : /\ look(d) = ReadStep(format, mapping, all, look(d - 1), d)
                             /\ nested(d) = SamplesStep(mapping, nested(d - 1), d)
                             /\ parts(d) = PartsStep(mapping, parts(d - 1), d)
  BY ReadRecursion, SamplesRecursion, PartsRecursion
<1> HIDE DEF look, nested, parts
<1>3. \A tid \in Types, bytes \in Bytes : nested(0)[tid][bytes] = {}
  <2>1. 0 \in 0..MaxDepth
    BY <1>1
  <2> QED BY <1>2, <2>1 DEF SamplesStep
<1>4. 0 \in G
  BY <1>1, <1>3 DEF Agrees
<1>5. ASSUME NEW d \in 1..MaxDepth, d - 1 \in G
      PROVE  d \in G
  <2>1. d \in 0..MaxDepth /\ d - 1 \in 0..MaxDepth /\ d # 0
    BY <1>1
  <2>2. \A tid \in Types, at \in Nat :
           look(d)[tid][at] = Value(format, tid, mapping, all, look(d - 1), at)
    BY <1>2, <2>1 DEF ReadStep
  <2>3. \A tid \in Types, bytes \in Bytes :
           nested(d)[tid][bytes] = SamplesOf(tid, mapping, nested(d - 1), bytes)
    BY <1>2, <2>1 DEF SamplesStep
  <2>4. \A part \in Types \X BOOLEAN :
           parts(d)[part] = {part} \cup UNION {parts(d - 1)[p] : p \in Inside(part, mapping)}
    BY <1>2, <2>1 DEF PartsStep
  <2>5. \A part \in Types \X BOOLEAN : part \in parts(d - 1)[part] \/ d - 1 = 0
    <3>1. CASE d - 1 # 0
      BY <1>2, <2>1, <3>1 DEF PartsStep
    <3> QED BY <3>1
  <2>6. ASSUME NEW part \in Types \X BOOLEAN,
               \A p \in parts(d)[part] : Printable(format, p, mapping)
        PROVE  Agrees(look(d), nested(d), all, part[1])
    <3>1. PICK tid \in Types, list \in BOOLEAN : part = <<tid, list>>
      OBVIOUS
    <3>2. Printable(format, part, mapping)
      BY <2>4, <2>6
    <3>3. ASSUME NEW p \in Inside(part, mapping)
          PROVE  /\ Agrees(look(d - 1), nested(d - 1), all, p[1])
                 /\ Printable(format, p, mapping) \/ \A b \in Bytes : nested(d - 1)[p[1]][b] = {}
      <4>1. p \in Types \X BOOLEAN
        BY InsideIsTyped
      <4>2. parts(d - 1)[p] \subseteq parts(d)[part]
        BY <2>4, <3>3
      <4>3. Agrees(look(d - 1), nested(d - 1), all, p[1])
        BY <1>5, <2>6, <4>1, <4>2
      <4>4. Printable(format, p, mapping) \/ d - 1 = 0
        BY <2>5, <2>6, <4>1, <4>2
      <4>5. d - 1 = 0 => \A b \in Bytes : nested(d - 1)[p[1]][b] = {}
        BY <1>3, <4>1
      <4> QED BY <4>3, <4>4, <4>5
    <3>4. Known(look(d - 1), nested(d - 1), all, format, part, mapping)
      BY <3>3 DEF Known
    <3>5. ASSUME NEW bytes \in Bytes, NEW v \in nested(d)[tid][bytes]
          PROVE  AsMeant(v, look(d)[tid][Len(bytes)], all, bytes)
      <4>1. v \in SamplesOf(tid, mapping, nested(d - 1), bytes)
        BY <2>3
      <4>2. AsMeant(v, Value(format, tid, mapping, all, look(d - 1), Len(bytes)), all, bytes)
        BY <3>1, <3>2, <3>4, <4>1, ValueAgrees
      <4> QED BY <2>2, <4>2, LengthOfBytes
    <3> QED BY <3>1, <3>5 DEF Agrees
  <2> QED BY <2>1, <2>6
<1>6. 0..MaxDepth \subseteq G
  <2>1. \A d \in 1..MaxDepth : d - 1 \in G => d \in G
    BY <1>5
  <2> HIDE DEF G
  <2> QED BY <1>1, <1>4, <2>1, InductionUpTo
<1> QED BY <1>6 DEF look, nested, parts

\* So are the samples of the main struct.
LEMMA MainAgrees ==
    ASSUME NEW main, NEW mapping, IsMapping(main, mapping),
           NEW format \in {"yaml", "json"}, NEW all \in Bytes,
           \A p \in Parts(mapping) : Printable(format, p, mapping),
           NEW v \in SamplesUpTo(mapping)[MaxDepth][ByHash(MainHash)][<<>>]
    PROVE  AsMeant(v, PrintAs(format, MainName, mapping, all), all, <<>>)
<1> DEFINE look == ReadUpTo(format, mapping, all)[MaxDepth - 1]
           nested == SamplesUpTo(mapping)[MaxDepth - 1]
           tid == ByHash(MainHash)
           part == <<tid, FALSE>>
<1>1. /\ MaxDepth \in Nat /\ MaxDepth # 0
      /\ MaxDepth \in 0..MaxDepth /\ MaxDepth - 1 \in 0..MaxDepth /\ tid \in Types
  BY TypeUseAssumption DEF TypeUseAssumption
<1>2. <<>> \in Bytes /\ Len(<<>>) = 0
  BY DEF Bytes
<1>3. /\ ObjectOf(MainHash, mapping) = main /\ main.d = "STRUCTURE" /\ main # NoType
      /\ FindStructByTypeName(MainName, mapping) = main
  BY MainFound
<1>4. tid.d = "EK_COMPLETE" /\ tid.hash = MainHash
  BY DEF ByHash
<1>5. v \in StructSamples(main, nested, <<>>)
  <2>1. v \in SamplesOf(tid, mapping, nested, <<>>)
    <3>1. SamplesUpTo(mapping)[MaxDepth] = SamplesStep(mapping, nested, MaxDepth)
      BY <1>1, SamplesRecursion
    <3> HIDE DEF nested, tid
    <3> QED BY <1>1, <1>2, <3>1 DEF SamplesStep, tid
  <2> HIDE DEF tid, nested
  <2> QED BY <1>3, <1>4, <2>1 DEF SamplesOf, IsPrimitive, Width
<1>6. PrintAs(format, MainName, mapping, all) = Members(main.members, look, 0)
  BY <1>3 DEF PrintAs, PrintedStruct
<1>7. Len(main.members) \in Nat /\ DOMAIN main.members = 1..Len(main.members)
  BY LenProperties DEF IsMapping, IsStruct
<1>8. ASSUME NEW i \in 1..Len(main.members)
      PROVE  Agrees(look, nested, all, main.members[i].type)
  <2> DEFINE p == <<main.members[i].type, FALSE>>
  <2>1. p \in Inside(part, mapping)
    <3>1. /\ part[1] = tid /\ ~IsList(tid) /\ ~IsPrimitive(tid)
      BY <1>4 DEF IsList, IsPrimitive, Width
    <3> HIDE DEF tid, part
    <3> QED BY <1>3, <1>4, <1>7, <3>1 DEF Inside
  <2>2. part \in Types \X BOOLEAN
    BY <1>1
  <2>3. p \in Types \X BOOLEAN
    BY <2>1, <2>2, InsideIsTyped
  <2>4. PartsUpTo(mapping)[MaxDepth - 1][p] \subseteq Parts(mapping)
    <3>1. Parts(mapping) = {part} \cup UNION {PartsUpTo(mapping)[MaxDepth - 1][q] :
                                               q \in Inside(part, mapping)}
      <4>1. PartsUpTo(mapping)[MaxDepth] =
              PartsStep(mapping, PartsUpTo(mapping)[MaxDepth - 1], MaxDepth)
        BY <1>1, PartsRecursion
      <4>2. Parts(mapping) = PartsUpTo(mapping)[MaxDepth][part]
        BY DEF Parts
      <4> HIDE DEF part
      <4> QED BY <1>1, <2>2, <4>1, <4>2 DEF PartsStep
    <3> QED BY <2>1, <3>1
  <2>5. Agrees(look, nested, all, p[1])
    BY <1>1, <2>3, <2>4, PrintedAsMeant
  <2> QED BY <2>5
<1> HIDE DEF look, nested
<1> QED BY <1>2, <1>5, <1>6, <1>7, <1>8, StructAgrees

\* The type mapping is one of those that are sent, the sample is one of its main struct, and
\* what has been made is made of them.
UseInv ==
    /\ \E main \in Mains : types \in Mappings(main)
    /\ sample \in SamplesUpTo(types)[MaxDepth][ByHash(MainHash)][<<>>]
    /\ \/ document = Nothing
       \/ use = "yaml" /\ document = PrintYaml(MainName, types, sample.bytes)
       \/ use = "json" /\ document = PrintJson(MainName, types, sample.bytes)
    /\ schema \in {<<>>, GenerateIdl(MainName, types)}

THEOREM UseInvariant == Spec => []UseInv
<1>1. Init => UseInv
  BY DEF Init, UseInv
<1>2. UseInv /\ [Next]_vars => UseInv'
  <2> SUFFICES ASSUME UseInv, [Next]_vars
               PROVE  UseInv'
    OBVIOUS
  <2>1. CASE PrintSample
    BY <2>1 DEF UseInv, PrintSample
  <2>2. CASE WriteSchema
    BY <2>2 DEF UseInv, WriteSchema
  <2>3. CASE Done
    BY <2>3 DEF UseInv, Done, vars
  <2>4. CASE UNCHANGED vars
    BY <2>4 DEF UseInv, vars
  <2> QED BY <2>1, <2>2, <2>3, <2>4 DEF Next
<1> QED BY <1>1, <1>2, PTL DEF Spec

\* Whatever the types, a sample of printable types is printed, by both printers, as the value
\* it encodes, and read to its end.
THEOREM SamplesArePrintedAsSent == Spec => []PrintsWhatWasSent
<1>1. UseInv => PrintsWhatWasSent
  <2> SUFFICES ASSUME UseInv, \A p \in Parts(types) : Printable(use, p, types),
                      document # Nothing
               PROVE  document = Read(sample.node, Len(sample.bytes))
    BY DEF PrintsWhatWasSent, IsMeant
  <2>1. PICK main \in Mains : types \in Mappings(main)
    BY DEF UseInv
  <2>2. IsMapping(main, types)
    BY <2>1, MappingsAreProper
  <2>3. /\ use \in {"yaml", "json"}
        /\ document = PrintAs(use, MainName, types, sample.bytes)
        /\ sample \in SamplesUpTo(types)[MaxDepth][ByHash(MainHash)][<<>>]
    BY DEF UseInv, PrintYaml, PrintJson
  <2>4. sample.bytes \in Bytes
    <3>1. <<>> \in Bytes
      BY DEF Bytes
    <3>2. AsMeant(sample, PrintAs(use, MainName, types, <<>>), <<>>, <<>>)
      BY <2>2, <2>3, <3>1, MainAgrees
    <3> QED BY <3>2 DEF AsMeant
  <2>5. AsMeant(sample, PrintAs(use, MainName, types, sample.bytes), sample.bytes, <<>>)
    BY <2>2, <2>3, <2>4, MainAgrees
  <2> QED BY <2>3, <2>4, <2>5, BeginsReflexive DEF AsMeant
<1> QED BY <1>1, UseInvariant, PTL

-----------------------------------------------------------------------------
(* The text of a type, and what it means.                                  *)

\* Texts without bounds.
PlainToken ==
    [kind : {"basic"}, type : Types \cup {Octet}] \cup [kind : {"name"}, name : STRING]
        \cup {Opening, Closing}

PlainIdl == Seq(PlainToken)
AnyIdl   == Seq(IdlToken)

LEMMA PlainTokens ==
    /\ PlainToken \subseteq IdlToken /\ Opening \in PlainToken /\ Closing \in PlainToken
    /\ \A token \in PlainToken : token.kind # "bound"
    /\ \A n \in Nat : Bound(n) \in IdlToken /\ Bound(n).kind = "bound" /\ Bound(n).bound = n
    /\ \A tid \in Types : Basic(tid) \in PlainToken
    /\ \A name \in STRING : Named(name) \in PlainToken
BY DEF PlainToken, IdlToken, Opening, Closing, Bound, Basic, Named

LEMMA PlainIsIdl ==
    ASSUME NEW x \in PlainIdl
    PROVE  /\ x \in AnyIdl /\ Len(x) \in Nat /\ DOMAIN x = 1..Len(x)
           /\ \A i \in 1..Len(x) : x[i] \in PlainToken
<1>1. x \in Seq(PlainToken)
  BY DEF PlainIdl
<1>2. x \in Seq(IdlToken)
  BY <1>1, PlainTokens, SeqMonotonic
<1> QED BY <1>1, <1>2, LenProperties, ElementOfSeq DEF AnyIdl

\* One token alone.
LEMMA OneToken ==
    ASSUME NEW token \in PlainToken
    PROVE  <<token>> \in PlainIdl /\ <<token>> # <<>> /\ <<token>>[1] = token
BY DEF PlainIdl

\* A text between the brackets of a sequence.
LEMMA InSequenceFacts ==
    ASSUME NEW x \in PlainIdl
    PROVE  /\ InSequence(x) \in PlainIdl /\ InSequence(x) # <<>>
           /\ InSequence(x)[1] = Opening
           /\ SubSeq(InSequence(x), 2, Len(InSequence(x)) - 1) = x
<1>1. PICK y : y = <<Opening>> \o x
  OBVIOUS
<1>2. PICK t : t = y \o <<Closing>>
  OBVIOUS
<1>3. t = InSequence(x)
  BY <1>1, <1>2 DEF InSequence
<1>4. /\ x \in Seq(PlainToken) /\ <<Opening>> \in Seq(PlainToken) /\ <<Closing>> \in Seq(PlainToken)
      /\ Len(<<Opening>>) = 1 /\ Len(<<Closing>>) = 1 /\ <<Opening>>[1] = Opening
  BY PlainTokens DEF PlainIdl
<1>5. Len(x) \in Nat
  BY PlainIsIdl
<1>6. /\ y \in Seq(PlainToken) /\ Len(y) = 1 + Len(x)
      /\ \A i \in 1..(1 + Len(x)) : y[i] = IF i <= 1 THEN <<Opening>>[i] ELSE x[i - 1]
  <2>1. /\ <<Opening>> \o x \in Seq(PlainToken)
        /\ Len(<<Opening>> \o x) = Len(<<Opening>>) + Len(x)
        /\ \A i \in 1..(Len(<<Opening>>) + Len(x)) :
              (<<Opening>> \o x)[i] = IF i <= Len(<<Opening>>) THEN <<Opening>>[i]
                                      ELSE x[i - Len(<<Opening>>)]
    BY <1>4, ConcatProperties, Zenon
  <2> QED BY <1>1, <1>4, <2>1
<1>7. /\ t \in Seq(PlainToken) /\ Len(t) = Len(y) + 1
      /\ \A i \in 1..(Len(y) + 1) : t[i] = IF i <= Len(y) THEN y[i] ELSE <<Closing>>[i - Len(y)]
  <2>1. /\ y \o <<Closing>> \in Seq(PlainToken)
        /\ Len(y \o <<Closing>>) = Len(y) + Len(<<Closing>>)
        /\ \A i \in 1..(Len(y) + Len(<<Closing>>)) :
              (y \o <<Closing>>)[i] = IF i <= Len(y) THEN y[i] ELSE <<Closing>>[i - Len(y)]
    BY <1>4, <1>6, ConcatProperties, Zenon
  <2> QED BY <1>2, <1>4, <2>1
<1>8. \A i \in 1..Len(x) : t[i + 1] = x[i]
  <2>1. \A i \in 1..Len(x) : /\ i + 1 \in 1..(Len(y) + 1) /\ i + 1 <= Len(y)
                             /\ i + 1 \in 1..(1 + Len(x)) /\ ~(i + 1 <= 1) /\ i + 1 - 1 = i
    BY <1>5, <1>6
  <2> QED BY <1>6, <1>7, <2>1
<1>9. t[1] = Opening /\ Len(t) = Len(x) + 2
  <2>1. 1 \in 1..(Len(y) + 1) /\ 1 <= Len(y) /\ 1 \in 1..(1 + Len(x)) /\ Len(y) + 1 = Len(x) + 2
    BY <1>5, <1>6
  <2>2. y[1] = <<Opening>>[1]
    BY <1>6, <2>1
  <2>3. t[1] = y[1]
    BY <1>7, <2>1
  <2> QED BY <1>4, <1>7, <2>1, <2>2, <2>3
<1>10. SubSeq(t, 2, Len(t) - 1) = x
  <2> DEFINE n == Len(x)
             z == SubSeq(t, 2, n + 1)
  <2>1. n \in Nat /\ Len(t) - 1 = n + 1
    BY <1>5, <1>9
  <2>2. \A i \in 2..(n + 1) : t[i] \in PlainToken
    <3>1. \A i \in 2..(n + 1) : i \in 1..Len(t)
      BY <1>9, <2>1
    <3> QED BY <1>7, <3>1, ElementOfSeq
  <2> HIDE DEF n
  <2>3. /\ z \in Seq(PlainToken)
        /\ Len(z) = IF 2 <= n + 1 THEN n + 1 - 2 + 1 ELSE 0
        /\ \A i \in 1..(n + 1 - 2 + 1) : z[i] = t[2 + i - 1]
    BY <2>1, <2>2, SubSeqProperties
  <2> HIDE DEF z
  <2>4. Len(z) = n /\ \A i \in 1..n : z[i] = t[i + 1]
    <3>1. n + 1 - 2 + 1 = n /\ (\A i \in 1..n : 2 + i - 1 = i + 1) /\ (~(2 <= n + 1) => n = 0)
      BY <2>1
    <3> QED BY <2>1, <2>3, <3>1
  <2>5. z = x
    BY <1>4, <1>8, <2>3, <2>4, SeqEqual DEF n
  <2> QED BY <2>1, <2>5 DEF z
<1>11. t # <<>>
  <2>1. Len(<<>>) = 0
    OBVIOUS
  <2> QED BY <1>5, <1>9, <2>1
<1> QED BY <1>3, <1>7, <1>9, <1>10, <1>11 DEF PlainIdl

-----------------------------------------------------------------------------
(* What is split behind the name of a member.                              *)

\* A text without bounds stays as it is.
LEMMA PlainIsNotSplit ==
    ASSUME NEW name, NEW x \in PlainIdl
    PROVE  SplitArrayType(name, x) = [name |-> name, base |-> x, dims |-> <<>>]
<1>1. {i \in DOMAIN x : x[i].kind = "bound"} = {}
  BY PlainIsIdl, PlainTokens
<1> QED BY <1>1 DEF SplitArrayType

LEMMA DimensionsFacts ==
    ASSUME NEW bounds \in Seq(Nat)
    PROVE  /\ Dimensions(bounds) \in AnyIdl /\ Len(Dimensions(bounds)) = Len(bounds)
           /\ DOMAIN Dimensions(bounds) = 1..Len(bounds)
           /\ \A i \in 1..Len(bounds) : Dimensions(bounds)[i] = Bound(bounds[i])
<1>1. Len(bounds) \in Nat /\ DOMAIN bounds = 1..Len(bounds) /\ \A i \in 1..Len(bounds) : bounds[i] \in Nat
  BY LenProperties, ElementOfSeq
<1> DEFINE n == Len(bounds)
<1>2. Dimensions(bounds) = [i \in 1..n |-> Bound(bounds[i])]
  BY <1>1 DEF Dimensions
<1>3. \A i \in 1..n : Bound(bounds[i]) \in IdlToken
  BY <1>1, PlainTokens
<1>4. n \in Nat
  BY <1>1
<1> HIDE DEF n
<1>5. [i \in 1..n |-> Bound(bounds[i])] \in Seq(IdlToken)
  BY <1>3, <1>4
<1>6. Len([i \in 1..n |-> Bound(bounds[i])]) = n
  BY <1>4
<1> QED BY <1>2, <1>5, <1>6 DEF n, AnyIdl

\* Of an array, all the bounds.
LEMMA BoundsAreSplit ==
    ASSUME NEW name, NEW x \in PlainIdl, NEW bounds \in Seq(Nat), bounds # <<>>
    PROVE  SplitArrayType(name, x \o Dimensions(bounds)) =
              [name |-> name, base |-> x, dims |-> Dimensions(bounds)]
<1>1. PICK b : b = Dimensions(bounds)
  OBVIOUS
<1>2. PICK t : t = x \o b
  OBVIOUS
<1>3. /\ x \in Seq(IdlToken) /\ b \in Seq(IdlToken) /\ Len(x) \in Nat /\ Len(b) \in Nat \ {0}
  <2>1. Len(bounds) \in Nat \ {0}
    BY EmptySeq
  <2> QED BY <1>1, <2>1, PlainIsIdl, DimensionsFacts DEF AnyIdl
<1>4. /\ t \in Seq(IdlToken) /\ Len(t) = Len(x) + Len(b)
      /\ \A i \in 1..(Len(x) + Len(b)) : t[i] = IF i <= Len(x) THEN x[i] ELSE b[i - Len(x)]
  <2>1. /\ x \o b \in Seq(IdlToken) /\ Len(x \o b) = Len(x) + Len(b)
        /\ \A i \in 1..(Len(x) + Len(b)) : (x \o b)[i] = IF i <= Len(x) THEN x[i] ELSE b[i - Len(x)]
    BY <1>3, ConcatProperties
  <2> QED BY <1>2, <2>1, Zenon
<1> DEFINE m == Len(x)
           n == Len(b)
           brackets == {i \in DOMAIN t : t[i].kind = "bound"}
<1>5. m \in Nat /\ n \in Nat \ {0}
  BY <1>3
<1>6. DOMAIN t = 1..(m + n)
  BY <1>4, LenProperties
<1>7. \A i \in 1..m : t[i] = x[i] /\ t[i].kind # "bound" /\ i \in 1..(m + n)
  <2>1. \A i \in 1..m : i \in 1..(m + n) /\ i <= m
    BY <1>5
  <2> QED BY <1>4, <2>1, PlainIsIdl, PlainTokens
<1>8. \A i \in 1..n : t[m + i] = b[i] /\ t[m + i].kind = "bound" /\ m + i \in 1..(m + n)
  <2>1. \A i \in 1..n : m + i \in 1..(m + n) /\ ~(m + i <= m) /\ (m + i) - m = i
    BY <1>5
  <2>2. \A i \in 1..n : t[m + i] = b[i]
    BY <1>4, <2>1
  <2>3. \A i \in 1..n : b[i].kind = "bound"
    BY <1>1, DimensionsFacts, PlainTokens, LenProperties, ElementOfSeq
  <2> QED BY <2>1, <2>2, <2>3
<1> HIDE DEF m, n
<1>9. Min(brackets) = m + 1 /\ brackets # {}
  <2>1. m + 1 \in brackets
    BY <1>5, <1>6, <1>8
  <2>2. \A i \in brackets : m + 1 <= i
    BY <1>5, <1>6, <1>7
  <2>3. \A i \in brackets : i \in Int
    BY <1>5, <1>6
  <2> HIDE DEF brackets
  <2>4. \A i \in brackets : (\A j \in brackets : i <= j) => i = m + 1
    BY <1>5, <2>1, <2>2, <2>3
  <2> QED BY <2>1, <2>2, <2>4 DEF Min
<1>10. SubSeq(t, 1, m) = x
  <2> DEFINE z == SubSeq(t, 1, m)
  <2>1. \A i \in 1..m : t[i] \in IdlToken
    BY <1>4, <1>5, <1>7, ElementOfSeq DEF m, n
  <2>2. /\ z \in Seq(IdlToken) /\ Len(z) = IF 1 <= m THEN m - 1 + 1 ELSE 0
        /\ \A i \in 1..(m - 1 + 1) : z[i] = t[1 + i - 1]
    BY <1>5, <2>1, SubSeqProperties
  <2> HIDE DEF z
  <2>3. Len(z) = m /\ \A i \in 1..m : z[i] = x[i]
    <3>1. m - 1 + 1 = m /\ (\A i \in 1..m : 1 + i - 1 = i) /\ (~(1 <= m) => m = 0)
      BY <1>5
    <3> QED BY <1>7, <2>2, <3>1
  <2>4. z = x
    BY <1>3, <2>2, <2>3, SeqEqual DEF m
  <2> QED BY <2>4 DEF z
<1>11. SubSeq(t, m + 1, m + n) = b
  <2> DEFINE z == SubSeq(t, m + 1, m + n)
  <2>1. \A i \in (m + 1)..(m + n) : t[i] \in IdlToken
    <3>1. \A i \in (m + 1)..(m + n) : i \in 1..Len(t)
      BY <1>4, <1>5 DEF m, n
    <3> QED BY <1>4, <3>1, ElementOfSeq
  <2>2. m + 1 \in Int /\ m + n \in Int
    BY <1>5
  <2>3. /\ z \in Seq(IdlToken)
        /\ Len(z) = IF m + 1 <= m + n THEN (m + n) - (m + 1) + 1 ELSE 0
        /\ \A i \in 1..((m + n) - (m + 1) + 1) : z[i] = t[(m + 1) + i - 1]
    BY <2>1, <2>2, SubSeqProperties
  <2> HIDE DEF z
  <2>4. Len(z) = n /\ \A i \in 1..n : z[i] = b[i]
    <3>1. /\ (m + n) - (m + 1) + 1 = n /\ m + 1 <= m + n
          /\ \A i \in 1..n : (m + 1) + i - 1 = m + i
      BY <1>5
    <3> QED BY <1>8, <2>3, <3>1
  <2>5. z = b
    BY <1>3, <2>3, <2>4, SeqEqual DEF n
  <2> QED BY <2>5 DEF z
<1>12. SplitArrayType(name, t) =
         [name |-> name, base |-> SubSeq(t, 1, m), dims |-> SubSeq(t, m + 1, m + n)]
  <2>1. (m + 1) - 1 = m /\ Len(t) = m + n
    BY <1>4, <1>5 DEF m, n
  <2> QED BY <1>9, <2>1 DEF SplitArrayType
<1>13. SplitArrayType(name, t) = [name |-> name, base |-> x, dims |-> b]
  BY <1>10, <1>11, <1>12
<1> QED BY <1>1, <1>2, <1>13, Zenon

-----------------------------------------------------------------------------
(* What a text means.                                                      *)

\* The name of a struct means the type with its hash.
LEMMA NameMeans ==
    ASSUME NEW main, NEW mapping, IsMapping(main, mapping), NEW hash,
           ObjectOf(hash, mapping).d = "STRUCTURE"
    PROVE  /\ StructName(hash, mapping) = Named(ObjectOf(hash, mapping).name)
           /\ ObjectOf(hash, mapping).name \in STRING
           /\ TypeNamed(ObjectOf(hash, mapping).name, mapping) = ByHash(hash)
<1> DEFINE t == ObjectOf(hash, mapping)
<1>1. NoType.d = "none"
  BY DEF NoType
<1>2. t # NoType /\ IsObject(t)
  BY <1>1, ObjectIsObject
<1>3. PICK i \in DOMAIN mapping : mapping[i].hash = hash /\ t = mapping[i].object
  BY <1>2, ObjectFound
<1>4. FindByHash("STRUCTURE", hash, mapping) = t
  BY KindFound
<1> HIDE DEF t
<1>5. (CHOOSE k \in DOMAIN mapping : mapping[k].object.name = t.name) = i
  BY <1>3 DEF IsMapping
<1> QED BY <1>2, <1>3, <1>4, <1>5 DEF StructName, TypeNamed, IsObject, t

\* By induction over the elements of elements: the text of a type that it can express, if
\* it is not an array, has no bounds and means the type.
LEMMA TextsMeanTheirTypes ==
    ASSUME NEW main, NEW mapping, IsMapping(main, mapping)
    PROVE  \A d \in 0..MaxDepth : \A tid \in Types :
              ExpressibleUpTo(mapping)[d][tid] /\ tid.d # "ARRAY" =>
                 /\ IdlUpTo(mapping)[d][tid] \in PlainIdl
                 /\ \A e \in d..MaxDepth :
                       MeaningUpTo(mapping)[e][IdlUpTo(mapping)[d][tid]] = tid
<1> DEFINE idl(d) == IdlUpTo(mapping)[d]
           expressible(d) == ExpressibleUpTo(mapping)[d]
           meaning(d) == MeaningUpTo(mapping)[d]
           Claim(d, tid) == expressible(d)[tid] /\ tid.d # "ARRAY" =>
                               /\ idl(d)[tid] \in PlainIdl
                               /\ \A e \in d..MaxDepth : meaning(e)[idl(d)[tid]] = tid
           G == {d \in 0..MaxDepth : \A tid \in Types : Claim(d, tid)}
<1>1. MaxDepth \in Nat
  BY TypeUseAssumption DEF TypeUseAssumption
<1>2. \A d \in 0..MaxDepth : /\ idl(d) = IdlStep(mapping, idl(d - 1), d)
                             /\ expressible(d) = ExpressibleStep(mapping, expressible(d - 1), d)
                             /\ meaning(d) = MeaningStep(mapping, meaning(d - 1), d)
  BY IdlRecursion, ExpressibleRecursion, MeaningRecursion
<1> HIDE DEF idl, expressible, meaning
<1>3. 0 \in G
  <2>1. 0 \in 0..MaxDepth
    BY <1>1
  <2>2. \A tid \in Types : ~expressible(0)[tid]
    BY <1>2, <2>1 DEF ExpressibleStep
  <2> QED BY <2>1, <2>2
<1>4. ASSUME NEW d \in 1..MaxDepth, d - 1 \in G
      PROVE  d \in G
  <2>1. d \in 0..MaxDepth /\ d - 1 \in 0..MaxDepth /\ d # 0
    BY <1>1
  <2>2. ASSUME NEW tid \in Types, expressible(d)[tid], tid.d # "ARRAY"
        PROVE  idl(d)[tid] \in PlainIdl /\ \A e \in d..MaxDepth : meaning(e)[idl(d)[tid]] = tid
    <3>1. IsTypeIdentifier(tid)
      BY TypeUseAssumption DEF TypeUseAssumption
    <3>2. idl(d)[tid] = TypeidToIdl(tid, mapping, idl(d - 1))
      BY <1>2, <2>1 DEF IdlStep
    <3>3. /\ IsList(tid) => tid.element.d # "ARRAY" /\ expressible(d - 1)[tid.element]
          /\ tid.d = "EK_COMPLETE" => KindOf(tid, mapping) = "STRUCTURE"
      BY <1>2, <2>1, <2>2 DEF ExpressibleStep
    <3>4. ASSUME NEW e \in d..MaxDepth, NEW x \in PlainIdl, x # <<>>
          PROVE  meaning(e)[x] =
                   IF x[1].kind = "sequence<" THEN ListOf(meaning(e - 1)[SubSeq(x, 2, Len(x) - 1)])
                   ELSE IF x[1].kind = "name" THEN TypeNamed(x[1].name, mapping)
                   ELSE x[1].type
      <4>1. e \in 0..MaxDepth /\ e # 0
        BY <1>1, <2>1
      <4>2. x \in Seq(IdlToken)
        BY PlainIsIdl DEF AnyIdl
      <4>3. meaning(e) = MeaningStep(mapping, meaning(e - 1), e)
        BY <1>2, <4>1
      <4> QED BY <3>4, <4>1, <4>2, <4>3 DEF MeaningStep
    <3>5. CASE IsPrimitive(tid) \/ tid.d = "STRING8"
      <4>1. idl(d)[tid] = <<Basic(tid)>>
        BY <3>2, <3>5 DEF TypeidToIdl, IsPrimitive, Width
      <4>2. /\ Basic(tid) \in PlainToken /\ Basic(tid).kind = "basic" /\ Basic(tid).type = tid
        BY PlainTokens DEF Basic
      <4> QED BY <3>4, <4>1, <4>2, OneToken
    <3>6. CASE tid.d = "EK_COMPLETE"
      <4> DEFINE t == ObjectOf(tid.hash, mapping)
      <4>1. idl(d)[tid] = <<StructName(tid.hash, mapping)>>
        BY <3>2, <3>6 DEF TypeidToIdl, IsPrimitive, Width
      <4>2. t.d = "STRUCTURE"
        BY <3>3, <3>6 DEF KindOf
      <4>3. /\ StructName(tid.hash, mapping) = Named(t.name) /\ t.name \in STRING
            /\ TypeNamed(t.name, mapping) = ByHash(tid.hash)
        BY <4>2, NameMeans
      <4> HIDE DEF t
      <4>4. Named(t.name).kind = "name" /\ Named(t.name).name = t.name
        BY DEF Named
      <4>5. Named(t.name) \in PlainToken
        BY <4>3, PlainTokens
      <4>6. tid = ByHash(tid.hash)
        BY <3>1, <3>6 DEF IsTypeIdentifier, IsPrimitive, Width
      <4> QED BY <3>4, <4>1, <4>3, <4>4, <4>5, <4>6, OneToken
    <3>7. CASE tid.d = "SEQUENCE"
      <4> DEFINE element == tid.element
                 x == idl(d - 1)[element]
      <4>1. element \in Types /\ tid = ListOf(element)
        BY <3>1, <3>7 DEF IsTypeIdentifier, IsPrimitive, Width
      <4>2. idl(d)[tid] = InSequence(x)
        BY <3>2, <3>7 DEF TypeidToIdl, IsPrimitive, Width
      <4>3. expressible(d - 1)[element] /\ element.d # "ARRAY"
        BY <3>3, <3>7 DEF IsList
      <4>4. x \in PlainIdl /\ \A e \in (d - 1)..MaxDepth : meaning(e)[x] = element
        BY <1>4, <4>1, <4>3
      <4> HIDE DEF x, element
      <4>5. /\ InSequence(x) \in PlainIdl /\ InSequence(x) # <<>>
            /\ InSequence(x)[1].kind = "sequence<"
            /\ SubSeq(InSequence(x), 2, Len(InSequence(x)) - 1) = x
        BY <4>4, InSequenceFacts DEF Opening
      <4>6. ASSUME NEW e \in d..MaxDepth
            PROVE  meaning(e)[InSequence(x)] = tid
        <5>1. e - 1 \in (d - 1)..MaxDepth
          BY <1>1, <2>1
        <5>2. meaning(e)[InSequence(x)] = ListOf(meaning(e - 1)[x])
          BY <3>4, <4>5
        <5> QED BY <4>1, <4>4, <5>1, <5>2
      <4> QED BY <4>2, <4>5, <4>6
    <3> QED BY <2>2, <3>1, <3>5, <3>6, <3>7 DEF IsTypeIdentifier
  <2> QED BY <2>1, <2>2
<1>5. 0..MaxDepth \subseteq G
  <2>1. \A d \in 1..MaxDepth : d - 1 \in G => d \in G
    BY <1>4
  <2> HIDE DEF G
  <2> QED BY <1>1, <1>3, <2>1, InductionUpTo
<1> QED BY <1>5 DEF idl, expressible, meaning

\* A member of an expressible type means what it is, arrays included.
LEMMA MembersMeanTheirTypes ==
    ASSUME NEW main, NEW mapping, IsMapping(main, mapping), NEW name, NEW tid \in Types,
           ExpressibleUpTo(mapping)[MaxDepth][tid]
    PROVE  MemberMeant(SplitArrayType(name, IdlUpTo(mapping)[MaxDepth][tid]), mapping) =
              Member(name, tid)
<1> DEFINE idl == IdlUpTo(mapping)[MaxDepth]
           meaning == MeaningUpTo(mapping)[MaxDepth]
<1>1. MaxDepth \in Nat /\ MaxDepth # 0 /\ MaxDepth \in 0..MaxDepth /\ MaxDepth - 1 \in 0..MaxDepth
  BY TypeUseAssumption DEF TypeUseAssumption
<1>2. CASE tid.d # "ARRAY"
  <2>1. idl[tid] \in PlainIdl /\ meaning[idl[tid]] = tid
    BY <1>1, <1>2, TextsMeanTheirTypes
  <2> DEFINE m == SplitArrayType(name, idl[tid])
  <2>2. m.name = name /\ m.base = idl[tid] /\ m.dims = <<>>
    BY <2>1, PlainIsNotSplit
  <2> HIDE DEF m, idl
  <2>3. MemberMeant(m, mapping) = Member(name, tid)
    BY <2>1, <2>2 DEF MemberMeant
  <2> QED BY <2>3 DEF m, idl
<1>3. CASE tid.d = "ARRAY"
  <2> DEFINE element == tid.element
             x == IdlUpTo(mapping)[MaxDepth - 1][element]
  <2>1. /\ tid = ArrayOf(element, tid.bounds) /\ element \in Types
        /\ tid.bounds \in Seq(Nat) /\ tid.bounds # <<>>
    <3>1. IsTypeIdentifier(tid)
      BY TypeUseAssumption DEF TypeUseAssumption
    <3> QED BY <1>3, <3>1 DEF IsTypeIdentifier, IsPrimitive, Width
  <2>2. idl[tid] = x \o Dimensions(tid.bounds)
    <3>1. idl = IdlStep(mapping, IdlUpTo(mapping)[MaxDepth - 1], MaxDepth)
      BY <1>1, IdlRecursion
    <3>2. idl[tid] = TypeidToIdl(tid, mapping, IdlUpTo(mapping)[MaxDepth - 1])
      BY <1>1, <3>1 DEF IdlStep
    <3> QED BY <1>3, <3>2 DEF TypeidToIdl, IsPrimitive, Width
  <2>3. ExpressibleUpTo(mapping)[MaxDepth - 1][element] /\ element.d # "ARRAY"
    <3>1. ExpressibleUpTo(mapping)[MaxDepth] =
            ExpressibleStep(mapping, ExpressibleUpTo(mapping)[MaxDepth - 1], MaxDepth)
      BY <1>1, ExpressibleRecursion
    <3> QED BY <1>3, <3>1 DEF ExpressibleStep, IsList
  <2>4. x \in PlainIdl /\ meaning[x] = element
    <3>1. MaxDepth \in (MaxDepth - 1)..MaxDepth
      BY <1>1
    <3> QED BY <1>1, <2>1, <2>3, <3>1, TextsMeanTheirTypes
  <2> HIDE DEF x
  <2> DEFINE b == Dimensions(tid.bounds)
             m == SplitArrayType(name, x \o b)
  <2>5. m.name = name /\ m.base = x /\ m.dims = b
    BY <2>1, <2>4, BoundsAreSplit
  <2>6. /\ DOMAIN b = DOMAIN tid.bounds /\ b # <<>>
        /\ \A i \in DOMAIN b : b[i].bound = tid.bounds[i]
    <3>1. /\ DOMAIN b = 1..Len(tid.bounds) /\ Len(b) = Len(tid.bounds)
          /\ \A i \in 1..Len(tid.bounds) : b[i] = Bound(tid.bounds[i])
      BY <2>1, DimensionsFacts
    <3>2. DOMAIN tid.bounds = 1..Len(tid.bounds)
      BY <2>1, LenProperties
    <3>3. Len(tid.bounds) \in Nat \ {0} /\ Len(<<>>) = 0
      BY <2>1, EmptySeq
    <3> HIDE DEF b
    <3>4. b # <<>>
      BY <3>1, <3>3
    <3>5. \A n : Bound(n).bound = n
      BY DEF Bound
    <3> QED BY <3>1, <3>2, <3>4, <3>5
  <2>7. [i \in DOMAIN b |-> b[i].bound] = tid.bounds
    <3>1. tid.bounds = [i \in DOMAIN tid.bounds |-> tid.bounds[i]]
      BY <2>1
    <3> HIDE DEF b
    <3> QED BY <2>6, <3>1
  <2> HIDE DEF m, b
  <2>8. MemberMeant(m, mapping) = Member(name, ArrayOf(element, tid.bounds))
    BY <2>4, <2>5, <2>6, <2>7 DEF MemberMeant
  <2> HIDE DEF idl
  <2>9. m = SplitArrayType(name, idl[tid])
    BY <2>2, Zenon DEF m, b
  <2> QED BY <2>1, <2>8, <2>9, Zenon DEF idl
<1> QED BY <1>2, <1>3

-----------------------------------------------------------------------------
(* The declarations of a schema.                                           *)

\* What may be declared before the main struct: the enumerations and the other structs.
Declarations(main, mapping) ==
    {EnumIdl(mapping[k].object) : k \in {j \in DOMAIN mapping : mapping[j].object.d = "ENUM"}}
        \cup {StructIdl(mapping[k].object, mapping) :
                 k \in {j \in Structs(mapping) : mapping[j].object.name # main}}

\* A list of some declarations, no two of which have the same name.
IsListOf(idl, declarations) ==
    /\ idl \in Seq(declarations)
    /\ \A i, j \in 1..Len(idl) : idl[i].name = idl[j].name => i = j

LEMMA OneMoreDeclaration ==
    ASSUME NEW D, NEW idl, IsListOf(idl, D), NEW x \in D, ~Declares(idl, x.name)
    PROVE  /\ IsListOf(Append(idl, x), D)
           /\ \A i \in 1..Len(idl) : i \in 1..Len(Append(idl, x)) /\ Append(idl, x)[i] = idl[i]
           /\ Append(idl, x)[Len(idl) + 1] = x /\ Len(idl) + 1 \in 1..Len(Append(idl, x))
<1> DEFINE n == Len(idl)
<1>1. PICK t : t = Append(idl, x)
  OBVIOUS
<1>2. idl \in Seq(D) /\ \A i, j \in 1..n : idl[i].name = idl[j].name => i = j
  BY DEF IsListOf
<1>3. n \in Nat /\ DOMAIN idl = 1..n
  BY <1>2, LenProperties
<1>4. t \in Seq(D) /\ Len(t) = n + 1 /\ t[n + 1] = x /\ \A i \in 1..n : t[i] = idl[i]
  BY <1>1, <1>2
<1>5. \A i \in 1..n : idl[i].name # x.name
  BY <1>3 DEF Declares
<1> HIDE DEF n
<1>6. \A i \in 1..(n + 1) : i = n + 1 \/ i \in 1..n
  BY <1>3
<1>7. \A i, j \in 1..(n + 1) : t[i].name = t[j].name => i = j
  BY <1>2, <1>4, <1>5, <1>6
<1>8. n + 1 \in 1..(n + 1) /\ \A i \in 1..n : i \in 1..(n + 1)
  BY <1>3
<1> QED BY <1>1, <1>4, <1>7, <1>8 DEF IsListOf, n

\* The first pass declares enumerations only, each once.
LEMMA EnumsAreDeclared ==
    ASSUME NEW main, NEW mapping, Len(mapping) \in Nat, DOMAIN mapping = 1..Len(mapping)
    PROVE  IsListOf(EnumsUpTo(mapping)[Len(mapping)], Declarations(main, mapping))
<1> DEFINE N == Len(mapping)
           D == Declarations(main, mapping)
           E(i) == EnumsUpTo(mapping)[i]
           G == {i \in 0..N : IsListOf(E(i), D)}
<1>1. N \in Nat
  OBVIOUS
<1>2. \A i \in 0..N : E(i) = EnumsStep(mapping, E(i - 1), i)
  BY EnumsRecursion
<1>3. \A k \in 1..N : mapping[k].object.d = "ENUM" => EnumIdl(mapping[k].object) \in D
  BY DEF Declarations
<1> HIDE DEF N, D, E
<1>4. 0 \in G
  <2>1. 0 \in 0..N
    BY <1>1
  <2>2. E(0) = <<>>
    BY <1>2, <2>1 DEF EnumsStep
  <2>3. IsListOf(<<>>, D)
    BY EmptySeq DEF IsListOf
  <2> QED BY <2>1, <2>2, <2>3
<1>5. ASSUME NEW i \in 1..N, i - 1 \in G
      PROVE  i \in G
  <2> DEFINE o == mapping[i].object
  <2>1. i \in 0..N /\ i # 0
    BY <1>1
  <2>2. E(i) = IF o.d = "ENUM" /\ ~Declares(E(i - 1), o.name)
               THEN Append(E(i - 1), EnumIdl(o)) ELSE E(i - 1)
    BY <1>2, <2>1 DEF EnumsStep
  <2>3. EnumIdl(o).name = o.name
    BY DEF EnumIdl
  <2>4. o.d = "ENUM" => EnumIdl(o) \in D
    BY <1>3
  <2> HIDE DEF o
  <2>5. IsListOf(E(i), D)
    <3>1. CASE o.d = "ENUM" /\ ~Declares(E(i - 1), o.name)
      BY <1>5, <2>2, <2>3, <2>4, <3>1, OneMoreDeclaration
    <3>2. CASE ~(o.d = "ENUM" /\ ~Declares(E(i - 1), o.name))
      BY <1>5, <2>2, <3>2
    <3> QED BY <3>1, <3>2
  <2> QED BY <2>1, <2>5
<1>6. N \in G
  <2>1. \A i \in 1..N : i - 1 \in G => i \in G
    BY <1>5
  <2> HIDE DEF G
  <2>2. 0..N \subseteq G
    BY <1>1, <1>4, <2>1, InductionUpTo
  <2> QED BY <1>1, <2>2
<1> QED BY <1>6 DEF N, D, E

\* What has a struct's name among the declarations is its own.
LEMMA NamesAreUnique ==
    ASSUME NEW main, NEW mapping, IsMapping(main, mapping),
           NEW k \in Structs(mapping), NEW x \in Declarations(MainName, mapping),
           x.name = mapping[k].object.name
    PROVE  x = StructIdl(mapping[k].object, mapping) /\ mapping[k].object.name # MainName
<1>1. k \in DOMAIN mapping /\ mapping[k].object.d = "STRUCTURE"
  BY DEF Structs
<1>2. ASSUME NEW j \in DOMAIN mapping, mapping[j].object.d = "ENUM", x = EnumIdl(mapping[j].object)
      PROVE  FALSE
  <2>1. mapping[j].object.name = mapping[k].object.name
    BY <1>2 DEF EnumIdl
  <2>2. j = k
    BY <1>1, <2>1 DEF IsMapping
  <2> QED BY <1>1, <1>2, <2>2
<1>3. ASSUME NEW j \in Structs(mapping), mapping[j].object.name # MainName,
             x = StructIdl(mapping[j].object, mapping)
      PROVE  j = k
  <2>1. mapping[j].object.name = mapping[k].object.name
    BY <1>3 DEF StructIdl
  <2> QED BY <1>1, <2>1 DEF IsMapping, Structs
<1> QED BY <1>2, <1>3 DEF Declarations

\* The second pass adds every other struct, each once.
LEMMA StructsAreDeclared ==
    ASSUME NEW main, NEW mapping, IsMapping(main, mapping)
    PROVE  LET idl == EnumsAndStructs(MainName, mapping)
           IN /\ IsListOf(idl, Declarations(MainName, mapping))
              /\ \A k \in Structs(mapping) : mapping[k].object.name # MainName =>
                    \E i \in 1..Len(idl) : idl[i] = StructIdl(mapping[k].object, mapping)
<1> DEFINE N == Len(mapping)
           D == Declarations(MainName, mapping)
           S(i) == StructsUpTo(MainName, mapping)[i]
           Has(i, k) == \E j \in 1..Len(S(i)) : S(i)[j] = StructIdl(mapping[k].object, mapping)
           Other(k) == k \in Structs(mapping) /\ mapping[k].object.name # MainName
           G == {i \in 0..N : IsListOf(S(i), D) /\ \A k \in 1..i : Other(k) => Has(i, k)}
<1>1. N \in Nat /\ DOMAIN mapping = 1..N
  BY DEF IsMapping
<1>2. \A i \in 0..N : S(i) = StructsStep(MainName, mapping, S(i - 1), i)
  BY <1>1, StructsRecursion
<1>3. \A k \in 1..N : Other(k) => StructIdl(mapping[k].object, mapping) \in D
  BY DEF Declarations
<1>4. \A k \in 1..N : Other(k) <=> /\ mapping[k].object.d = "STRUCTURE"
                                   /\ mapping[k].object.name # MainName
  BY <1>1 DEF Structs
<1>5. IsListOf(EnumsUpTo(mapping)[N], D)
  BY <1>1, EnumsAreDeclared
<1> HIDE DEF N, D, S
<1>6. 0 \in G
  <2>1. 0 \in 0..N /\ 1..0 = {}
    BY <1>1
  <2>2. S(0) = EnumsUpTo(mapping)[N]
    BY <1>2, <2>1 DEF StructsStep, N
  <2> QED BY <1>5, <2>1, <2>2
<1>7. ASSUME NEW i \in 1..N, i - 1 \in G
      PROVE  i \in G
  <2> DEFINE o == mapping[i].object
             x == StructIdl(o, mapping)
  <2>1. i \in 0..N /\ i # 0 /\ \A k \in 1..i : k = i \/ k \in 1..(i - 1)
    BY <1>1
  <2>2. S(i) = IF o.d = "STRUCTURE" /\ o.name # MainName /\ ~Declares(S(i - 1), o.name)
               THEN Append(S(i - 1), x) ELSE S(i - 1)
    BY <1>2, <2>1 DEF StructsStep
  <2>3. x.name = o.name
    BY DEF StructIdl
  <2>4. IsListOf(S(i - 1), D) /\ \A k \in 1..(i - 1) : Other(k) => Has(i - 1, k)
    BY <1>7
  <2>5. CASE Other(i) /\ ~Declares(S(i - 1), o.name)
    <3>1. x \in D
      BY <1>3, <2>5
    <3>2. S(i) = Append(S(i - 1), x)
      BY <1>4, <2>2, <2>5
    <3> HIDE DEF x, Other, o
    <3>3. /\ IsListOf(S(i), D) /\ S(i)[Len(S(i - 1)) + 1] = x
          /\ Len(S(i - 1)) + 1 \in 1..Len(S(i))
          /\ \A j \in 1..Len(S(i - 1)) : j \in 1..Len(S(i)) /\ S(i)[j] = S(i - 1)[j]
      BY <2>3, <2>4, <2>5, <3>1, <3>2, OneMoreDeclaration
    <3>4. Has(i, i)
      BY <3>3 DEF x, o
    <3>5. \A k \in 1..(i - 1) : Other(k) => Has(i, k)
      BY <2>4, <3>3
    <3> HIDE DEF Has
    <3> QED BY <2>1, <3>3, <3>4, <3>5
  <2>6. CASE Other(i) /\ Declares(S(i - 1), o.name)
    <3>1. S(i) = S(i - 1)
      BY <2>2, <2>6
    <3>2. S(i - 1) \in Seq(D)
      BY <2>4 DEF IsListOf
    <3>3. PICK j \in 1..Len(S(i - 1)) : S(i - 1)[j].name = o.name
      BY <2>6, <3>2, LenProperties DEF Declares
    <3>4. S(i - 1)[j] \in D
      BY <3>2, <3>3, ElementOfSeq
    <3>5. S(i - 1)[j] = x
      BY <2>6, <3>3, <3>4, NamesAreUnique DEF D
    <3>6. Has(i, i)
      BY <3>1, <3>3, <3>5
    <3>7. \A k \in 1..(i - 1) : Other(k) => Has(i, k)
      BY <2>4, <3>1
    <3> HIDE DEF Has, Other
    <3> QED BY <2>1, <2>4, <3>1, <3>6, <3>7
  <2>7. CASE ~Other(i)
    <3>1. S(i) = S(i - 1)
      BY <1>4, <2>2, <2>7
    <3>2. \A k \in 1..(i - 1) : Other(k) => Has(i, k)
      BY <2>4, <3>1
    <3> HIDE DEF Has, Other
    <3> QED BY <2>1, <2>4, <2>7, <3>1, <3>2
  <2> QED BY <2>5, <2>6, <2>7
<1>8. N \in G
  <2>1. \A i \in 1..N : i - 1 \in G => i \in G
    BY <1>7
  <2> HIDE DEF G
  <2>2. 0..N \subseteq G
    BY <1>1, <1>6, <2>1, InductionUpTo
  <2> QED BY <1>1, <2>2
<1>9. \A k \in Structs(mapping) : k \in 1..N
  BY <1>1 DEF Structs
<1> QED BY <1>8, <1>9 DEF EnumsAndStructs, N, D, S

-----------------------------------------------------------------------------
(* What the recorder writes.                                               *)

\* A struct is declared with its members.
LEMMA StructIsSaid ==
    ASSUME NEW main, NEW mapping, IsMapping(main, mapping), NEW struct, IsStruct(struct),
           NEW x, x = StructIdl(struct, mapping)
    PROVE  /\ x.kind = "struct" /\ x.name = struct.name
           /\ Len(x.members) = Len(struct.members)
           /\ \A m \in DOMAIN struct.members :
                 /\ x.members[m].name = struct.members[m].name
                 /\ Expressible(struct, mapping) =>
                       MemberMeant(x.members[m], mapping) = struct.members[m]
<1> DEFINE n == Len(struct.members)
           said(m) == SplitArrayType(struct.members[m].name,
                                     IdlUpTo(mapping)[MaxDepth][struct.members[m].type])
<1>1. struct.members \in Seq([name : STRING, type : Types])
  BY DEF IsStruct
<1>2. /\ n \in Nat /\ DOMAIN struct.members = 1..n
      /\ \A m \in 1..n : struct.members[m] \in [name : STRING, type : Types]
  BY <1>1, LenProperties, ElementOfSeq
<1>3. x.kind = "struct" /\ x.name = struct.name /\ x.members = [m \in 1..n |-> said(m)]
  BY <1>2 DEF StructIdl
<1>4. \A m \in 1..n : said(m).name = struct.members[m].name
  BY DEF SplitArrayType
<1>5. ASSUME Expressible(struct, mapping), NEW m \in 1..n
      PROVE  MemberMeant(said(m), mapping) = struct.members[m]
  <2>1. struct.members[m].type \in Types
    BY <1>2
  <2>2. ExpressibleUpTo(mapping)[MaxDepth][struct.members[m].type]
    BY <1>2, <1>5 DEF Expressible
  <2>3. MemberMeant(said(m), mapping) = Member(struct.members[m].name, struct.members[m].type)
    BY <2>1, <2>2, MembersMeanTheirTypes
  <2>4. struct.members[m] = Member(struct.members[m].name, struct.members[m].type)
    BY <1>2 DEF Member
  <2> HIDE DEF said
  <2> QED BY <2>3, <2>4
<1> HIDE DEF said, n
<1>6. Len(x.members) = n
  BY <1>2, <1>3
<1> QED BY <1>2, <1>3, <1>4, <1>5, <1>6 DEF n

\* Whatever the types, the schema declares every struct of the type mapping once, with its
\* members and, if it can express them, their types, and the main struct last.
THEOREM SchemaDeclaresTheStructs == Spec => []SchemaSaysTheType
<1>1. UseInv => SchemaSaysTheType
  <2> SUFFICES ASSUME UseInv, schema # <<>>
               PROVE  /\ schema[Len(schema)].name = MainName
                      /\ \A k \in Structs(types) :
                            LET struct == types[k].object
                            IN \E i \in DOMAIN schema :
                                  /\ \A j \in DOMAIN schema : schema[j].name = struct.name => j = i
                                  /\ schema[i].kind = "struct" /\ schema[i].name = struct.name
                                  /\ Len(schema[i].members) = Len(struct.members)
                                  /\ \A m \in DOMAIN struct.members :
                                        /\ schema[i].members[m].name = struct.members[m].name
                                        /\ Expressible(struct, types) =>
                                              MemberMeant(schema[i].members[m], types) =
                                                 struct.members[m]
    BY DEF SchemaSaysTheType
  <2>1. PICK main \in Mains : types \in Mappings(main)
    BY DEF UseInv
  <2>2. IsMapping(main, types)
    BY <2>1, MappingsAreProper
  <2>3. PICK idl : idl = EnumsAndStructs(MainName, types)
    OBVIOUS
  <2>4. /\ IsListOf(idl, Declarations(MainName, types))
        /\ \A k \in Structs(types) : types[k].object.name # MainName =>
              \E i \in 1..Len(idl) : idl[i] = StructIdl(types[k].object, types)
    BY <2>2, <2>3, StructsAreDeclared
  <2>5. PICK x : x = StructIdl(main, types)
    OBVIOUS
  <2> DEFINE n == Len(idl)
  <2>6. idl \in Seq(Declarations(MainName, types)) /\ n \in Nat
    BY <2>4, LenProperties DEF IsListOf
  <2>7. schema = Append(idl, x)
    <3>1. FindStructByTypeName(MainName, types) = main /\ main # NoType
      BY <2>2, MainFound
    <3>2. AllStructsIdl(MainName, types) = Append(idl, x)
      BY <2>3, <2>5, <3>1 DEF AllStructsIdl
    <3>3. Append(idl, x) # <<>>
      BY <2>6
    <3>4. schema = GenerateIdl(MainName, types)
      BY DEF UseInv
    <3> QED BY <3>2, <3>3, <3>4 DEF GenerateIdl
  <2>8. /\ Len(schema) = n + 1 /\ DOMAIN schema = 1..(n + 1)
        /\ schema[n + 1] = x /\ \A i \in 1..n : schema[i] = idl[i]
    BY <2>6, <2>7
  <2>9. x.name = MainName /\ IsStruct(main) /\ main.name = MainName
    BY <2>2, <2>5 DEF StructIdl, IsMapping
  <2> HIDE DEF n
  <2>10. \A i \in 1..(n + 1) : i = n + 1 \/ i \in 1..n
    BY <2>6
  <2>11. ASSUME NEW k \in Structs(types)
         PROVE  \E i \in DOMAIN schema :
                   /\ \A j \in DOMAIN schema : schema[j].name = types[k].object.name => j = i
                   /\ schema[i] = StructIdl(types[k].object, types)
    <3> DEFINE struct == types[k].object
    <3>1. \A i \in 1..n : idl[i].name = struct.name =>
             idl[i] = StructIdl(struct, types) /\ struct.name # MainName
      <4>1. \A i \in 1..n : idl[i] \in Declarations(MainName, types)
        BY <2>6, ElementOfSeq DEF n
      <4> QED BY <2>2, <4>1, NamesAreUnique
    <3>2. CASE struct.name = MainName
      <4>1. struct = main
        BY <2>2, <3>2 DEF IsMapping, Structs
      <4>2. \A j \in 1..(n + 1) : schema[j].name = struct.name => j = n + 1
        BY <2>8, <2>10, <3>1, <3>2
      <4>3. n + 1 \in 1..(n + 1)
        BY <2>6 DEF n
      <4> QED BY <2>5, <2>8, <4>1, <4>2, <4>3
    <3>3. CASE struct.name # MainName
      <4>1. PICK i \in 1..n : idl[i] = StructIdl(struct, types)
        BY <2>4, <3>3 DEF n
      <4>2. idl[i].name = struct.name
        BY <4>1 DEF StructIdl
      <4>3. i \in 1..(n + 1)
        BY <2>6 DEF n
      <4>4. \A j \in 1..(n + 1) : schema[j].name = struct.name => j = i
        <5>1. \A j \in 1..n : idl[j].name = idl[i].name => j = i
          BY <2>4, <4>1 DEF IsListOf, n
        <5> QED BY <2>8, <2>9, <2>10, <3>3, <4>2, <5>1
      <4> QED BY <2>8, <4>1, <4>3, <4>4
    <3> QED BY <3>2, <3>3
  <2>12. ASSUME NEW k \in Structs(types)
         PROVE  IsStruct(types[k].object)
    BY <2>2, <2>12 DEF IsMapping, Structs, IsObject, IsStruct, IsEnum, IsUnion, IsAlias
  <2>13. schema[Len(schema)].name = MainName
    BY <2>8, <2>9
  <2>14. ASSUME NEW k \in Structs(types)
         PROVE  LET struct == types[k].object
                IN \E i \in DOMAIN schema :
                      /\ \A j \in DOMAIN schema : schema[j].name = struct.name => j = i
                      /\ schema[i].kind = "struct" /\ schema[i].name = struct.name
                      /\ Len(schema[i].members) = Len(struct.members)
                      /\ \A m \in DOMAIN struct.members :
                            /\ schema[i].members[m].name = struct.members[m].name
                            /\ Expressible(struct, types) =>
                                  MemberMeant(schema[i].members[m], types) = struct.members[m]
    <3>1. PICK i \in DOMAIN schema :
             /\ \A j \in DOMAIN schema : schema[j].name = types[k].object.name => j = i
             /\ schema[i] = StructIdl(types[k].object, types)
      BY <2>11
    <3>2. IsStruct(types[k].object)
      BY <2>12
    <3> QED BY <2>2, <3>1, <3>2, StructIsSaid
  <2> QED BY <2>13, <2>14
<1> QED BY <1>1, UseInvariant, PTL
=============================================================================
