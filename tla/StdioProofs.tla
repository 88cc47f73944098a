------------------------------ MODULE StdioProofs ------------------------------
(* Proofs about the framing and the stdio server.  What the server has in    *)
(* its buffer is a piece of the client's script; a frame that is whole in    *)
(* the piece is the same frame in the script.                                *)
EXTENDS StdioRpc, SequenceTheorems, TLAPS

(* A piece of a sequence, element by element.                                *)
LEMMA Piece ==
    ASSUME NEW S, NEW s \in Seq(S), NEW m \in Nat, NEW n \in Nat,
           1 <= m, m <= n + 1, n <= Len(s)
    PROVE  /\ SubSeq(s, m, n) \in Seq(S)
           /\ Len(SubSeq(s, m, n)) = n - m + 1
           /\ \A i \in 1 .. n - m + 1 : SubSeq(s, m, n)[i] = s[m + i - 1]
<1>1. \A i \in m .. n : s[i] \in S
  BY ElementOfSeq, LenProperties
<1> QED
  BY <1>1, SubSeqProperties

(* A sequence in three parts, taken apart again.                             *)
LEMMA Parts ==
    ASSUME NEW S, NEW p \in Seq(S), NEW m \in Seq(S), NEW r \in Seq(S)
    PROVE  LET b == (p \o m) \o r IN
           /\ b \in Seq(S) /\ Len(b) = Len(p) + Len(m) + Len(r)
           /\ \A i \in 1 .. Len(p) : b[i] = p[i]
           /\ SubSeq(b, Len(p) + 1, Len(p) + Len(m)) = m
           /\ SubSeq(b, Len(p) + Len(m) + 1, Len(b)) = r
<1>1. PICK k, b : k = p \o m /\ b = (p \o m) \o r
  OBVIOUS
<1>2. /\ k \in Seq(S) /\ Len(k) = Len(p) + Len(m)
      /\ Len(p) \in Nat /\ Len(m) \in Nat /\ Len(r) \in Nat
      /\ \A i \in 1 .. Len(p) + Len(m) : k[i] = IF i <= Len(p) THEN p[i] ELSE m[i - Len(p)]
  BY <1>1, ConcatProperties, LenProperties
<1>3. /\ b \in Seq(S) /\ Len(b) = Len(k) + Len(r)
      /\ \A i \in 1 .. Len(k) + Len(r) : b[i] = IF i <= Len(k) THEN k[i] ELSE r[i - Len(k)]
  BY <1>1, <1>2, ConcatProperties
<1>4. /\ \A i \in 1 .. Len(p) : b[i] = p[i]
      /\ \A i \in 1 .. Len(m) : b[Len(p) + 1 + i - 1] = m[i]
      /\ \A i \in 1 .. Len(r) : b[Len(p) + Len(m) + 1 + i - 1] = r[i]
  <2>1. ASSUME NEW i \in 1 .. Len(p) PROVE b[i] = p[i]
    <3>1. i \in 1 .. Len(k) /\ i \in 1 .. Len(k) + Len(r) /\ i <= Len(p) /\ i <= Len(k)
      BY <1>2
    <3> QED
      BY <1>2, <1>3, <3>1
  <2>2. ASSUME NEW i \in 1 .. Len(m) PROVE b[Len(p) + 1 + i - 1] = m[i]
    <3>1. PICK j : j = Len(p) + i
      OBVIOUS
    <3>2. j \in 1 .. Len(k) /\ ~(j <= Len(p)) /\ j - Len(p) = i /\ Len(p) + 1 + i - 1 = j
      BY <1>2, <3>1
    <3> QED
      BY <1>2, <1>3, <3>2
  <2>3. ASSUME NEW i \in 1 .. Len(r) PROVE b[Len(p) + Len(m) + 1 + i - 1] = r[i]
    <3>1. PICK j : j = Len(k) + i
      OBVIOUS
    <3>2. /\ j \in 1 .. Len(k) + Len(r) /\ ~(j <= Len(k)) /\ j - Len(k) = i
          /\ Len(p) + Len(m) + 1 + i - 1 = j
      BY <1>2, <3>1
    <3> QED
      BY <1>3, <3>2
  <2> QED
    BY <2>1, <2>2, <2>3
<1>5. SubSeq(b, Len(p) + 1, Len(p) + Len(m)) = m
  <2>1. PICK x, y : x = Len(p) + 1 /\ y = Len(p) + Len(m)
    OBVIOUS
  <2>2. x \in Nat /\ y \in Nat /\ 1 <= x /\ x <= y + 1 /\ y <= Len(b) /\ y - x + 1 = Len(m)
    BY <1>2, <1>3, <2>1
  <2>3. /\ SubSeq(b, x, y) \in Seq(S) /\ Len(SubSeq(b, x, y)) = Len(m)
        /\ \A i \in 1 .. Len(m) : SubSeq(b, x, y)[i] = b[x + i - 1]
    BY <1>3, <2>2, Piece
  <2>4. SubSeq(b, x, y) = m
    BY <1>4, <2>1, <2>3, SeqEqual
  <2> QED
    BY <2>1, <2>4
<1>6. SubSeq(b, Len(p) + Len(m) + 1, Len(b)) = r
  <2>1. PICK x, y : x = Len(p) + Len(m) + 1 /\ y = Len(b)
    OBVIOUS
  <2>2. x \in Nat /\ y \in Nat /\ 1 <= x /\ x <= y + 1 /\ y <= Len(b) /\ y - x + 1 = Len(r)
    BY <1>2, <1>3, <2>1
  <2>3. /\ SubSeq(b, x, y) \in Seq(S) /\ Len(SubSeq(b, x, y)) = Len(r)
        /\ \A i \in 1 .. Len(r) : SubSeq(b, x, y)[i] = b[x + i - 1]
    BY <1>3, <2>2, Piece
  <2>4. SubSeq(b, x, y) = r
    BY <1>4, <2>1, <2>3, SeqEqual
  <2> QED
    BY <2>1, <2>4
<1> QED
  BY <1>1, <1>2, <1>3, <1>4, <1>5, <1>6

LEMMA Bytes == \A x : x \in Byte <=> x \in Nat /\ x < 256
  BY DEF Byte

(* The four bytes of a length are its lowest 32 bits.                        *)
Quad(n) ==
    << n % 256, (n \div 256) % 256, ((n \div 256) \div 256) % 256,
       (((n \div 256) \div 256) \div 256) % 256 >>

Value(q) == q[1] + 256 * (q[2] + 256 * (q[3] + 256 * q[4]))

LEMMA LowBits ==
    ASSUME NEW a \in Nat
    PROVE  /\ Quad(a) \in Seq(Byte) /\ Len(Quad(a)) = 4
           /\ Value(Quad(a)) = a % (256 * (256 * (256 * 256)))
<1>1. PICK b, c, d, e : b = a \div 256 /\ c = b \div 256 /\ d = c \div 256 /\ e = d \div 256
  OBVIOUS
<1>2. b \in Nat /\ a = 256 * b + (a % 256) /\ a % 256 \in Byte
  BY <1>1, Bytes
<1>3. c \in Nat /\ b = 256 * c + (b % 256) /\ b % 256 \in Byte
  BY <1>1, <1>2, Bytes
<1>4. d \in Nat /\ c = 256 * d + (c % 256) /\ c % 256 \in Byte
  BY <1>1, <1>3, Bytes
<1>5. e \in Nat /\ d = 256 * e + (d % 256) /\ d % 256 \in Byte
  BY <1>1, <1>4, Bytes
<1>6. PICK v : v = (a % 256) + 256 * ((b % 256) + 256 * ((c % 256) + 256 * (d % 256)))
  OBVIOUS
<1>7. v \in Nat /\ v < 4294967296 /\ a = 4294967296 * e + v
  BY <1>2, <1>3, <1>4, <1>5, <1>6, Bytes
<1>8. a % 4294967296 = v
  BY <1>5, <1>7
<1>9. Quad(a) = << a % 256, b % 256, c % 256, d % 256 >>
  BY <1>1 DEF Quad
<1>10. Value(Quad(a)) = a % (256 * (256 * (256 * 256)))
  <2>1. 256 * (256 * (256 * 256)) = 4294967296
    OBVIOUS
  <2>2. Value(Quad(a)) = v
    BY <1>6, <1>9 DEF Value
  <2> QED
    BY <1>8, <2>1, <2>2
<1> QED
  BY <1>2, <1>3, <1>4, <1>5, <1>9, <1>10

LEMMA FourBytes ==
    ASSUME NEW a \in Nat, a < 256 * (256 * (256 * 256))
    PROVE  /\ Quad(a) \in Seq(Byte) /\ Len(Quad(a)) = 4
           /\ Value(Quad(a)) = a
<1>1. a % (256 * (256 * (256 * 256))) = a
  OBVIOUS
<1> QED
  BY <1>1, LowBits

(* The length of a frame is a number, and one of its four bytes alone.       *)
LEMMA SizeOf ==
    ASSUME NEW b, b[1] \in Byte, b[2] \in Byte, b[3] \in Byte, b[4] \in Byte
    PROVE  Size(b) \in Nat /\ 4 <= Size(b)
<1>1. b[1] \in Nat /\ b[2] \in Nat /\ b[3] \in Nat /\ b[4] \in Nat
  BY Bytes
<1> QED
  BY <1>1 DEF Size, Prefix

LEMMA SizeIs ==
    ASSUME NEW b, NEW q, b[1] = q[1], b[2] = q[2], b[3] = q[3], b[4] = q[4],
           q[1] \in Nat, q[2] \in Nat, q[3] \in Nat, q[4] \in Nat
    PROVE  Size(b) = 4 + Value(q)
  BY DEF Size, Prefix, Value

(* A frame: four bytes that give a length, a body of that length, the rest.  *)
InFront(b, body, rest) == Whole(b) /\ Body(b) = body /\ After(b) = rest

LEMMA FrameFront ==
    ASSUME NEW quad, quad \in Seq(Byte), Len(quad) = 4, NEW body, NEW rest, NEW b,
           Len(body) \in Nat, Len(rest) \in Nat, Value(quad) = Len(body),
           Len(b) = 4 + Len(body) + Len(rest),
           \A i \in 1 .. 4 : b[i] = quad[i],
           SubSeq(b, 4 + 1, 4 + Len(body)) = body,
           SubSeq(b, 4 + Len(body) + 1, Len(b)) = rest
    PROVE  InFront(b, body, rest)
<1>1. b[1] = quad[1] /\ b[2] = quad[2] /\ b[3] = quad[3] /\ b[4] = quad[4]
  OBVIOUS
<1>2. quad[1] \in Nat /\ quad[2] \in Nat /\ quad[3] \in Nat /\ quad[4] \in Nat
  <2>1. \A i \in 1 .. 4 : quad[i] \in Byte
    BY ElementOfSeq
  <2> QED
    BY <2>1, Bytes
<1>3. Size(b) = 4 + Len(body)
  BY <1>1, <1>2, SizeIs
<1> QED
  BY <1>3 DEF InFront, Whole, Body, After, Prefix

(* lib.rs:173-201: what encode made of a body of less than four gigabytes,   *)
(* decode takes apart again, whatever follows it in the buffer.              *)
THEOREM RoundTrip ==
    ASSUME NEW body \in Seq(Byte), Len(body) < 256 * (256 * (256 * 256)),
           NEW rest \in Seq(Byte)
    PROVE  /\ Whole(Encode(body) \o rest)
           /\ Body(Encode(body) \o rest) = body
           /\ After(Encode(body) \o rest) = rest
<1>1. Len(body) \in Nat /\ Len(rest) \in Nat
  BY LenProperties
<1> DEFINE quad == Quad(Len(body))
<1>2. Encode(body) = quad \o body
  BY DEF Encode, Quad
<1>3. quad \in Seq(Byte) /\ Len(quad) = 4 /\ Value(quad) = Len(body)
  BY <1>1, FourBytes, Zenon
<1> HIDE DEF quad
<1>4. PICK b : b = (quad \o body) \o rest
  OBVIOUS
<1>5. quad \in Seq(Byte)
  BY <1>3
<1>6. Len(b) = Len(quad) + Len(body) + Len(rest)
  BY <1>4, <1>5, Parts
<1>7. \A i \in 1 .. Len(quad) : b[i] = quad[i]
  BY <1>4, <1>5, Parts
<1>8. /\ SubSeq(b, Len(quad) + 1, Len(quad) + Len(body)) = body
      /\ SubSeq(b, Len(quad) + Len(body) + 1, Len(b)) = rest
  BY <1>4, <1>5, Parts
<1>9. /\ Len(b) = 4 + Len(body) + Len(rest)
      /\ \A i \in 1 .. 4 : b[i] = quad[i]
      /\ SubSeq(b, 4 + 1, 4 + Len(body)) = body
      /\ SubSeq(b, 4 + Len(body) + 1, Len(b)) = rest
  BY <1>3, <1>6, <1>7, <1>8
<1>10. InFront(b, body, rest)
  BY <1>1, <1>3, <1>9, FrameFront, Zenon
<1> QED
  BY <1>2, <1>4, <1>10, Zenon DEF InFront

(* lib.rs:175: the length of a body is cut to 32 bits, so that the frame of  *)
(* one of four gigabytes or more is read as that of a shorter one, and the   *)
(* rest of it as what follows.                                               *)
THEOREM CutTheorem ==
    ASSUME NEW body \in Seq(Byte)
    PROVE  LET f == Encode(body)
               n == Len(body) % (256 * (256 * (256 * 256)))
           IN  /\ f \in Seq(Byte) /\ Len(f) = 4 + Len(body)
               /\ Whole(f) /\ Size(f) = 4 + n
               /\ Body(f) = SubSeq(body, 1, n)
               /\ After(f) = SubSeq(body, n + 1, Len(body))
<1>1. PICK len, n : len = Len(body) /\ n = len % (256 * (256 * (256 * 256)))
  OBVIOUS
<1>2. len \in Nat /\ n \in Nat /\ n <= len
  <2>1. len \in Nat
    BY <1>1, LenProperties
  <2>2. 256 * (256 * (256 * 256)) = 4294967296
    OBVIOUS
  <2> QED
    BY <1>1, <2>1, <2>2
<1> DEFINE quad == Quad(Len(body))
<1>3. Encode(body) = quad \o body
  BY DEF Encode, Quad
<1>4. quad \in Seq(Byte) /\ Len(quad) = 4 /\ Value(quad) = n
  <2>1. Len(body) \in Nat
    BY <1>1, <1>2
  <2>2. /\ quad \in Seq(Byte) /\ Len(quad) = 4
        /\ Value(quad) = Len(body) % (256 * (256 * (256 * 256)))
    BY <2>1, LowBits, Zenon
  <2> QED
    BY <1>1, <2>2
<1> HIDE DEF quad
<1>5. PICK f : f = quad \o body
  OBVIOUS
<1>6. /\ f \in Seq(Byte) /\ Len(f) = 4 + len
      /\ \A i \in 1 .. 4 + len : f[i] = IF i <= 4 THEN quad[i] ELSE body[i - 4]
  <2>1. quad \in Seq(Byte) /\ Len(quad) = 4 /\ Len(body) = len
    BY <1>1, <1>4
  <2>2. /\ f \in Seq(Byte) /\ Len(f) = Len(quad) + Len(body)
        /\ \A i \in 1 .. Len(quad) + Len(body) :
              f[i] = IF i <= Len(quad) THEN quad[i] ELSE body[i - Len(quad)]
    BY <1>5, <2>1, ConcatProperties
  <2> QED
    BY <2>1, <2>2
<1>7. f[1] = quad[1] /\ f[2] = quad[2] /\ f[3] = quad[3] /\ f[4] = quad[4]
  BY <1>2, <1>6
<1>8. quad[1] \in Nat /\ quad[2] \in Nat /\ quad[3] \in Nat /\ quad[4] \in Nat
  <2>1. \A i \in 1 .. 4 : quad[i] \in Byte
    BY <1>4, ElementOfSeq
  <2> QED
    BY <2>1, Bytes
<1>9. Size(f) = 4 + n
  BY <1>4, <1>7, <1>8, SizeIs
<1>10. Whole(f)
  BY <1>2, <1>6, <1>9 DEF Whole, Prefix
<1>11. \A i \in 1 .. len : f[4 + i] = body[i]
  BY <1>2, <1>6
<1>12. SubSeq(f, 5, 4 + n) = SubSeq(body, 1, n)
  <2>1. /\ SubSeq(f, 5, 4 + n) \in Seq(Byte) /\ Len(SubSeq(f, 5, 4 + n)) = n
        /\ \A i \in 1 .. n : SubSeq(f, 5, 4 + n)[i] = f[4 + i]
    <3>1. /\ SubSeq(f, 5, 4 + n) \in Seq(Byte) /\ Len(SubSeq(f, 5, 4 + n)) = 4 + n - 5 + 1
          /\ \A i \in 1 .. 4 + n - 5 + 1 : SubSeq(f, 5, 4 + n)[i] = f[5 + i - 1]
      BY <1>2, <1>6, Piece
    <3> QED
      BY <1>2, <3>1
  <2>2. /\ SubSeq(body, 1, n) \in Seq(Byte) /\ Len(SubSeq(body, 1, n)) = n
        /\ \A i \in 1 .. n : SubSeq(body, 1, n)[i] = body[i]
    <3>1. /\ SubSeq(body, 1, n) \in Seq(Byte) /\ Len(SubSeq(body, 1, n)) = n - 1 + 1
          /\ \A i \in 1 .. n - 1 + 1 : SubSeq(body, 1, n)[i] = body[1 + i - 1]
      BY <1>1, <1>2, Piece
    <3> QED
      BY <1>2, <3>1
  <2>3. \A i \in 1 .. n : SubSeq(f, 5, 4 + n)[i] = SubSeq(body, 1, n)[i]
    BY <1>2, <1>11, <2>1, <2>2
  <2> QED
    BY <2>1, <2>2, <2>3, SeqEqual
<1>13. SubSeq(f, 4 + n + 1, Len(f)) = SubSeq(body, n + 1, len)
  <2>1. /\ SubSeq(f, 4 + n + 1, 4 + len) \in Seq(Byte)
        /\ Len(SubSeq(f, 4 + n + 1, 4 + len)) = len - n
        /\ \A i \in 1 .. len - n : SubSeq(f, 4 + n + 1, 4 + len)[i] = f[4 + (n + i)]
    <3>1. PICK x, y : x = 4 + n + 1 /\ y = 4 + len
      OBVIOUS
    <3>2. /\ x \in Nat /\ y \in Nat /\ 1 <= x /\ x <= y + 1 /\ y <= Len(f) /\ y - x + 1 = len - n
          /\ \A i \in 1 .. len - n : x + i - 1 = 4 + (n + i)
      BY <1>2, <1>6, <3>1
    <3>3. /\ SubSeq(f, x, y) \in Seq(Byte) /\ Len(SubSeq(f, x, y)) = y - x + 1
          /\ \A i \in 1 .. y - x + 1 : SubSeq(f, x, y)[i] = f[x + i - 1]
      BY <1>6, <3>2, Piece
    <3> QED
      BY <3>1, <3>2, <3>3
  <2>2. /\ SubSeq(body, n + 1, len) \in Seq(Byte) /\ Len(SubSeq(body, n + 1, len)) = len - n
        /\ \A i \in 1 .. len - n : SubSeq(body, n + 1, len)[i] = body[n + i]
    <3>1. PICK x : x = n + 1
      OBVIOUS
    <3>2. /\ x \in Nat /\ 1 <= x /\ x <= len + 1 /\ len <= Len(body) /\ len - x + 1 = len - n
          /\ \A i \in 1 .. len - n : x + i - 1 = n + i
      BY <1>1, <1>2, <3>1
    <3>3. /\ SubSeq(body, x, len) \in Seq(Byte) /\ Len(SubSeq(body, x, len)) = len - x + 1
          /\ \A i \in 1 .. len - x + 1 : SubSeq(body, x, len)[i] = body[x + i - 1]
      BY <1>2, <3>2, Piece
    <3> QED
      BY <3>1, <3>2, <3>3
  <2>3. \A i \in 1 .. len - n : SubSeq(f, 4 + n + 1, 4 + len)[i] = SubSeq(body, n + 1, len)[i]
    <3>1. \A i \in 1 .. len - n : n + i \in 1 .. len
      BY <1>2
    <3> QED
      BY <1>11, <2>1, <2>2, <3>1
  <2>4. SubSeq(f, 4 + n + 1, 4 + len) = SubSeq(body, n + 1, len)
    BY <2>1, <2>2, <2>3, SeqEqual
  <2> QED
    BY <1>6, <2>4
<1>14. Body(f) = SubSeq(body, 1, n) /\ After(f) = SubSeq(body, n + 1, len)
  <2>1. Prefix + 1 = 5
    BY DEF Prefix
  <2>2. Body(f) = SubSeq(f, 5, 4 + n)
    BY <1>9, <2>1, Zenon DEF Body
  <2>3. After(f) = SubSeq(f, 4 + n + 1, Len(f))
    BY <1>9, Zenon DEF After
  <2> QED
    BY <1>12, <1>13, <2>2, <2>3
<1> QED
  BY <1>1, <1>3, <1>5, <1>6, <1>9, <1>10, <1>14

-----------------------------------------------------------------------------
(* A frame that is whole in a piece of the script is the same frame in all   *)
(* that is left of it from there on.                                         *)
IsPiece(b, s, a, t) ==
    /\ s \in Seq(Byte) /\ a \in Nat /\ t \in Nat /\ a <= t /\ t <= Len(s)
    /\ b = SubSeq(s, a + 1, t)

SameFrame(b, s, a, t) ==
    LET l == SubSeq(s, a + 1, Len(s)) IN
    /\ Size(b) \in Nat /\ 4 <= Size(b) /\ Size(b) <= t - a
    /\ Whole(l) /\ Size(l) = Size(b) /\ Body(l) = Body(b)
    /\ After(b) = SubSeq(s, a + Size(b) + 1, t)

LEMMA PieceFrame ==
    ASSUME NEW s \in Seq(Byte), NEW a \in Nat, NEW t \in Nat, a <= t, t <= Len(s),
           NEW b, b = SubSeq(s, a + 1, t), NEW l, l = SubSeq(s, a + 1, Len(s)), Whole(b)
    PROVE  SameFrame(b, s, a, t)
<1>1. Len(s) \in Nat
  BY LenProperties
<1>2. PICK z, e : z = Size(b) /\ e = Len(s)
  OBVIOUS
<1>3. b \in Seq(Byte) /\ Len(b) = t - a /\ \A i \in 1 .. t - a : b[i] = s[a + i]
  <2>1. PICK x : x = a + 1
    OBVIOUS
  <2>2. x \in Nat /\ 1 <= x /\ x <= t + 1 /\ t - x + 1 = t - a
    BY <2>1
  <2>3. b \in Seq(Byte) /\ Len(b) = t - x + 1 /\ \A i \in 1 .. t - x + 1 : b[i] = s[x + i - 1]
    BY <2>1, <2>2, Piece
  <2> QED
    BY <2>1, <2>2, <2>3
<1>4. l \in Seq(Byte) /\ Len(l) = e - a /\ \A i \in 1 .. e - a : l[i] = s[a + i]
  <2>1. PICK x : x = a + 1
    OBVIOUS
  <2>2. x \in Nat /\ 1 <= x /\ x <= e + 1 /\ e - x + 1 = e - a /\ e \in Nat /\ e <= Len(s)
    BY <1>1, <1>2, <2>1
  <2>3. l \in Seq(Byte) /\ Len(l) = e - x + 1 /\ \A i \in 1 .. e - x + 1 : l[i] = s[x + i - 1]
    BY <1>2, <2>1, <2>2, Piece
  <2> QED
    BY <2>1, <2>2, <2>3
<1>5. 4 <= t - a /\ z <= t - a
  BY <1>2, <1>3 DEF Whole, Prefix
<1>6. \A i \in 1 .. t - a : l[i] = b[i] /\ b[i] \in Byte
  <2>1. \A i \in 1 .. t - a : b[i] \in Byte
    BY <1>3, ElementOfSeq
  <2> QED
    BY <1>1, <1>2, <1>3, <1>4, <2>1
<1>7. z \in Nat /\ 4 <= z /\ Size(l) = z
  <2>1. /\ l[1] = b[1] /\ l[2] = b[2] /\ l[3] = b[3] /\ l[4] = b[4]
        /\ b[1] \in Byte /\ b[2] \in Byte /\ b[3] \in Byte /\ b[4] \in Byte
    <3>1. 1 \in 1 .. t - a /\ 2 \in 1 .. t - a /\ 3 \in 1 .. t - a /\ 4 \in 1 .. t - a
      BY <1>5
    <3> QED
      BY <1>6, <3>1, Zenon
  <2> DEFINE Number(i, j, k, m) == Prefix + i + 256 * (j + 256 * (k + 256 * m))
  <2>2. Size(l) = Number(l[1], l[2], l[3], l[4]) /\ Size(b) = Number(b[1], b[2], b[3], b[4])
    BY DEF Size
  <2> HIDE DEF Number
  <2>3. Size(l) = Size(b)
    BY <2>1, <2>2
  <2> QED
    BY <1>2, <2>1, <2>3, SizeOf
<1>8. Whole(l)
  BY <1>1, <1>2, <1>4, <1>5, <1>7 DEF Whole, Prefix
<1>9. Body(l) = Body(b)
  <2>1. /\ SubSeq(b, 5, z) \in Seq(Byte) /\ Len(SubSeq(b, 5, z)) = z - 5 + 1
        /\ \A i \in 1 .. z - 5 + 1 : SubSeq(b, 5, z)[i] = b[5 + i - 1]
    BY <1>3, <1>5, <1>7, Piece
  <2>2. /\ SubSeq(l, 5, z) \in Seq(Byte) /\ Len(SubSeq(l, 5, z)) = z - 5 + 1
        /\ \A i \in 1 .. z - 5 + 1 : SubSeq(l, 5, z)[i] = l[5 + i - 1]
    <3>1. 5 <= z + 1 /\ z <= Len(l)
      BY <1>1, <1>2, <1>4, <1>5, <1>7
    <3> QED
      BY <1>4, <1>7, <3>1, Piece
  <2>3. \A i \in 1 .. z - 5 + 1 : SubSeq(l, 5, z)[i] = SubSeq(b, 5, z)[i]
    BY <1>5, <1>6, <1>7, <2>1, <2>2
  <2>4. SubSeq(l, 5, z) = SubSeq(b, 5, z)
    BY <2>1, <2>2, <2>3, SeqEqual
  <2>5. Prefix + 1 = 5
    BY DEF Prefix
  <2> QED
    BY <1>2, <1>7, <2>4, <2>5 DEF Body
<1>10. After(b) = SubSeq(s, a + z + 1, t)
  <2>1. PICK x, y, n : x = z + 1 /\ y = a + z + 1 /\ n = t - a
    OBVIOUS
  <2>2. /\ x \in Nat /\ y \in Nat /\ n \in Nat /\ 1 <= x /\ x <= n + 1 /\ 1 <= y /\ y <= t + 1
        /\ n - x + 1 = t - y + 1 /\ Len(b) = n
    BY <1>3, <1>5, <1>7, <2>1
  <2>3. /\ SubSeq(b, x, n) \in Seq(Byte) /\ Len(SubSeq(b, x, n)) = n - x + 1
        /\ \A i \in 1 .. n - x + 1 : SubSeq(b, x, n)[i] = b[x + i - 1]
    BY <1>3, <2>2, Piece
  <2>4. /\ SubSeq(s, y, t) \in Seq(Byte) /\ Len(SubSeq(s, y, t)) = t - y + 1
        /\ \A i \in 1 .. t - y + 1 : SubSeq(s, y, t)[i] = s[y + i - 1]
    <3>1. y \in Nat /\ 1 <= y /\ y <= t + 1
      BY <2>2
    <3> QED
      BY <3>1, Piece
  <2>5. \A i \in 1 .. n - x + 1 : SubSeq(b, x, n)[i] = SubSeq(s, y, t)[i]
    BY <1>3, <1>7, <2>1, <2>2, <2>3, <2>4
  <2>6. SubSeq(b, x, n) = SubSeq(s, y, t)
    BY <2>2, <2>3, <2>4, <2>5, SeqEqual
  <2> QED
    BY <1>2, <2>1, <2>2, <2>6 DEF After
<1>11. Size(b) \in Nat /\ 4 <= Size(b) /\ Size(b) <= t - a
  BY <1>2, <1>5, <1>7
<1> QED
  BY <1>2, <1>7, <1>8, <1>9, <1>10, <1>11, Zenon DEF SameFrame

LEMMA PieceSame ==
    ASSUME NEW b, NEW s, NEW a, NEW t, IsPiece(b, s, a, t), Whole(b)
    PROVE  SameFrame(b, s, a, t)
<1>1. PICK l : l = SubSeq(s, a + 1, Len(s))
  OBVIOUS
<1>2. /\ s \in Seq(Byte) /\ a \in Nat /\ t \in Nat /\ a <= t /\ t <= Len(s)
      /\ b = SubSeq(s, a + 1, t)
  BY DEF IsPiece
<1> QED
  BY <1>1, <1>2, PieceFrame, Zenon

(* Reading on: two adjoining pieces are one.                                 *)
LEMMA Adjoin ==
    ASSUME NEW s \in Seq(Byte), NEW a \in Nat, NEW t \in Nat, NEW n \in Nat,
           a <= t, t + n <= Len(s)
    PROVE  SubSeq(s, a + 1, t) \o SubSeq(s, t + 1, t + n) = SubSeq(s, a + 1, t + n)
<1> QED
  BY ConcatAdjacentSubSeq, LenProperties

-----------------------------------------------------------------------------
(* The inductive invariant: the buffer is the last piece that was read, only *)
(* the request just run may want its answer, and serve ended with a reason.  *)
InBuffer == buf = SubSeq(script, taken - Len(buf) + 1, taken)

Ended ==
    /\ result \in {"ok", "cut", "invalid", "broken"}
    /\ result = "ok" => ran = out /\ taken = Len(script) /\ buf = <<>>
    /\ result = "cut" => ran = out /\ taken = Len(script) /\ buf # <<>> /\ ~Whole(buf)
    /\ result = "invalid" => ran = out /\ Whole(buf) /\ Body(buf) \notin Requests

Stage ==
    /\ pc \in {"start", "decode", "read"} => ran = out
    /\ pc = "write" => ran # <<>> /\ ran = Append(out, ran[Len(ran)])
    /\ pc = "read" => ~Whole(buf)
    /\ pc = "closing" => Ended

Inv == TypeOK /\ InBuffer /\ Stage

LEMMA Sizes ==
    ASSUME TypeOK
    PROVE  /\ script \in Seq(Byte) /\ Len(script) \in Nat
           /\ sent \in Nat /\ taken \in Nat /\ taken <= sent /\ sent <= Len(script)
           /\ buf \in Seq(Byte) /\ Len(buf) \in Nat /\ taken - Len(buf) \in Nat
           /\ Len(ran) \in Nat /\ Len(out) \in Nat /\ got \in Nat
<1>1. script \in Seq(Byte) /\ Len(script) \in Nat
  BY StdioAssumption, LenProperties DEF TypeOK
<1>2. buf \in Seq(Byte) /\ Len(buf) \in Nat /\ ran \in Seq(Requests) /\ out \in Seq(Requests)
  BY LenProperties DEF TypeOK
<1>3. Len(ran) \in Nat /\ Len(out) \in Nat
  BY <1>2, LenProperties
<1> QED
  BY <1>1, <1>2, <1>3 DEF TypeOK

(* The first frame of the buffer, seen from the script.                      *)
LEMMA BufferFrame ==
    ASSUME TypeOK, InBuffer, Whole(buf)
    PROVE  LET at == taken - Len(buf) IN
           /\ Size(buf) \in Nat /\ Size(buf) <= Len(buf)
           /\ Stream!Whole(Stream!Left) /\ Stream!Body(Stream!Left) = Body(buf)
           /\ Stream!Size(Stream!Left) = Size(buf)
           /\ After(buf) \in Seq(Byte) /\ Len(After(buf)) = Len(buf) - Size(buf)
           /\ After(buf) = SubSeq(script, taken - Len(After(buf)) + 1, taken)
<1>1. PICK at, l : at = taken - Len(buf) /\ l = SubSeq(script, at + 1, Len(script))
  OBVIOUS
<1>2. /\ script \in Seq(Byte) /\ at \in Nat /\ taken \in Nat /\ at <= taken
      /\ taken <= Len(script) /\ Len(script) \in Nat /\ Len(buf) \in Nat
      /\ buf = SubSeq(script, at + 1, taken) /\ taken - at = Len(buf)
  <2>1. /\ script \in Seq(Byte) /\ Len(script) \in Nat /\ sent \in Nat /\ taken \in Nat
        /\ taken <= sent /\ sent <= Len(script) /\ Len(buf) \in Nat /\ at \in Nat
    BY <1>1, Sizes
  <2>2. buf = SubSeq(script, at + 1, taken)
    BY <1>1 DEF InBuffer
  <2>3. at <= taken /\ taken <= Len(script) /\ taken - at = Len(buf)
    BY <1>1, <2>1
  <2> QED
    BY <2>1, <2>2, <2>3
<1>3. /\ Size(buf) \in Nat /\ 4 <= Size(buf) /\ Size(buf) <= taken - at
      /\ Whole(l) /\ Size(l) = Size(buf) /\ Body(l) = Body(buf)
      /\ After(buf) = SubSeq(script, at + Size(buf) + 1, taken)
  <2>1. l = SubSeq(script, at + 1, Len(script))
    BY <1>1
  <2>2. IsPiece(buf, script, at, taken)
    BY <1>2 DEF IsPiece
  <2>3. SameFrame(buf, script, at, taken)
    BY <2>2, PieceSame
  <2> QED
    BY <2>1, <2>3, Zenon DEF SameFrame
<1>4. After(buf) \in Seq(Byte) /\ Len(After(buf)) = taken - at - Size(buf)
  <2>1. PICK m : m = at + Size(buf) + 1 /\ m \in Nat /\ 1 <= m /\ m <= taken + 1
    BY <1>2, <1>3
  <2>2. SubSeq(script, m, taken) \in Seq(Byte) /\ Len(SubSeq(script, m, taken)) = taken - m + 1
    <3>1. m \in Nat /\ taken \in Nat /\ 1 <= m /\ m <= taken + 1 /\ taken <= Len(script)
      BY <1>2, <2>1
    <3>2. script \in Seq(Byte)
      BY <1>2
    <3> QED
      BY <3>1, <3>2, Piece
  <2>3. After(buf) = SubSeq(script, m, taken)
    BY <1>3, <2>1
  <2>4. taken - m + 1 = taken - at - Size(buf)
    <3>1. taken \in Nat /\ at \in Nat /\ Size(buf) \in Nat
      BY <1>2, <1>3
    <3> QED
      BY <2>1, <3>1
  <2> QED
    BY <2>2, <2>3, <2>4, Zenon
<1>5. taken - Len(After(buf)) = at + Size(buf)
  <2>1. taken \in Nat /\ at \in Nat /\ Size(buf) \in Nat
    BY <1>2, <1>3
  <2> QED
    BY <1>4, <2>1
<1>6. Stream!Left = l
  BY <1>1 DEF Stream!Left
<1>7. Stream!Whole(l) /\ Stream!Body(l) = Body(l) /\ Stream!Size(l) = Size(l)
  BY <1>3 DEF Stream!Whole, Stream!Body, Stream!Size, Stream!Prefix, Whole, Body, Size, Prefix
<1> QED
  BY <1>2, <1>3, <1>4, <1>5, <1>6, <1>7

(* What was read is added to the piece.                                      *)
LEMMA BufferGrows ==
    ASSUME TypeOK, InBuffer, NEW n \in Nat, taken + n <= sent
    PROVE  LET more == buf \o SubSeq(script, taken + 1, taken + n) IN
           /\ more \in Seq(Byte) /\ Len(more) = Len(buf) + n
           /\ more = SubSeq(script, (taken + n) - Len(more) + 1, taken + n)
<1> DEFINE at == taken - Len(buf)
           more == buf \o SubSeq(script, taken + 1, taken + n)
<1>1. /\ script \in Seq(Byte) /\ at \in Nat /\ taken \in Nat /\ at <= taken
      /\ taken + n <= Len(script) /\ Len(script) \in Nat /\ Len(buf) \in Nat
      /\ buf = SubSeq(script, at + 1, taken) /\ taken - at = Len(buf)
  <2>1. /\ script \in Seq(Byte) /\ taken \in Nat /\ sent \in Nat /\ sent <= Len(script)
        /\ Len(script) \in Nat /\ Len(buf) \in Nat /\ taken - Len(buf) \in Nat
    BY Sizes
  <2>2. buf = SubSeq(script, at + 1, taken)
    BY DEF InBuffer
  <2>3. at \in Nat /\ at <= taken /\ taken + n <= Len(script) /\ taken - at = Len(buf)
    BY <2>1
  <2> QED
    BY <2>1, <2>2, <2>3
<1> HIDE DEF at
<1>2. more = SubSeq(script, at + 1, taken + n)
  BY <1>1, Adjoin
<1>3. more \in Seq(Byte) /\ Len(more) = taken + n - at
  BY <1>1, <1>2
<1> QED
  BY <1>1, <1>2, <1>3

LEMMA InvInit == Init => Inv
<1> SUFFICES ASSUME Init PROVE Inv
  OBVIOUS
<1>1. Len(script) \in Nat /\ <<>> \in Seq(Byte) /\ <<>> \in Seq(Requests) /\ Len(<<>>) = 0
  BY StdioAssumption, LenProperties, EmptySeq DEF Init
<1>2. TypeOK
  <2>1. sent = 0 /\ taken = 0 /\ got = 0 /\ buf = <<>> /\ ran = <<>> /\ out = <<>>
    BY DEF Init
  <2>2. /\ sent \in 0 .. Len(script) /\ taken \in 0 .. sent /\ Len(buf) <= taken
        /\ got \in 0 .. Len(out)
    BY <1>1, <2>1
  <2>3. buf \in Seq(Byte) /\ ran \in Seq(Requests) /\ out \in Seq(Requests)
    BY <1>1, <2>1
  <2> QED
    BY <2>2, <2>3 DEF Init, TypeOK
<1>3. InBuffer
  BY SubSeqEmpty DEF Init, InBuffer
<1> QED
  BY <1>2, <1>3 DEF Init, Inv, Stage

LEMMA InvHandle == Inv /\ Handle => Inv'
<1> SUFFICES ASSUME Inv, Handle PROVE Inv'
  OBVIOUS
<1>1. /\ TypeOK /\ InBuffer /\ Stage /\ pc = "decode" /\ Whole(buf) /\ Body(buf) \in Requests
      /\ buf' = After(buf) /\ ran' = Append(ran, Body(buf)) /\ pc' = "write"
      /\ UNCHANGED <<script, sent, got, deaf, taken, out, result>>
  BY DEF Handle, Inv, client
<1>2. /\ buf' \in Seq(Byte) /\ Len(buf') <= Len(buf) /\ Len(buf') \in Nat
      /\ buf' = SubSeq(script, taken - Len(buf') + 1, taken)
  <2>1. After(buf) \in Seq(Byte) /\ Len(After(buf)) <= Len(buf)
        /\ After(buf) = SubSeq(script, taken - Len(After(buf)) + 1, taken)
    <3>1. Size(buf) \in Nat /\ Size(buf) <= Len(buf) /\ Len(buf) \in Nat
      BY <1>1, BufferFrame, Sizes
    <3>2. After(buf) \in Seq(Byte) /\ Len(After(buf)) = Len(buf) - Size(buf)
      BY <1>1, BufferFrame
    <3>3. After(buf) = SubSeq(script, taken - Len(After(buf)) + 1, taken)
      BY <1>1, BufferFrame
    <3> QED
      BY <3>1, <3>2, <3>3
  <2>2. Len(After(buf)) \in Nat
    BY <2>1, LenProperties
  <2> QED
    BY <1>1, <2>1, <2>2
<1>3. /\ ran \in Seq(Requests) /\ ran' \in Seq(Requests) /\ ran' # <<>>
      /\ Len(ran') = Len(ran) + 1 /\ ran'[Len(ran) + 1] = Body(buf)
  BY <1>1, AppendProperties DEF TypeOK
<1>4. TypeOK'
  BY <1>1, <1>2, <1>3, Sizes DEF TypeOK
<1>5. Stage'
  BY <1>1, <1>3 DEF Stage
<1> QED
  BY <1>1, <1>2, <1>4, <1>5 DEF Inv, InBuffer

LEMMA InvRead == Inv /\ Read => Inv'
<1> SUFFICES ASSUME Inv, Read PROVE Inv'
  OBVIOUS
<1>1. PICK n \in 1 .. Smaller(Chunk, sent - taken) :
        /\ buf' = buf \o SubSeq(script, taken + 1, taken + n) /\ taken' = taken + n
  BY DEF Read
<1>2. /\ TypeOK /\ InBuffer /\ Stage /\ pc = "read" /\ pc' = "decode"
      /\ UNCHANGED <<script, sent, got, deaf, ran, out, result>>
  BY DEF Read, Inv, client
<1>3. n \in Nat /\ taken + n <= sent
  BY <1>2, StdioAssumption, Sizes DEF Smaller
<1>4. /\ buf' \in Seq(Byte) /\ Len(buf') = Len(buf) + n
      /\ buf' = SubSeq(script, taken' - Len(buf') + 1, taken')
  BY <1>1, <1>2, <1>3, BufferGrows
<1>5. TypeOK'
  BY <1>1, <1>2, <1>3, <1>4, Sizes DEF TypeOK
<1> QED
  BY <1>1, <1>2, <1>4, <1>5 DEF Inv, InBuffer, Stage

LEMMA InvWrite == Inv /\ Write => Inv'
<1> SUFFICES ASSUME Inv, Write PROVE Inv'
  OBVIOUS
<1>1. /\ TypeOK /\ InBuffer /\ Stage /\ pc = "write" /\ ran # <<>>
      /\ ran = Append(out, ran[Len(ran)])
      /\ UNCHANGED <<script, sent, got, deaf, taken, buf, ran>>
  BY DEF Write, Inv, client, Stage
<1>2. CASE pc' = "closing" /\ result' = "broken" /\ out' = out
  BY <1>1, <1>2, Sizes DEF Inv, TypeOK, InBuffer, Stage, Ended
<1>3. CASE out' = Append(out, ran[Len(ran)]) /\ pc' = "decode" /\ result' = result
  <2>1. out' = ran /\ out' \in Seq(Requests)
    BY <1>1, <1>3 DEF TypeOK
  <2>2. ran[Len(ran)] \in Requests
    BY <1>1, EmptySeq, ElementOfSeq DEF TypeOK
  <2>3. Len(out') = Len(out) + 1
    BY <1>1, <1>3, <2>2, AppendProperties DEF TypeOK
  <2>4. TypeOK'
    BY <1>1, <1>3, <2>1, <2>3, Sizes DEF TypeOK
  <2> QED
    BY <1>1, <1>3, <2>1, <2>4 DEF Inv, InBuffer, Stage
<1> QED
  BY <1>2, <1>3 DEF Write, Return

LEMMA InvNext == Inv /\ [Next]_vars => Inv'
<1> SUFFICES ASSUME Inv, [Next]_vars PROVE Inv'
  OBVIOUS
<1> USE DEF Inv, client
<1>1. CASE Startup
  BY <1>1 DEF Startup, TypeOK, InBuffer, Stage
<1>2. CASE Handle
  BY <1>2, InvHandle
<1>3. CASE Refuse
  BY <1>3 DEF Refuse, Return, TypeOK, InBuffer, Stage, Ended
<1>4. CASE NeedMore
  BY <1>4 DEF NeedMore, TypeOK, InBuffer, Stage
<1>5. CASE Write
  BY <1>5, InvWrite
<1>6. CASE Read
  BY <1>6, InvRead
<1>7. CASE ReadEnd
  BY <1>7 DEF ReadEnd, Return, TypeOK, InBuffer, Stage, Ended
<1>8. CASE ReadFails
  BY <1>8 DEF ReadFails, Return, TypeOK, InBuffer, Stage, Ended
<1>9. CASE Shutdown
  BY <1>9 DEF Shutdown, TypeOK, InBuffer, Stage, Ended
<1>10. CASE Send
  <2>1. PICK n \in 1 .. Smaller(Len(script) - sent, InRoom - (sent - taken)) : sent' = sent + n
    BY <1>10 DEF Send
  <2>2. sent' \in Nat /\ sent' <= Len(script) /\ taken <= sent'
    <3>1. /\ sent \in Nat /\ taken \in Nat /\ Len(script) \in Nat /\ InRoom \in Nat
          /\ taken <= sent /\ sent <= Len(script)
      BY StdioAssumption, Sizes
    <3>2. n \in Nat /\ n <= Len(script) - sent
      BY <2>1, <3>1 DEF Smaller
    <3> QED
      BY <2>1, <3>1, <3>2
  <2>3. TypeOK'
    BY <1>10, <2>2, Sizes DEF Send, TypeOK
  <2> QED
    BY <1>10, <2>3 DEF Send, InBuffer, Stage, Ended
<1>11. CASE Receive
  <2>1. TypeOK'
    BY <1>11, Sizes DEF Receive, TypeOK
  <2> QED
    BY <1>11, <2>1 DEF Receive, InBuffer, Stage, Ended
<1>12. CASE Hangup
  BY <1>12 DEF Hangup, TypeOK, InBuffer, Stage, Ended
<1>13. CASE UNCHANGED vars
  BY <1>13 DEF vars, TypeOK, InBuffer, Stage, Ended
<1> QED
  BY <1>1, <1>2, <1>3, <1>4, <1>5, <1>6, <1>7, <1>8, <1>9, <1>10, <1>11, <1>12, <1>13
     DEF Next, Server

LEMMA Invariant == Spec => []Inv
<1> QED
  BY InvInit, InvNext, PTL DEF Spec

(* The type invariant of the stdio session, for every script and pipe size.  *)
THEOREM TypeCorrect == Spec => []TypeOK
<1>1. Inv => TypeOK
  BY DEF Inv
<1> QED
  BY <1>1, Invariant, PTL

-----------------------------------------------------------------------------
(* At the end of the script what is left of it is the buffer.                *)
LEMMA LeftAtEnd ==
    ASSUME Inv, taken = Len(script)
    PROVE  /\ Stream!Left = buf
           /\ Stream!Whole(buf) <=> Whole(buf)
<1>1. Stream!Left = buf
  BY DEF Inv, InBuffer, Stream!Left
<1> QED
  BY <1>1 DEF Stream!Whole, Stream!Size, Stream!Prefix, Whole, Size, Prefix

LEMMA StreamHandle == Inv /\ Handle => Stream!Run
<1> SUFFICES ASSUME Inv, Handle PROVE Stream!Run
  OBVIOUS
<1>1. /\ TypeOK /\ InBuffer /\ ran = out /\ pc = "decode" /\ Whole(buf) /\ Body(buf) \in Requests
      /\ buf' = After(buf) /\ ran' = Append(ran, Body(buf)) /\ pc' = "write"
      /\ UNCHANGED <<script, taken, out>>
  BY DEF Handle, Inv, Stage, client
<1>2. /\ Size(buf) \in Nat /\ Stream!Whole(Stream!Left) /\ Stream!Body(Stream!Left) = Body(buf)
      /\ Stream!Size(Stream!Left) = Size(buf) /\ Len(buf') = Len(buf) - Size(buf)
  BY <1>1, BufferFrame
<1>3. taken' - Len(buf') = (taken - Len(buf)) + Stream!Size(Stream!Left)
  BY <1>1, <1>2, Sizes
<1> QED
  BY <1>1, <1>2, <1>3 DEF Stream!Run

LEMMA StreamWrite == Inv /\ Write => [Stream!Next]_(Stream!vars)
<1> SUFFICES ASSUME Inv, Write PROVE [Stream!Next]_(Stream!vars)
  OBVIOUS
<1>1. /\ TypeOK /\ pc = "write" /\ ran # <<>> /\ ran = Append(out, ran[Len(ran)])
      /\ UNCHANGED <<script, taken, buf, ran>>
  BY DEF Write, Inv, Stage, client
<1>2. CASE pc' = "closing" /\ out' = out
  BY <1>1, <1>2 DEF Stream!vars
<1>3. CASE out' = Append(out, ran[Len(ran)]) /\ pc' = "decode"
  <2>1. ran[Len(ran)] \in Requests
    BY <1>1, EmptySeq, ElementOfSeq DEF TypeOK
  <2>2. Len(ran) = Len(out) + 1
    BY <1>1, <2>1, AppendProperties DEF TypeOK
  <2>3. ran # out
    BY <1>1, <2>2, Sizes
  <2>4. Stream!Answer
    BY <1>1, <1>3, <2>3 DEF Stream!Answer
  <2> QED
    BY <2>4 DEF Stream!Next
<1> QED
  BY <1>2, <1>3 DEF Write, Return

LEMMA StreamShutdown == Inv /\ Shutdown => Stream!End
<1> SUFFICES ASSUME Inv, Shutdown PROVE Stream!End
  OBVIOUS
<1>1. /\ TypeOK /\ InBuffer /\ Ended /\ pc = "closing" /\ pc' = "over"
      /\ result' = result \/ result' = "unlogged"
      /\ UNCHANGED <<script, taken, buf, ran, out>>
  BY DEF Shutdown, Inv, Stage, client
<1>2. CASE result' \in {"broken", "unlogged"}
  BY <1>1, <1>2 DEF Stream!End
<1>3. CASE result' = result /\ result = "ok"
  <2>1. ran = out /\ Stream!Left = <<>>
    BY <1>1, <1>3, LeftAtEnd DEF Ended
  <2> QED
    BY <1>1, <1>3, <2>1 DEF Stream!End
<1>4. CASE result' = result /\ result = "cut"
  <2>1. ran = out /\ Stream!Left # <<>> /\ ~Stream!Whole(Stream!Left)
    BY <1>1, <1>4, LeftAtEnd DEF Ended
  <2> QED
    BY <1>1, <1>4, <2>1 DEF Stream!End
<1>5. CASE result' = result /\ result = "invalid"
  <2>1. ran = out /\ Stream!Whole(Stream!Left) /\ Stream!Body(Stream!Left) \notin Requests
    BY <1>1, <1>5, BufferFrame DEF Ended
  <2> QED
    BY <1>1, <1>5, <2>1 DEF Stream!End
<1> QED
  BY <1>1, <1>2, <1>3, <1>4, <1>5 DEF Ended

LEMMA StreamRead == Inv /\ Read => UNCHANGED Stream!vars
<1> SUFFICES ASSUME Inv, Read PROVE UNCHANGED Stream!vars
  OBVIOUS
<1>1. PICK n \in 1 .. Smaller(Chunk, sent - taken) :
        /\ buf' = buf \o SubSeq(script, taken + 1, taken + n) /\ taken' = taken + n
  BY DEF Read
<1>2. TypeOK /\ InBuffer /\ pc = "read" /\ pc' = "decode" /\ UNCHANGED <<script, ran, out>>
  BY DEF Read, Inv, client
<1>3. n \in Nat /\ taken + n <= sent
  BY <1>2, StdioAssumption, Sizes DEF Smaller
<1>4. Len(buf') = Len(buf) + n
  BY <1>1, <1>2, <1>3, BufferGrows
<1>5. taken' - Len(buf') = taken - Len(buf)
  BY <1>1, <1>2, <1>3, <1>4, Sizes
<1> QED
  BY <1>2, <1>5 DEF Stream!vars

LEMMA StreamNext == Inv /\ [Next]_vars => [Stream!Next]_(Stream!vars)
<1> SUFFICES ASSUME Inv, [Next]_vars PROVE [Stream!Next]_(Stream!vars)
  OBVIOUS
<1>1. CASE Startup
  <2>1. CASE pc' = "decode"
    BY <1>1, <2>1 DEF Startup, client, Stream!vars
  <2>2. CASE pc' = "over" /\ result' = "unlogged"
    BY <1>1, <2>2 DEF Startup, client, Stream!Next, Stream!End
  <2> QED
    BY <1>1, <2>1, <2>2 DEF Startup
<1>2. CASE Handle
  BY <1>2, StreamHandle DEF Stream!Next
<1>3. CASE Refuse \/ NeedMore \/ ReadEnd \/ ReadFails
  BY <1>3 DEF Refuse, NeedMore, ReadEnd, ReadFails, Return, client, Stream!vars
<1>4. CASE Write
  BY <1>4, StreamWrite
<1>5. CASE Read
  BY <1>5, StreamRead
<1>6. CASE Shutdown
  BY <1>6, StreamShutdown DEF Stream!Next
<1>7. CASE Send \/ Receive \/ Hangup
  BY <1>7 DEF Send, Receive, Hangup, Stream!vars
<1>8. CASE UNCHANGED vars
  BY <1>8 DEF vars, client, Stream!vars
<1> QED
  BY <1>1, <1>2, <1>3, <1>4, <1>5, <1>6, <1>7, <1>8 DEF Next, Server

(* The server implements FrameStream: every request of every script is run   *)
(* and answered in order, once, however the reads cut it, and the session    *)
(* ends as the script does.                                                  *)
THEOREM StreamTheorem == Spec => ServesTheStream
<1>1. Init => Stream!Init
  <2> SUFFICES ASSUME Init PROVE Stream!Init
    OBVIOUS
  <2>1. Len(buf) = 0 /\ taken = 0
    BY EmptySeq, Zenon DEF Init
  <2>2. taken - Len(buf) = 0
    BY <2>1
  <2> QED
    BY <2>2 DEF Init, Stream!Init
<1> QED
  BY <1>1, Invariant, StreamNext, PTL DEF Spec, ServesTheStream, Stream!Spec
-----------------------------------------------------------------------------
(* A client that sends the requests r[1], ..., r[n] as encode frames them:   *)
(* g[k] is what is left to send after the first k, and g[0] is its script.   *)
Speaks(n, r, g) ==
    /\ n \in Nat /\ r \in [1 .. n -> Requests] /\ g \in [0 .. n -> Seq(Byte)]
    /\ \A k \in 1 .. n : Len(r[k]) < 256 * (256 * (256 * 256))
    /\ \A k \in 0 .. n : k < n => g[k] = Encode(r[k + 1]) \o g[k + 1]
    /\ g[n] = <<>>

Served(n, r) ==
    /\ Len(ran) <= n /\ \A k \in 1 .. Len(ran) : ran[k] = r[k]
    /\ Len(out) <= n /\ \A k \in 1 .. Len(out) : out[k] = r[k]
    /\ pc = "over" => result \in {"ok", "broken", "unlogged"}
    /\ pc = "over" /\ result = "ok" => Len(out) = n

Along(n, r, g) == Served(n, r) /\ Stream!Left = g[Len(ran)]

(* What is left of such a script is nothing, or has the next request in front.*)
LEMMA NextFrame ==
    ASSUME NEW n, NEW r, NEW g, Speaks(n, r, g), NEW k \in Nat, k <= n
    PROVE  /\ k = n => g[k] = <<>> /\ ~Whole(g[k])
           /\ k < n => /\ g[k] # <<>> /\ Whole(g[k])
                       /\ Body(g[k]) = r[k + 1] /\ r[k + 1] \in Requests
                       /\ After(g[k]) = g[k + 1]
<1>1. CASE k = n
  <2>1. g[k] = <<>> /\ Len(<<>>) = 0
    BY <1>1, EmptySeq DEF Speaks
  <2> QED
    BY <1>1, <2>1 DEF Whole, Prefix
<1>2. CASE k < n
  <2>1. /\ k \in 0 .. n /\ k + 1 \in 1 .. n /\ k + 1 \in 0 .. n
        /\ g[k] = Encode(r[k + 1]) \o g[k + 1] /\ g[k + 1] \in Seq(Byte)
        /\ r[k + 1] \in Requests /\ Len(r[k + 1]) < 256 * (256 * (256 * 256))
    <3>1. k \in 0 .. n /\ k + 1 \in 1 .. n /\ k + 1 \in 0 .. n
      BY <1>2 DEF Speaks
    <3>2. g[k + 1] \in Seq(Byte) /\ r[k + 1] \in Requests
      BY <3>1 DEF Speaks
    <3>3. Len(r[k + 1]) < 256 * (256 * (256 * 256))
      BY <3>1 DEF Speaks
    <3>4. g[k] = Encode(r[k + 1]) \o g[k + 1]
      BY <1>2, <3>1 DEF Speaks
    <3> QED
      BY <3>1, <3>2, <3>3, <3>4
  <2>2. r[k + 1] \in Seq(Byte)
    BY <2>1, StdioAssumption
  <2>3. Whole(g[k]) /\ Body(g[k]) = r[k + 1] /\ After(g[k]) = g[k + 1]
    <3>1. PICK q, rest : q = r[k + 1] /\ rest = g[k + 1]
      OBVIOUS
    <3>2. Whole(Encode(q) \o rest) /\ Body(Encode(q) \o rest) = q /\ After(Encode(q) \o rest) = rest
      BY <2>1, <2>2, <3>1, RoundTrip
    <3> QED
      BY <2>1, <3>1, <3>2
  <2>4. g[k] # <<>>
    BY <2>3, EmptySeq DEF Whole, Prefix
  <2> QED
    BY <1>2, <2>1, <2>3, <2>4
<1> QED
  BY <1>1, <1>2 DEF Speaks

(* A frame taken off what is left leaves what follows it.                    *)
LEMMA LeftAfter ==
    ASSUME Inv, Stream!Run, Whole(Stream!Left)
    PROVE  Stream!Left' = After(Stream!Left) /\ ran' = Append(ran, Body(Stream!Left))
<1>1. PICK at, l : at = taken - Len(buf) /\ l = SubSeq(script, at + 1, Len(script))
  OBVIOUS
<1>2. Stream!Left = l
  BY <1>1 DEF Stream!Left
<1>3. /\ script \in Seq(Byte) /\ at \in Nat /\ Len(script) \in Nat /\ at <= Len(script)
  BY <1>1, Sizes DEF Inv
<1>4. IsPiece(l, script, at, Len(script))
  BY <1>1, <1>3 DEF IsPiece
<1>5. After(l) = SubSeq(script, at + Size(l) + 1, Len(script))
  BY <1>2, <1>4, PieceSame DEF SameFrame
<1>6. Stream!Size(l) = Size(l) /\ Stream!Body(l) = Body(l)
  BY DEF Stream!Size, Stream!Body, Stream!Prefix, Size, Body, Prefix
<1>7. script' = script /\ taken' - Len(buf') = at + Size(l) /\ ran' = Append(ran, Body(l))
  BY <1>1, <1>2, <1>6 DEF Stream!Run
<1> QED
  BY <1>2, <1>5, <1>7 DEF Stream!Left

LEMMA AlongNext ==
    ASSUME NEW n, NEW r, NEW g, Speaks(n, r, g), Inv, Inv', Along(n, r, g), [Next]_vars
    PROVE  Along(n, r, g)'
<1>1. PICK k : k = Len(ran)
  OBVIOUS
<1>2. /\ k \in Nat /\ n \in Nat /\ k <= n /\ Stream!Left = g[k] /\ Len(out) \in Nat
      /\ \A i \in 1 .. k : ran[i] = r[i]
      /\ Len(out) <= n /\ \A i \in 1 .. Len(out) : out[i] = r[i]
      /\ ran \in Seq(Requests) /\ TypeOK /\ TypeOK'
  BY <1>1, Sizes DEF Along, Served, Inv, Speaks, TypeOK
<1>3. [Stream!Next]_(Stream!vars)
  BY StreamNext
<1>4. CASE Stream!Run
  <2>1. Whole(g[k])
    BY <1>2, <1>4 DEF Stream!Run, Stream!Whole, Stream!Size, Stream!Prefix, Whole, Size, Prefix
  <2>2. k < n /\ Body(g[k]) = r[k + 1] /\ r[k + 1] \in Requests /\ After(g[k]) = g[k + 1]
    BY <1>2, <2>1, NextFrame
  <2>3. Stream!Left' = g[k + 1] /\ ran' = Append(ran, r[k + 1])
    BY <1>2, <1>4, <2>1, <2>2, LeftAfter
  <2>4. /\ Len(ran') = k + 1 /\ ran'[k + 1] = r[k + 1]
        /\ \A i \in 1 .. k : ran'[i] = ran[i]
    BY <1>1, <1>2, <2>2, <2>3, AppendProperties
  <2>5. k + 1 <= n /\ \A i \in 1 .. k + 1 : ran'[i] = r[i]
    BY <1>2, <2>2, <2>4
  <2>6. pc' # "over" /\ out' = out
    BY <1>2, <1>4 DEF Stream!Run, TypeOK
  <2> QED
    BY <1>2, <2>3, <2>4, <2>5, <2>6 DEF Along, Served
<1>5. CASE Stream!Answer
  <2>1. /\ UNCHANGED <<script, taken - Len(buf), ran>> /\ out' = ran /\ pc' # "over"
    BY <1>2, <1>5 DEF Stream!Answer, TypeOK
  <2>2. Stream!Left' = Stream!Left
    BY <2>1 DEF Stream!Left
  <2> QED
    BY <1>1, <1>2, <2>1, <2>2 DEF Along, Served
<1>6. CASE Stream!End
  <2>1. UNCHANGED <<script, taken - Len(buf), ran, out>>
    BY <1>6 DEF Stream!End
  <2>2. Stream!Left' = Stream!Left
    BY <2>1 DEF Stream!Left
  <2>3. Stream!Whole(g[k]) <=> Whole(g[k])
    BY DEF Stream!Whole, Stream!Size, Stream!Prefix, Whole, Size, Prefix
  <2>4. Stream!Body(g[k]) = Body(g[k])
    BY DEF Stream!Body, Stream!Size, Stream!Prefix, Body, Size, Prefix
  <2>5. /\ pc' = "over"
        /\ \/ result' \in {"broken", "unlogged"}
           \/ ran = out /\ g[k] = <<>> /\ result' = "ok"
           \/ g[k] # <<>> /\ ~Whole(g[k])
           \/ Whole(g[k]) /\ Body(g[k]) \notin Requests
    BY <1>2, <1>6, <2>3, <2>4 DEF Stream!End
  <2>6. result' \in {"broken", "unlogged"} \/ (result' = "ok" /\ Len(out) = n)
    BY <1>1, <1>2, <2>5, NextFrame
  <2> QED
    BY <1>1, <1>2, <2>1, <2>2, <2>5, <2>6 DEF Along, Served
<1>7. CASE UNCHANGED Stream!vars
  <2>1. UNCHANGED <<script, taken - Len(buf), ran, out>>
        /\ (IF pc = "over" THEN result ELSE "no")' = IF pc = "over" THEN result ELSE "no"
    BY <1>7 DEF Stream!vars
  <2>2. Stream!Left' = Stream!Left
    BY <2>1 DEF Stream!Left
  <2>3. pc' = "over" => pc = "over" /\ result' = result
    BY <1>2, <2>1 DEF TypeOK
  <2> QED
    BY <1>1, <1>2, <2>1, <2>2, <2>3 DEF Along, Served
<1> QED
  BY <1>3, <1>4, <1>5, <1>6, <1>7 DEF Stream!Next

(* rpc.rs:22-57 with lib.rs:173-201: of the requests a client has framed     *)
(* with encode, each below four gigabytes, the ones run and the ones         *)
(* answered are at any time the first of them, in order and each once; the   *)
(* session ends well only when all were answered, never with a complaint     *)
(* about the script, however the reads cut it.                               *)
THEOREM EncodedTheorem ==
    ASSUME NEW n, NEW r, NEW g, Speaks(n, r, g)
    PROVE  Spec /\ script = g[0] => []Served(n, r)
<1>1. Init /\ script = g[0] => Along(n, r, g)
  <2> SUFFICES ASSUME Init, script = g[0] PROVE Along(n, r, g)
    OBVIOUS
  <2>1. Len(<<>>) = 0 /\ n \in Nat
    BY EmptySeq DEF Speaks
  <2>2. taken - Len(buf) = 0 /\ Len(ran) = 0 /\ Len(out) = 0 /\ pc = "start"
    <3>1. buf = <<>> /\ ran = <<>> /\ out = <<>>
      BY DEF Init
    <3>2. Len(buf) = 0 /\ Len(ran) = 0 /\ Len(out) = 0
      BY <2>1, <3>1, Zenon
    <3>3. taken = 0 /\ pc = "start"
      BY DEF Init
    <3>4. taken - Len(buf) = 0
      BY <3>2, <3>3
    <3> QED
      BY <3>2, <3>3, <3>4
  <2>3. script \in Seq(Byte)
    BY StdioAssumption DEF Init
  <2>4. SubSeq(script, 1, Len(script)) = script
    BY <2>3
  <2>5. Stream!Left = g[0]
    BY <2>2, <2>4 DEF Stream!Left
  <2> QED
    BY <2>1, <2>2, <2>5 DEF Along, Served
<1>2. Inv /\ Inv' /\ Along(n, r, g) /\ [Next]_vars => Along(n, r, g)'
  BY AlongNext
<1>3. Along(n, r, g) => Served(n, r)
  BY DEF Along
<1> QED
  BY <1>1, <1>2, <1>3, Invariant, PTL DEF Spec
=============================================================================
