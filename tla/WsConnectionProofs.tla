-------------------------- MODULE WsConnectionProofs --------------------------
(***************************************************************************)
(* Proofs about WsConnection, for every set of payload lengths and masks   *)
(* and any number of frames.  First what the operators of WsHeader do to   *)
(* the bytes of a header; then the inductive invariant IInv of the         *)
(* connection, and from it the properties.                                 *)
(***************************************************************************)
EXTENDS WsConnection, SequenceTheorems, TLAPS

-----------------------------------------------------------------------------
\* The bytes of a header.

\* Writing some bytes of a header writes those and no other
\* (inet_ws.c:60-65, 77-89).
LEMMA PutBytes ==
  ASSUME NEW h \in Headers, NEW a \in Nat, NEW bs \in Seq(Byte), a + Len(bs) <= HdrSize
  PROVE  /\ Put(h, a, bs) \in Headers
         /\ \A i \in 1..HdrSize :
              Put(h, a, bs)[i] = IF i > a /\ i <= a + Len(bs) THEN bs[i - a] ELSE h[i]
<1> DEFINE n == Len(bs)
           l == SubSeq(h, 1, a)
           r == SubSeq(h, a + n + 1, HdrSize)
<1>1. /\ n \in Nat /\ a + n <= 14 /\ HdrSize = 14
      /\ \A i \in 1..14 : h[i] \in Byte
  BY LenProperties DEF HdrSize, Headers
<1>2. /\ l \in Seq(Byte) /\ Len(l) = a
      /\ \A i \in 1..a : l[i] = h[i]
  <2>1. \A i \in 1..a : h[i] \in Byte
    BY <1>1
  <2>2. /\ l \in Seq(Byte) /\ Len(l) = IF 1 <= a THEN a - 1 + 1 ELSE 0
        /\ \A i \in 1..(a - 1 + 1) : l[i] = h[1 + i - 1]
    BY <2>1, SubSeqProperties
  <2> QED BY <2>2
<1>3. /\ r \in Seq(Byte) /\ Len(r) = 14 - a - n
      /\ \A i \in 1..(14 - a - n) : r[i] = h[a + n + i]
  <2>1. \A i \in (a + n + 1)..14 : h[i] \in Byte
    BY <1>1
  <2>2. /\ r \in Seq(Byte)
        /\ Len(r) = IF a + n + 1 <= 14 THEN 14 - (a + n + 1) + 1 ELSE 0
        /\ \A i \in 1..(14 - (a + n + 1) + 1) : r[i] = h[(a + n + 1) + i - 1]
    <3> DEFINE m == a + n + 1
    <3>1. m \in Int /\ r = SubSeq(h, m, 14) /\ \A i \in m..14 : h[i] \in Byte
      BY <1>1, <2>1
    <3> HIDE DEF m, r
    <3>2. /\ r \in Seq(Byte)
          /\ Len(r) = IF m <= 14 THEN 14 - m + 1 ELSE 0
          /\ \A i \in 1..(14 - m + 1) : r[i] = h[m + i - 1]
      BY <3>1, SubSeqProperties
    <3> QED BY <3>2 DEF m
  <2>3. Len(r) = 14 - a - n
    BY <2>2, <1>1
  <2>4. ASSUME NEW i \in 1..(14 - a - n) PROVE r[i] = h[a + n + i]
    <3>1. i \in 1..(14 - (a + n + 1) + 1) /\ (a + n + 1) + i - 1 = a + n + i
      BY <1>1
    <3> QED BY <2>2, <3>1
  <2> QED BY <2>2, <2>3, <2>4
<1> DEFINE lb == l \o bs
<1>4. /\ lb \in Seq(Byte) /\ Len(lb) = a + n
      /\ \A i \in 1..(a + n) : lb[i] = IF i <= a THEN l[i] ELSE bs[i - a]
  <2> HIDE DEF l
  <2> QED BY <1>2, ConcatProperties
<1>5. /\ lb \o r \in Seq(Byte) /\ Len(lb \o r) = 14
      /\ \A i \in 1..14 : (lb \o r)[i] = IF i <= a + n THEN lb[i] ELSE r[i - (a + n)]
  <2> HIDE DEF lb, r
  <2>1. /\ lb \o r \in Seq(Byte) /\ Len(lb \o r) = Len(lb) + Len(r)
        /\ \A i \in 1..(Len(lb) + Len(r)) :
             (lb \o r)[i] = IF i <= Len(lb) THEN lb[i] ELSE r[i - Len(lb)]
    BY <1>3, <1>4, ConcatProperties
  <2>2. Len(lb) + Len(r) = 14
    BY <1>1, <1>3, <1>4
  <2> QED BY <1>4, <2>1, <2>2
<1>6. Put(h, a, bs) = lb \o r
  BY DEF Put
<1>7. Put(h, a, bs) \in Headers
  BY <1>5, <1>6, LenProperties DEF Headers, HdrSize
<1>8. ASSUME NEW i \in 1..14
      PROVE  (lb \o r)[i] = IF i > a /\ i <= a + n THEN bs[i - a] ELSE h[i]
  <2> HIDE DEF lb, r, l
  <2>1. CASE i <= a
    <3>1. i \in 1..a /\ i \in 1..(a + n) /\ i <= a + n /\ ~(i > a)
      BY <1>1, <2>1
    <3>2. (lb \o r)[i] = lb[i]
      BY <1>5, <3>1
    <3>3. lb[i] = h[i]
      BY <1>2, <1>4, <2>1, <3>1
    <3> QED BY <3>1, <3>2, <3>3
  <2>2. CASE i > a /\ i <= a + n
    <3>1. i \in 1..(a + n) /\ ~(i <= a)
      BY <1>1, <2>2
    <3> QED BY <1>4, <1>5, <2>2, <3>1
  <2>3. CASE i > a + n
    <3>1. i - (a + n) \in 1..(14 - a - n) /\ a + n + (i - (a + n)) = i /\ ~(i <= a + n)
      BY <1>1, <2>3
    <3> QED BY <1>3, <1>5, <2>3, <3>1
  <2>4. i <= a \/ (i > a /\ i <= a + n) \/ i > a + n
    BY <1>1
  <2> QED BY <2>1, <2>2, <2>3, <2>4
<1> QED
  <2> HIDE DEF lb, r
  <2> QED BY <1>1, <1>6, <1>7, <1>8

\* The bytes of a length, of two bytes or of the lower four of eight, and the
\* length they give back (inet_ws.c:16-41).
LEMMA TwoBytes ==
  ASSUME NEW n \in Nat, n <= Mask16
  PROVE  /\ n \div 256 \in Byte /\ n % 256 \in Byte
         /\ Number16(n \div 256, n % 256) = n
BY DEF Mask16, Byte, Number16

LEMMA FourBytes ==
  ASSUME NEW n \in Lengths
  PROVE  /\ Bytes4(n) \in Seq(Byte) /\ Len(Bytes4(n)) = 4
         /\ 65536 * Number16(Bytes4(n)[1], Bytes4(n)[2])
              + Number16(Bytes4(n)[3], Bytes4(n)[4]) = n
<1>1. PICK p, q, a, b, c, d \in Int :
        /\ p = n \div 256 /\ q = n \div 65536
        /\ a = q \div 256 /\ b = q % 256 /\ c = p % 256 /\ d = n % 256
  BY DEF Lengths
<1>2. /\ a \in 0..255 /\ b \in 0..255 /\ c \in 0..255 /\ d \in 0..255
      /\ n = 256 * p + d /\ p = 256 * q + c /\ q = 256 * a + b
  BY <1>1 DEF Lengths
<1>3. 65536 * (256 * a + b) + (256 * c + d) = n
  BY <1>2 DEF Lengths
<1>4. Bytes4(n) = <<a, b, c, d>>
  BY <1>1 DEF Bytes4
<1>5. <<a, b, c, d>> \in Seq(Byte) /\ Len(<<a, b, c, d>>) = 4
  BY <1>2 DEF Byte
<1> QED BY <1>3, <1>4, <1>5 DEF Number16

\* Where the mask of a frame of this length is: after the length.
LenEnd(n) == IF n < 126 THEN 2 ELSE IF n <= Mask16 THEN 4 ELSE 10

\* Writing a length into any header: it reads back, the first byte stays, and
\* the mask bit is cleared, whatever was there (inet_ws.c:77-89).
LEMMA PutLenReadsBack ==
  ASSUME NEW h \in Headers, NEW n \in Lengths
  PROVE  /\ PutLen(h, n) \in Headers
         /\ PutLen(h, n)[1] = h[1]
         /\ ~HasMask(PutLen(h, n))
         /\ ws_get_len(PutLen(h, n)) = n
         /\ ws_get_msk(PutLen(h, n)) = LenEnd(n)
<1> DEFINE g == PutLen(h, n)
<1>1. n \in Nat
  BY DEF Lengths
<1>2. CASE n <= 125
  <2> DEFINE bs == <<n>>
  <2>1. bs \in Seq(Byte) /\ Len(bs) = 1 /\ bs[1] = n /\ 1 + Len(bs) <= HdrSize
    BY <1>1, <1>2 DEF Byte, HdrSize
  <2>2. g = Put(h, 1, bs)
    BY <1>1, <1>2 DEF PutLen, Mask16
  <2> HIDE DEF g, bs
  <2>3. g \in Headers /\ g[1] = h[1] /\ g[2] = n
    <3>1. /\ g \in Headers
          /\ \A i \in 1..HdrSize : g[i] = IF i > 1 /\ i <= 1 + Len(bs) THEN bs[i - 1] ELSE h[i]
      BY <2>1, <2>2, PutBytes
    <3> QED BY <2>1, <3>1 DEF HdrSize
  <2>4. Len7(g) = n /\ ~HasMask(g)
    BY <1>1, <1>2, <2>3 DEF Len7, HasMask
  <2>5. n # 126 /\ n # 127 /\ LenEnd(n) = 2
    BY <1>1, <1>2 DEF LenEnd
  <2> QED BY <2>3, <2>4, <2>5 DEF ws_get_len, ws_get_msk, g
<1>3. CASE n > 125 /\ n <= Mask16
  <2> DEFINE bs == <<126, n \div 256, n % 256>>
  <2>1. n \div 256 \in Byte /\ n % 256 \in Byte
    BY <1>1, <1>3, TwoBytes
  <2>2. bs \in Seq(Byte) /\ Len(bs) = 3 /\ bs[1] = 126 /\ bs[2] = n \div 256
        /\ bs[3] = n % 256 /\ 1 + Len(bs) <= HdrSize
    BY <2>1 DEF Byte, HdrSize
  <2>3. g = Put(h, 1, bs)
    BY <1>1, <1>3 DEF PutLen, Mask16
  <2> HIDE DEF g, bs
  <2>4. g \in Headers /\ g[1] = h[1] /\ g[2] = 126 /\ g[3] = n \div 256 /\ g[4] = n % 256
    <3>1. /\ g \in Headers
          /\ \A i \in 1..HdrSize : g[i] = IF i > 1 /\ i <= 1 + Len(bs) THEN bs[i - 1] ELSE h[i]
      <4>1. bs \in Seq(Byte) /\ 1 + Len(bs) <= HdrSize
        BY <2>2
      <4> QED BY <2>3, <4>1, PutBytes
    <3> QED BY <2>2, <3>1 DEF HdrSize
  <2>5. Len7(g) = 126 /\ ~HasMask(g)
    BY <2>4 DEF Len7, HasMask
  <2>6. LenEnd(n) = 4
    BY <1>1, <1>3 DEF LenEnd
  <2>7. Number16(g[3], g[4]) = n
    BY <1>1, <1>3, <2>4, TwoBytes
  <2> QED BY <2>4, <2>5, <2>6, <2>7 DEF ws_get_len, ws_get_msk, g
<1>4. CASE n > Mask16
  <2> DEFINE lo == Bytes4(n)
             up == <<127, 0, 0, 0, 0>>
             bs == up \o lo
  <2>1. lo \in Seq(Byte) /\ Len(lo) = 4
        /\ 65536 * Number16(lo[1], lo[2]) + Number16(lo[3], lo[4]) = n
    BY FourBytes
  <2>2. up \in Seq(Byte) /\ Len(up) = 5 /\ up[1] = 127
    BY DEF Byte
  <2> HIDE DEF lo, up
  <2>3. /\ bs \in Seq(Byte) /\ Len(bs) = 9
        /\ \A i \in 1..9 : bs[i] = IF i <= 5 THEN up[i] ELSE lo[i - 5]
    <3>1. /\ bs \in Seq(Byte) /\ Len(bs) = Len(up) + Len(lo)
          /\ \A i \in 1..(Len(up) + Len(lo)) :
               bs[i] = IF i <= Len(up) THEN up[i] ELSE lo[i - Len(up)]
      <4>1. lo \in Seq(Byte) /\ up \in Seq(Byte)
        BY <2>1, <2>2
      <4> QED BY <4>1, ConcatProperties
    <3> HIDE DEF bs
    <3> QED BY <2>1, <2>2, <3>1
  <2>4. bs[1] = 127 /\ bs[6] = lo[1] /\ bs[7] = lo[2] /\ bs[8] = lo[3] /\ bs[9] = lo[4]
    BY <2>2, <2>3
  <2>5. g = Put(h, 1, bs)
    BY <1>1, <1>4 DEF PutLen, Mask16, lo, up
  <2> HIDE DEF g, bs
  <2>6. 1 + Len(bs) <= HdrSize
    BY <2>3 DEF HdrSize
  <2>7. /\ g \in Headers
        /\ \A i \in 1..14 : g[i] = IF i > 1 /\ i <= 10 THEN bs[i - 1] ELSE h[i]
    <3>1. /\ g \in Headers
          /\ \A i \in 1..HdrSize : g[i] = IF i > 1 /\ i <= 1 + Len(bs) THEN bs[i - 1] ELSE h[i]
      <4>1. bs \in Seq(Byte)
        BY <2>3
      <4> QED BY <2>5, <2>6, <4>1, PutBytes
    <3> QED BY <2>3, <3>1 DEF HdrSize
  <2>8. g[1] = h[1] /\ g[2] = 127 /\ g[7] = lo[1] /\ g[8] = lo[2] /\ g[9] = lo[3] /\ g[10] = lo[4]
    BY <2>4, <2>7
  <2>9. Len7(g) = 127 /\ ~HasMask(g)
    BY <2>8 DEF Len7, HasMask
  <2>10. LenEnd(n) = 10
    BY <1>1, <1>4 DEF LenEnd, Mask16
  <2>11. 65536 * Number16(g[7], g[8]) + Number16(g[9], g[10]) = n
    BY <2>1, <2>8
  <2> QED BY <2>7, <2>8, <2>9, <2>10, <2>11 DEF ws_get_len, ws_get_msk, g
<1> QED BY <1>1, <1>2, <1>3, <1>4 DEF Mask16

\* Two headers with the same seven bits and the same bytes up to the mask have
\* the same length, and their masks are at the same place.
LEMMA SameLength ==
  ASSUME NEW g \in Headers, NEW h \in Headers, Len7(g) = Len7(h),
         \A i \in 3..10 : i <= ws_get_msk(h) => g[i] = h[i]
  PROVE  ws_get_len(g) = ws_get_len(h) /\ ws_get_msk(g) = ws_get_msk(h)
<1>1. ws_get_msk(g) = ws_get_msk(h)
  BY DEF ws_get_msk
<1>2. Len7(h) = 126 => g[3] = h[3] /\ g[4] = h[4]
  BY DEF ws_get_msk
<1>3. Len7(h) = 127 => g[7] = h[7] /\ g[8] = h[8] /\ g[9] = h[9] /\ g[10] = h[10]
  BY DEF ws_get_msk
<1> QED BY <1>1, <1>2, <1>3 DEF ws_get_len

\* A mask is where the length ends, 2, 4 or 10, and within the header.
LEMMA MaskFits ==
  ASSUME NEW h \in Headers
  PROVE  /\ ws_get_msk(h) \in {2, 4, 10}
         /\ Len7(h) \in 0..127
         /\ MaskOf(h) \in [1..4 -> Byte] /\ MaskOf(h) \in Seq(Byte) /\ Len(MaskOf(h)) = 4
         /\ \A i \in 1..4 : MaskOf(h)[i] = h[ws_get_msk(h) + i]
<1>1. ws_get_msk(h) \in {2, 4, 10}
  BY DEF ws_get_msk
<1>2. Len7(h) \in 0..127
  BY DEF Len7, Headers, HdrSize, Byte
<1>3. PICK m \in {2, 4, 10} : m = ws_get_msk(h)
  BY <1>1
<1>4. \A i \in (m + 1)..(m + 4) : h[i] \in Byte
  BY DEF Headers, HdrSize
<1>5. /\ SubSeq(h, m + 1, m + 4) \in Seq(Byte)
      /\ Len(SubSeq(h, m + 1, m + 4)) = 4
      /\ \A i \in 1..4 : SubSeq(h, m + 1, m + 4)[i] = h[m + i]
  <2> DEFINE a == m + 1
             b == m + 4
  <2>1. a \in Int /\ b \in Int /\ a <= b /\ b - a + 1 = 4 /\ \A i \in 1..4 : a + i - 1 = m + i
    OBVIOUS
  <2>2. \A i \in a..b : h[i] \in Byte
    BY <1>4
  <2> HIDE DEF a, b
  <2>3. /\ SubSeq(h, a, b) \in Seq(Byte)
        /\ Len(SubSeq(h, a, b)) = 4
        /\ \A i \in 1..4 : SubSeq(h, a, b)[i] = h[m + i]
    BY <2>1, <2>2, SubSeqProperties
  <2> QED BY <2>3 DEF a, b
<1>6. MaskOf(h) = SubSeq(h, m + 1, m + 4)
  BY <1>3 DEF MaskOf
<1> HIDE DEF MaskOf
<1>7. MaskOf(h) \in [1..4 -> Byte]
  BY <1>5, <1>6, LenProperties
<1> QED BY <1>1, <1>2, <1>3, <1>5, <1>6, <1>7

\* Writing a mask: it reads back, and the length stays (inet_ws.c:60-65).
LEMMA SetMaskReadsBack ==
  ASSUME NEW h \in Headers, NEW mask \in [1..4 -> Byte]
  PROVE  /\ ws_set_msk(h, mask) \in Headers
         /\ ws_set_msk(h, mask)[1] = h[1]
         /\ HasMask(ws_set_msk(h, mask))
         /\ ws_get_len(ws_set_msk(h, mask)) = ws_get_len(h)
         /\ ws_get_msk(ws_set_msk(h, mask)) = ws_get_msk(h)
         /\ MaskOf(ws_set_msk(h, mask)) = mask
<1> DEFINE h2 == [h EXCEPT ![2] = 128 + Len7(h)]
           g  == ws_set_msk(h, mask)
<1>1. Len7(h) \in 0..127
  BY MaskFits
<1>2. /\ h2 \in Headers /\ h2[2] = 128 + Len7(h)
      /\ \A i \in 1..14 : i # 2 => h2[i] = h[i]
  BY <1>1 DEF Headers, HdrSize, Byte
<1>3. mask \in Seq(Byte) /\ Len(mask) = 4
  <2>1. mask \in Seq(Byte)
    BY SeqDef
  <2>2. Len(mask) \in Nat /\ DOMAIN mask = 1..Len(mask) /\ DOMAIN mask = 1..4
    BY <2>1, LenProperties
  <2> QED BY <2>1, <2>2
<1>4. g = Put(h2, ws_get_msk(h2), mask)
  BY DEF ws_set_msk
<1> HIDE DEF h2, g
<1>5. Len7(h2) = Len7(h)
  BY <1>1, <1>2 DEF Len7
<1>6. PICK m \in {2, 4, 10} : m = ws_get_msk(h) /\ m = ws_get_msk(h2)
  BY <1>5, MaskFits DEF ws_get_msk
<1>7. /\ g \in Headers
      /\ \A i \in 1..14 : g[i] = IF i > m /\ i <= m + 4 THEN mask[i - m] ELSE h2[i]
  <2>1. m \in Nat /\ m + Len(mask) <= HdrSize
    BY <1>3 DEF HdrSize
  <2>2. g = Put(h2, m, mask)
    BY <1>4, <1>6
  <2>3. /\ Put(h2, m, mask) \in Headers
        /\ \A i \in 1..HdrSize :
             Put(h2, m, mask)[i] = IF i > m /\ i <= m + Len(mask) THEN mask[i - m] ELSE h2[i]
    BY <1>2, <1>3, <2>1, PutBytes
  <2> QED BY <1>3, <2>2, <2>3 DEF HdrSize
<1>8. g[1] = h[1] /\ g[2] = h2[2]
  BY <1>2, <1>7
<1>9. Len7(g) = Len7(h) /\ HasMask(g)
  BY <1>1, <1>2, <1>5, <1>8 DEF Len7, HasMask
<1>10. \A i \in 3..10 : i <= m => g[i] = h[i]
  BY <1>2, <1>7
<1>11. ws_get_len(g) = ws_get_len(h) /\ ws_get_msk(g) = m
  BY <1>6, <1>7, <1>9, <1>10, SameLength
<1>12. \A i \in 1..4 : g[m + i] = mask[i]
  <2> TAKE i \in 1..4
  <2>1. m + i \in 1..14 /\ m + i > m /\ m + i <= m + 4 /\ (m + i) - m = i
    OBVIOUS
  <2> QED BY <1>7, <2>1
<1>13. MaskOf(g) = mask
  <2>1. MaskOf(g) \in Seq(Byte) /\ Len(MaskOf(g)) = 4 /\ \A i \in 1..4 : MaskOf(g)[i] = mask[i]
    BY <1>7, <1>11, <1>12, MaskFits
  <2> QED BY <1>3, <2>1, SeqEqual
<1> QED BY <1>6, <1>7, <1>8, <1>9, <1>11, <1>13 DEF g

\* Setting a length keeps the mask and moves it (inet_ws.c:73-93).
LEMMA SetLenReadsBack ==
  ASSUME NEW h \in Headers, NEW n \in Lengths
  PROVE  /\ ws_set_len(h, n) \in Headers
         /\ ws_set_len(h, n)[1] = h[1]
         /\ ws_get_len(ws_set_len(h, n)) = n
         /\ ws_get_msk(ws_set_len(h, n)) = LenEnd(n)
<1> DEFINE p == PutLen(h, n)
<1>1. /\ p \in Headers /\ p[1] = h[1] /\ ws_get_len(p) = n /\ ws_get_msk(p) = LenEnd(n)
  BY PutLenReadsBack
<1>2. MaskOf(h) \in [1..4 -> Byte]
  BY MaskFits
<1> DEFINE m == ws_set_msk(p, MaskOf(h))
<1>3. ws_set_len(h, n) = IF HasMask(h) THEN m ELSE p
  BY DEF ws_set_len
<1> HIDE DEF p
<1>4. /\ m \in Headers /\ m[1] = p[1] /\ ws_get_len(m) = ws_get_len(p)
      /\ ws_get_msk(m) = ws_get_msk(p)
  BY <1>1, <1>2, SetMaskReadsBack
<1> HIDE DEF m
<1> QED BY <1>1, <1>3, <1>4

\* What the server writes over any header says what is meant: the code and the
\* end-of-message bit, no mask, and the length in its shortest form
\* (ducq_ws.c:75-103).
LEMMA OutgoingSays ==
  ASSUME NEW h \in Headers, NEW op \in {TEXT, PONG, CLOSE}, NEW n \in Lengths
  PROVE  /\ Outgoing(h, op, n) \in Headers
         /\ Outgoing(h, op, n)[1] = FIN + op
         /\ ~HasMask(Outgoing(h, op, n))
         /\ ws_get_len(Outgoing(h, op, n)) = n
         /\ ws_get_msk(Outgoing(h, op, n)) = LenEnd(n)
<1> DEFINE h1 == [h EXCEPT ![1] = FIN + op]
           l  == ws_set_len(h1, n)
           g  == Outgoing(h, op, n)
<1>1. h1 \in Headers /\ h1[1] = FIN + op
  BY DEF Headers, HdrSize, Byte, FIN, TEXT, PONG, CLOSE
<1> HIDE DEF h1
<1>2. l \in Headers /\ l[1] = FIN + op /\ ws_get_len(l) = n /\ ws_get_msk(l) = LenEnd(n)
  BY <1>1, SetLenReadsBack
<1> HIDE DEF l
<1>3. g = [l EXCEPT ![2] = Len7(l)]
  BY DEF Outgoing, l, h1
<1>4. Len7(l) \in 0..127
  BY <1>2, MaskFits
<1>5. /\ g \in Headers /\ g[2] = Len7(l)
      /\ \A i \in 1..14 : i # 2 => g[i] = l[i]
  BY <1>2, <1>3, <1>4 DEF Headers, HdrSize, Byte
<1> HIDE DEF g
<1>6. Len7(g) = Len7(l) /\ ~HasMask(g)
  BY <1>4, <1>5 DEF Len7, HasMask
<1>7. ws_get_len(g) = n /\ ws_get_msk(g) = LenEnd(n)
  <2>1. \A i \in 3..10 : i <= ws_get_msk(l) => g[i] = l[i]
    BY <1>5
  <2> QED BY <1>2, <1>5, <1>6, <2>1, SameLength
<1> QED BY <1>2, <1>5, <1>6, <1>7 DEF g

\* A frame of the peer, as the proofs need it.
LEMMA FrameFields ==
  ASSUME NEW f \in Frames
  PROVE  /\ f.op \in {CONT, TEXT, CLOSE, PING, PONG} /\ f.fin \in BOOLEAN
         /\ f.len \in Lengths /\ f.mask \in [1..4 -> Byte] /\ f.whole \in BOOLEAN
         /\ f.op \in {CLOSE, PING, PONG} => f.fin /\ f.len < 126
BY WsAssumption DEF Frames

\* The header of a peer's frame fits, and read over any header it gives back
\* the frame's code, length and mask; a part of it leaves a header
\* (ducq_ws.c:123-135).
PeerByte0(f) == (IF f.fin THEN FIN ELSE 0) + f.op

LEMMA PeerHeaderReadsBack ==
  ASSUME NEW f \in Frames, NEW h \in Headers
  PROVE  /\ PeerHeader(f) \in Seq(Byte) /\ Len(PeerHeader(f)) \in 6..14
         /\ Put(h, 0, PeerHeader(f)) \in Headers
         /\ Put(h, 0, PeerHeader(f))[1] = PeerByte0(f)
         /\ ws_get_len(Put(h, 0, PeerHeader(f))) = f.len
         /\ MaskOf(Put(h, 0, PeerHeader(f))) = f.mask
<1> DEFINE p  == PutLen(NewHeader, f.len)
           p1 == [p EXCEPT ![1] = PeerByte0(f)]
           m  == ws_set_msk(p1, f.mask)
           bs == PeerHeader(f)
           g  == Put(h, 0, bs)
<1>1. NewHeader \in Headers
  BY DEF NewHeader, Headers, Byte
<1>2. PeerByte0(f) \in Byte
  BY FrameFields DEF PeerByte0, Byte, FIN, CONT, TEXT, CLOSE, PING, PONG
<1>3. f.len \in Lengths /\ f.mask \in [1..4 -> Byte]
  BY FrameFields
<1>4. p \in Headers /\ ~HasMask(p) /\ ws_get_len(p) = f.len /\ ws_get_msk(p) = LenEnd(f.len)
  BY <1>1, <1>3, PutLenReadsBack
<1> HIDE DEF p
<1>5. /\ p1 \in Headers /\ p1[1] = PeerByte0(f)
      /\ \A i \in 1..14 : i # 1 => p1[i] = p[i]
  BY <1>2, <1>4 DEF Headers, HdrSize
<1> HIDE DEF p1
<1>6. ws_get_len(p1) = f.len
  <2>1. Len7(p1) = Len7(p)
    BY <1>5 DEF Len7
  <2>2. \A i \in 3..10 : i <= ws_get_msk(p) => p1[i] = p[i]
    BY <1>5
  <2> QED BY <1>4, <1>5, <2>1, <2>2, SameLength
<1>7. /\ m \in Headers /\ m[1] = PeerByte0(f) /\ HasMask(m)
      /\ ws_get_len(m) = f.len /\ MaskOf(m) = f.mask
  BY <1>3, <1>5, <1>6, SetMaskReadsBack
<1> HIDE DEF m
<1>8. PICK k \in {2, 4, 10} : k = ws_get_msk(m) /\ ws_get_hdr_len(m) = k + 4
  BY <1>7, MaskFits DEF ws_get_hdr_len
<1>9. bs = SubSeq(m, 1, k + 4)
  BY <1>8 DEF PeerHeader, m, p1, p, PeerByte0
<1>10. /\ bs \in Seq(Byte) /\ Len(bs) = k + 4
       /\ \A i \in 1..(k + 4) : bs[i] = m[i]
  <2> DEFINE e == k + 4
  <2>1. e \in Int /\ e >= 1 /\ e <= 14
    OBVIOUS
  <2>2. \A i \in 1..e : m[i] \in Byte
    BY <1>7, <2>1 DEF Headers, HdrSize
  <2> HIDE DEF e
  <2>3. /\ SubSeq(m, 1, e) \in Seq(Byte)
        /\ Len(SubSeq(m, 1, e)) = IF 1 <= e THEN e - 1 + 1 ELSE 0
        /\ \A i \in 1..(e - 1 + 1) : SubSeq(m, 1, e)[i] = m[1 + i - 1]
    BY <2>1, <2>2, SubSeqProperties
  <2>4. /\ Len(SubSeq(m, 1, e)) = e
        /\ \A i \in 1..e : SubSeq(m, 1, e)[i] = m[i]
    BY <2>1, <2>3
  <2> QED BY <1>9, <2>3, <2>4 DEF e
<1> HIDE DEF bs
<1>11. /\ g \in Headers
       /\ \A i \in 1..14 : i <= k + 4 => g[i] = m[i]
  <2>1. 0 \in Nat /\ 0 + Len(bs) <= HdrSize
    BY <1>10 DEF HdrSize
  <2>2. /\ g \in Headers
        /\ \A i \in 1..HdrSize : g[i] = IF i > 0 /\ i <= 0 + Len(bs) THEN bs[i - 0] ELSE h[i]
    BY <1>10, <2>1, PutBytes
  <2> QED BY <1>10, <2>2 DEF HdrSize
<1> HIDE DEF g
<1>12. g[1] = PeerByte0(f) /\ Len7(g) = Len7(m)
  BY <1>7, <1>11 DEF Len7
<1>13. ws_get_len(g) = f.len /\ ws_get_msk(g) = k
  <2>1. \A i \in 3..10 : i <= ws_get_msk(m) => g[i] = m[i]
    BY <1>8, <1>11
  <2> QED BY <1>7, <1>8, <1>11, <1>12, <2>1, SameLength
<1>14. MaskOf(g) = MaskOf(m)
  <2>1. \A i \in 1..4 : k + i \in 1..14 /\ k + i <= k + 4
    OBVIOUS
  <2>2. \A i \in 1..4 : g[k + i] = m[k + i]
    BY <1>11, <2>1
  <2>3. /\ MaskOf(g) \in Seq(Byte) /\ Len(MaskOf(g)) = 4
        /\ \A i \in 1..4 : MaskOf(g)[i] = g[k + i]
    BY <1>11, <1>13, MaskFits
  <2>4. /\ MaskOf(m) \in Seq(Byte) /\ Len(MaskOf(m)) = 4
        /\ \A i \in 1..4 : MaskOf(m)[i] = m[k + i]
    BY <1>7, <1>8, MaskFits
  <2> QED BY <2>2, <2>3, <2>4, SeqEqual
<1> QED BY <1>7, <1>10, <1>11, <1>12, <1>13, <1>14 DEF g, bs

\* What is left in the buffer by a header that was cut is a header.
LEMMA CutHeader ==
  ASSUME NEW f \in Frames, NEW h \in Headers, NEW k \in 0..Len(PeerHeader(f))
  PROVE  Put(h, 0, SubSeq(PeerHeader(f), 1, k)) \in Headers
<1> DEFINE bs == PeerHeader(f)
           c  == SubSeq(bs, 1, k)
<1>1. bs \in Seq(Byte) /\ Len(bs) \in 6..14
  BY PeerHeaderReadsBack
<1> HIDE DEF bs
<1>2. k \in Int /\ k <= 14 /\ k >= 0 /\ \A i \in 1..k : bs[i] \in Byte
  BY <1>1, ElementOfSeq DEF bs
<1>3. c \in Seq(Byte) /\ Len(c) = IF 1 <= k THEN k - 1 + 1 ELSE 0
  BY <1>2, SubSeqProperties
<1> HIDE DEF c
<1>4. 0 \in Nat /\ 0 + Len(c) <= HdrSize
  BY <1>2, <1>3 DEF HdrSize
<1>5. Put(h, 0, c) \in Headers
  BY <1>3, <1>4, PutBytes
<1> QED BY <1>5 DEF c, bs

-----------------------------------------------------------------------------
\* The inductive invariant.

\* A frame of the server that says what is meant.
Says(r) ==
  r.op \in {TEXT, PONG, CLOSE} =>
    /\ r.wire[1] = FIN + r.op
    /\ ~HasMask(r.wire)
    /\ ws_get_len(r.wire) = r.len
    /\ ws_get_hdr_len(r.wire) = IF r.len < 126 THEN 2 ELSE IF r.len <= Mask16 THEN 4 ELSE 10

Words == [op : {101, 400, TEXT, PONG, CLOSE}, len : Lengths, wire : Headers,
          status : {0, 1000, 1001}]
Said  == {r \in Words : Says(r)}

\* What has been said while the connection lasts, and ever.
Talk(s) ==
  /\ Len(s) >= 1 /\ s[1].op = 101
  /\ \A i \in 2..Len(s) : s[i].op \in {TEXT, PONG}

Proper(s) ==
  \A i \in 1..Len(s) :
    /\ s[i].op \in {101, 400} <=> i = 1
    /\ s[i].op = 400 => Len(s) = 1
    /\ s[i].op = CLOSE => i = Len(s)

\* The messages received, g, and those of the frames under way, q, are the
\* messages sent, t: d[i] is what has arrived with the i-th frame of q.
Message(f) == f.whole /\ f.fin /\ f.op = TEXT
Arrived(g, f) == IF Message(f) THEN Append(g, f.len) ELSE g

Order(q, g, t) ==
  \E d \in [0..Len(q) -> Prefixes(t)] :
    /\ d[0] = g /\ d[Len(q)] = t
    /\ \A i \in 1..Len(q) : d[i] = Arrived(d[i - 1], q[i])

\* Before the upgrade nothing has been said, and there is one request at most.
Http ==
  /\ sent = <<>> /\ texts = <<>> /\ got = <<>>
  /\ inq = <<>> \/ \E r \in Requests : inq = <<r>>

Phase ==
  /\ fd = "open" => ws \in {"none", "WS_OPEN"}
  /\ fd = "open" /\ ws = "none" => Http
  /\ fd = "open" /\ ws = "WS_OPEN" =>
       Talk(sent) /\ inq \in Seq(Frames) /\ Order(inq, got, texts)
  /\ fd # "open" => Proper(sent)

IInv ==
  /\ TypeOK
  /\ sent \in Seq(Said)
  /\ texts \in Seq(Lengths) /\ got \in Prefixes(texts)
  /\ Phase

\* A frame written with the header that ws_send has made is one that says what
\* is meant (ducq_ws.c:75-103).
LEMMA RecordIsSaid ==
  ASSUME NEW h \in Headers, NEW op \in {TEXT, PONG, CLOSE}, NEW n \in Lengths,
         NEW status \in {0, 1000, 1001}
  PROVE  /\ Record(Outgoing(h, op, n), op, n, status) \in Said
         /\ Record(Outgoing(h, op, n), op, n, status).op = op
         /\ Record(Outgoing(h, op, n), op, n, status).status = status
<1> DEFINE g == Outgoing(h, op, n)
           r == Record(g, op, n, status)
<1>1. /\ g \in Headers /\ g[1] = FIN + op /\ ~HasMask(g)
      /\ ws_get_len(g) = n /\ ws_get_msk(g) = LenEnd(n)
  BY OutgoingSays
<1> HIDE DEF g
<1>2. r = [op |-> op, len |-> n, wire |-> g, status |-> status]
  BY DEF Record
<1>3. r \in Words /\ r.op = op /\ r.len = n /\ r.wire = g /\ r.status = status
  BY <1>1, <1>2 DEF Words
<1> HIDE DEF r
<1>4. ws_get_hdr_len(g) = IF n < 126 THEN 2 ELSE IF n <= Mask16 THEN 4 ELSE 10
  BY <1>1 DEF ws_get_hdr_len, LenEnd
<1>5. Says(r)
  BY <1>1, <1>3, <1>4 DEF Says
<1>6. r \in Said
  BY <1>3, <1>5 DEF Said
<1> QED BY <1>3, <1>6 DEF r, g

\* So are the replies of HTTP.
LEMMA ReplyIsSaid ==
  ASSUME NEW line \in {101, 400}, hdr \in Headers
  PROVE  Reply(line) \in Said /\ Reply(line).op = line
<1>1. 0 \in Lengths
  BY DEF Lengths
<1>2. Reply(line) \in Words /\ Reply(line).op = line
  BY <1>1 DEF Reply, Words
<1>3. line \notin {TEXT, PONG, CLOSE}
  BY DEF TEXT, PONG, CLOSE
<1> QED BY <1>2, <1>3 DEF Said, Says

\* What is said.
LEMMA SaidFields ==
  ASSUME NEW r \in Said
  PROVE  r \in Words /\ r.op \in {101, 400, TEXT, PONG, CLOSE} /\ Says(r)
BY DEF Said, Words

\* One more frame in the conversation (ducq_ws.c:154-158, 166-173).
LEMMA TalkGoesOn ==
  ASSUME NEW s \in Seq(Said), Talk(s), NEW r \in Said, r.op \in {TEXT, PONG}
  PROVE  Append(s, r) \in Seq(Said) /\ Talk(Append(s, r))
<1> DEFINE t == Append(s, r)
<1>1. /\ t \in Seq(Said) /\ Len(t) = Len(s) + 1 /\ Len(s) \in Nat
      /\ \A i \in 1..Len(s) : t[i] = s[i]
      /\ t[Len(s) + 1] = r
  BY AppendProperties, LenProperties
<1> HIDE DEF t
<1>2. Len(t) >= 1 /\ t[1].op = 101
  BY <1>1 DEF Talk
<1>3. ASSUME NEW i \in 2..Len(t) PROVE t[i].op \in {TEXT, PONG}
  <2>1. i \in 2..Len(s) \/ i = Len(s) + 1
    BY <1>1
  <2>2. i \in 2..Len(s) => t[i] = s[i]
    BY <1>1
  <2> QED BY <1>1, <2>1, <2>2 DEF Talk
<1> QED BY <1>1, <1>2, <1>3 DEF Talk, t

\* A conversation is proper, and so is one that a CLOSE ends
\* (ducq_ws.c:191-228).
LEMMA TalkIsProper ==
  ASSUME NEW s \in Seq(Said), Talk(s)
  PROVE  Proper(s)
<1>1. Len(s) \in Nat
  BY LenProperties
<1>2. ASSUME NEW i \in 1..Len(s)
      PROVE  /\ s[i].op \in {101, 400} <=> i = 1
             /\ s[i].op # 400 /\ s[i].op # CLOSE
  <2>1. i = 1 \/ i \in 2..Len(s)
    BY <1>1
  <2>2. CASE i = 1
    BY <2>2 DEF Talk, CLOSE
  <2>3. CASE i \in 2..Len(s)
    <3>1. s[i].op \in {TEXT, PONG} /\ i # 1
      BY <2>3 DEF Talk
    <3> QED BY <3>1 DEF TEXT, PONG, CLOSE
  <2> QED BY <2>1, <2>2, <2>3
<1> QED BY <1>2 DEF Proper

LEMMA TalkEnds ==
  ASSUME NEW s \in Seq(Said), Talk(s),
         NEW out \in Seq(Said), \A i \in 1..Len(out) : out[i].op \in {TEXT, PONG},
         NEW r \in Said, r.op = CLOSE
  PROVE  LET t == (s \o out) \o <<r>>
         IN  /\ t \in Seq(Said) /\ Proper(t)
             /\ Len(t) >= 2 /\ t[1].op = 101 /\ t[Len(t)] = r
<1> DEFINE u == s \o out
           t == u \o <<r>>
<1>1. /\ u \in Seq(Said) /\ Len(u) = Len(s) + Len(out)
      /\ \A i \in 1..(Len(s) + Len(out)) : u[i] = IF i <= Len(s) THEN s[i] ELSE out[i - Len(s)]
      /\ Len(s) \in Nat /\ Len(out) \in Nat
  BY ConcatProperties, LenProperties
<1>2. Talk(u)
  <2> HIDE DEF u
  <2>1. Len(u) >= 1 /\ u[1].op = 101
    BY <1>1 DEF Talk
  <2>2. ASSUME NEW i \in 2..Len(u) PROVE u[i].op \in {TEXT, PONG}
    <3>1. CASE i <= Len(s)
      BY <1>1, <3>1 DEF Talk
    <3>2. CASE ~(i <= Len(s))
      <4>1. i - Len(s) \in 1..Len(out) /\ u[i] = out[i - Len(s)]
        BY <1>1, <3>2
      <4> QED BY <4>1
    <3> QED BY <3>1, <3>2
  <2> QED BY <2>1, <2>2 DEF Talk
<1> HIDE DEF u
<1>3. t = Append(u, r)
  BY <1>1, AppendIsConcat
<1> HIDE DEF t
<1>4. /\ t \in Seq(Said) /\ Len(t) = Len(u) + 1 /\ Len(u) \in Nat
      /\ \A i \in 1..Len(u) : t[i] = u[i]
      /\ t[Len(u) + 1] = r
  BY <1>1, <1>3, AppendProperties, LenProperties
<1>5. Len(t) >= 2 /\ t[1].op = 101
  BY <1>2, <1>4 DEF Talk
<1>6. Proper(t)
  <2>1. Proper(u)
    BY <1>1, <1>2, TalkIsProper
  <2>2. ASSUME NEW i \in 1..Len(t)
        PROVE  /\ t[i].op \in {101, 400} <=> i = 1
               /\ t[i].op # 400
               /\ t[i].op = CLOSE => i = Len(t)
    <3>1. CASE i = Len(t)
      <4>1. t[i].op = CLOSE /\ i # 1
        BY <1>4, <1>5, <3>1
      <4> QED BY <3>1, <4>1 DEF CLOSE
    <3>2. CASE i # Len(t)
      <4>1. i \in 1..Len(u) /\ t[i] = u[i]
        BY <1>4, <3>2
      <4>2. i = 1 \/ i \in 2..Len(u)
        BY <4>1, <1>4
      <4>3. u[i].op = 101 \/ u[i].op \in {TEXT, PONG}
        BY <1>2, <4>2 DEF Talk
      <4> QED BY <2>1, <4>1, <4>3 DEF Proper, TEXT, PONG, CLOSE
    <3> QED BY <3>1, <3>2
  <2> QED BY <2>2 DEF Proper
<1>7. t \in Seq(Said) /\ Proper(t) /\ Len(t) >= 2 /\ t[1].op = 101 /\ t[Len(t)] = r
  BY <1>4, <1>5, <1>6
<1> QED BY <1>7 DEF t, u

\* Prefixes: of a sequence, of a longer one, and IsPrefix.
LEMMA PrefixFacts ==
  ASSUME NEW S, NEW t \in Seq(S)
  PROVE  /\ t \in Prefixes(t)
         /\ <<>> \in Prefixes(t)
         /\ \A s \in Prefixes(t) :
              /\ s \in Seq(S) /\ IsPrefix(s, t)
              /\ \A e \in S : s \in Prefixes(Append(t, e))
<1>1. Len(t) \in Nat /\ \A i \in 1..Len(t) : t[i] \in S
  BY LenProperties, ElementOfSeq
<1>2. ASSUME NEW n \in 0..Len(t)
      PROVE  /\ SubSeq(t, 1, n) \in Seq(S) /\ Len(SubSeq(t, 1, n)) = n
             /\ \A i \in 1..n : SubSeq(t, 1, n)[i] = t[i]
  <2>1. n \in Int /\ \A i \in 1..n : t[i] \in S
    BY <1>1
  <2>2. /\ SubSeq(t, 1, n) \in Seq(S)
        /\ Len(SubSeq(t, 1, n)) = IF 1 <= n THEN n - 1 + 1 ELSE 0
        /\ \A i \in 1..(n - 1 + 1) : SubSeq(t, 1, n)[i] = t[1 + i - 1]
    BY <2>1, SubSeqProperties
  <2> QED BY <1>1, <2>2
<1>3. t \in Prefixes(t)
  <2>1. SubSeq(t, 1, Len(t)) = t
    BY <1>1, <1>2, SeqEqual
  <2>2. PICK n \in 0..Len(t) : n = Len(t)
    BY <1>1
  <2>3. t = SubSeq(t, 1, n)
    BY <2>1, <2>2
  <2> QED BY <2>3 DEF Prefixes
<1>4. <<>> \in Prefixes(t)
  <2>1. SubSeq(t, 1, 0) = <<>> /\ 0 \in 0..Len(t)
    BY <1>1, SubSeqEmpty
  <2> QED BY <2>1 DEF Prefixes
<1>5. ASSUME NEW s \in Prefixes(t)
      PROVE  /\ s \in Seq(S) /\ IsPrefix(s, t)
             /\ \A e \in S : s \in Prefixes(Append(t, e))
  <2>1. PICK n \in 0..Len(t) : s = SubSeq(t, 1, n)
    BY DEF Prefixes
  <2>2. s \in Seq(S) /\ Len(s) = n /\ n <= Len(t) /\ n \in Nat /\ \A i \in 1..n : s[i] = t[i]
    BY <1>1, <1>2, <2>1
  <2>3. SubSeq(s, 1, n) = s
    <3>1. n \in Int /\ \A i \in 1..n : s[i] \in S
      BY <1>1, <2>2
    <3>2. /\ SubSeq(s, 1, n) \in Seq(S)
          /\ Len(SubSeq(s, 1, n)) = IF 1 <= n THEN n - 1 + 1 ELSE 0
          /\ \A i \in 1..(n - 1 + 1) : SubSeq(s, 1, n)[i] = s[1 + i - 1]
      BY <3>1, SubSeqProperties
    <3>3. Len(SubSeq(s, 1, n)) = n /\ \A i \in 1..n : SubSeq(s, 1, n)[i] = s[i]
      BY <2>2, <3>2
    <3> QED BY <2>2, <3>2, <3>3, SeqEqual
  <2>4. IsPrefix(s, t)
    BY <2>1, <2>2, <2>3 DEF IsPrefix
  <2>5. ASSUME NEW e \in S PROVE s \in Prefixes(Append(t, e))
    <3> DEFINE u == Append(t, e)
    <3>1. /\ u \in Seq(S) /\ Len(u) = Len(t) + 1 /\ \A i \in 1..Len(t) : u[i] = t[i]
      BY AppendProperties
    <3> HIDE DEF u
    <3>2. n \in 0..Len(u) /\ n \in Int /\ \A i \in 1..n : u[i] = s[i] /\ u[i] \in S
      BY <1>1, <2>2, <3>1
    <3>3. /\ SubSeq(u, 1, n) \in Seq(S)
          /\ Len(SubSeq(u, 1, n)) = IF 1 <= n THEN n - 1 + 1 ELSE 0
          /\ \A i \in 1..(n - 1 + 1) : SubSeq(u, 1, n)[i] = u[1 + i - 1]
      BY <3>2, SubSeqProperties
    <3>4. Len(SubSeq(u, 1, n)) = n /\ \A i \in 1..n : SubSeq(u, 1, n)[i] = s[i]
      BY <2>2, <3>2, <3>3
    <3>5. SubSeq(u, 1, n) = s
      BY <2>2, <3>3, <3>4, SeqEqual
    <3> QED BY <3>2, <3>5 DEF Prefixes, u
  <2> QED BY <2>2, <2>4, <2>5
<1> QED BY <1>3, <1>4, <1>5

\* The order of the messages, when the peer sends a frame ...
LEMMA OrderAfterSending ==
  ASSUME NEW q \in Seq(Frames), NEW g, NEW t \in Seq(Lengths), Order(q, g, t),
         NEW f \in Frames
  PROVE  /\ Order(Append(q, f), g, Arrived(t, f))
         /\ Arrived(t, f) \in Seq(Lengths)
<1> DEFINE u == Arrived(t, f)
           p == Append(q, f)
           n == Len(q)
<1>1. /\ n \in Nat /\ Len(p) = n + 1 /\ p[n + 1] = f
      /\ \A i \in 1..n : p[i] = q[i]
  BY AppendProperties, LenProperties
<1>2. f.len \in Lengths
  BY FrameFields
<1>3. u \in Seq(Lengths) /\ \A s \in Prefixes(t) : s \in Prefixes(u)
  BY <1>2, PrefixFacts, AppendProperties DEF Arrived
<1>4. u \in Prefixes(u)
  BY <1>3, PrefixFacts
<1>5. PICK d \in [0..n -> Prefixes(t)] :
        /\ d[0] = g /\ d[n] = t
        /\ \A i \in 1..n : d[i] = Arrived(d[i - 1], q[i])
  BY DEF Order
<1> DEFINE e == [i \in 0..(n + 1) |-> IF i <= n THEN d[i] ELSE u]
<1>6. e \in [0..(n + 1) -> Prefixes(u)]
  <2>1. \A i \in 0..(n + 1) : (IF i <= n THEN d[i] ELSE u) \in Prefixes(u)
    BY <1>1, <1>3, <1>4
  <2> QED BY <2>1
<1>7. e[n + 1] = u /\ \A i \in 0..n : e[i] = d[i]
  BY <1>1
<1> HIDE DEF e, p, u, n
<1>8. e[0] = g
  BY <1>1, <1>5, <1>7
<1>9. ASSUME NEW i \in 1..(n + 1) PROVE e[i] = Arrived(e[i - 1], p[i])
  <2>1. CASE i = n + 1
    <3>1. e[i] = u /\ e[i - 1] = t /\ p[i] = f
      BY <1>1, <1>5, <1>7, <2>1
    <3> QED BY <3>1 DEF u
  <2>2. CASE i # n + 1
    <3>1. i \in 1..n /\ i - 1 \in 0..n /\ i \in 0..n
      BY <1>1, <2>2
    <3>2. e[i] = d[i] /\ e[i - 1] = d[i - 1] /\ p[i] = q[i]
      BY <1>1, <1>7, <3>1
    <3> QED BY <1>5, <3>1, <3>2
  <2> QED BY <2>1, <2>2
<1>10. Order(p, g, u)
  BY <1>1, <1>6, <1>7, <1>8, <1>9 DEF Order
<1> QED BY <1>3, <1>10 DEF p, u

\* ... and when the server receives one.
LEMMA OrderAfterReceiving ==
  ASSUME NEW q \in Seq(Frames), q # <<>>, NEW g, NEW t \in Seq(Lengths), Order(q, g, t)
  PROVE  /\ Order(Tail(q), Arrived(g, Head(q)), t)
         /\ Arrived(g, Head(q)) \in Prefixes(t)
<1> DEFINE p == Tail(q)
           n == Len(q)
           h == Arrived(g, Head(q))
<1>1. /\ n \in Nat /\ n >= 1 /\ Len(p) = n - 1
      /\ \A i \in 1..(n - 1) : p[i] = q[i + 1]
  BY HeadTailProperties, LenProperties, EmptySeq
<1>2. Head(q) = q[1]
  BY <1>1
<1>3. PICK d \in [0..n -> Prefixes(t)] :
        /\ d[0] = g /\ d[n] = t
        /\ \A i \in 1..n : d[i] = Arrived(d[i - 1], q[i])
  BY DEF Order
<1> DEFINE e == [i \in 0..(n - 1) |-> d[i + 1]]
<1>4. d[1] = h /\ h \in Prefixes(t)
  <2>1. 1 \in 1..n /\ 1 \in 0..n /\ 1 - 1 = 0
    BY <1>1
  <2> QED BY <1>2, <1>3, <2>1
<1>5. e \in [0..(n - 1) -> Prefixes(t)]
  <2>1. \A i \in 0..(n - 1) : d[i + 1] \in Prefixes(t)
    BY <1>1, <1>3
  <2> QED BY <2>1
<1>6. \A i \in 0..(n - 1) : e[i] = d[i + 1]
  OBVIOUS
<1> HIDE DEF e, p, n, h
<1>7. e[0] = h /\ e[n - 1] = t
  BY <1>1, <1>3, <1>4, <1>6
<1>8. ASSUME NEW i \in 1..(n - 1) PROVE e[i] = Arrived(e[i - 1], p[i])
  <2>1. i + 1 \in 1..n /\ (i + 1) - 1 = i /\ i \in 0..(n - 1) /\ i - 1 \in 0..(n - 1)
        /\ (i - 1) + 1 = i
    BY <1>1
  <2>2. e[i] = d[i + 1] /\ e[i - 1] = d[i] /\ p[i] = q[i + 1]
    BY <1>1, <1>6, <2>1
  <2> QED BY <1>3, <2>1, <2>2
<1>9. Order(p, h, t)
  BY <1>1, <1>5, <1>7, <1>8 DEF Order
<1> QED BY <1>4, <1>9 DEF p, h

\* Nothing sent is received in order.
LEMMA OrderOfNothing ==
  Order(<<>>, <<>>, <<>>)
<1>1. <<>> \in Prefixes(<<>>)
  <2>1. <<>> \in Seq(Lengths)
    BY EmptySeq
  <2> QED BY <2>1, PrefixFacts
<1> DEFINE d == [i \in 0..0 |-> <<>>]
<1>2. d \in [0..0 -> Prefixes(<<>>)] /\ d[0] = <<>>
  BY <1>1
<1>3. Len(<<>>) = 0
  OBVIOUS
<1> HIDE DEF d
<1> QED BY <1>2, <1>3 DEF Order

-----------------------------------------------------------------------------
\* The steps.

\* _close ends a conversation: whatever is still to be written, then a CLOSE
\* with the status of who began (ducq_ws.c:191-228).
CloseDone(closing) ==
  /\ hdr' \in Headers /\ ws' \in {"WS_OPEN", "WS_CLOSE"}
  /\ fd' \in {"shut", "closed"} /\ drain' \in 0..5
  /\ sent' \in Seq(Said) /\ Proper(sent') /\ sent' # <<>>
  /\ sent'[Len(sent')].op = CLOSE /\ sent'[Len(sent')].status = Status(closing)

LEMMA CloseEnds ==
  ASSUME NEW h \in Headers, NEW out \in Seq(Said), NEW closing \in BOOLEAN,
         \A i \in 1..Len(out) : out[i].op \in {TEXT, PONG},
         sent \in Seq(Said), Talk(sent),
         Close(h, out, closing)
  PROVE  CloseDone(closing)
<1> DEFINE g == Outgoing(h, CLOSE, Goodbye)
           r == Record(g, CLOSE, Goodbye, Status(closing))
<1>1. Goodbye \in Lengths /\ Status(closing) \in {0, 1000, 1001} /\ CLOSE \in {TEXT, PONG, CLOSE}
  BY DEF Goodbye, Lengths, Status
<1>2. g \in Headers
  BY <1>1, OutgoingSays
<1>3. r \in Said /\ r.op = CLOSE /\ r.status = Status(closing)
  BY <1>1, RecordIsSaid
<1>4. hdr' = g /\ sent' = (sent \o out) \o <<r>>
  BY DEF Close
<1> HIDE DEF g, r
<1>5. /\ sent' \in Seq(Said) /\ Proper(sent') /\ Len(sent') >= 2
      /\ sent'[Len(sent')] = r
  BY <1>3, <1>4, TalkEnds
<1>6. /\ ws' \in {"WS_OPEN", "WS_CLOSE"} /\ fd' \in {"shut", "closed"} /\ drain' \in 0..5
  BY DEF Close
<1>7. sent' # <<>>
  BY <1>5
<1> QED BY <1>2, <1>3, <1>4, <1>5, <1>6, <1>7 DEF CloseDone

\* So does the reactor's refusal, a NACK before it (ducq_reactor.c:352-360).
LEMMA RefuseEnds ==
  ASSUME NEW h \in Headers, NEW closing \in BOOLEAN, sent \in Seq(Said), Talk(sent),
         Refuse(h, closing)
  PROVE  CloseDone(closing)
<1> DEFINE g   == Outgoing(h, TEXT, NackLen)
           r   == Record(g, TEXT, NackLen, 0)
           out == <<r>>
<1>1. NackLen \in Lengths /\ 0 \in {0, 1000, 1001} /\ TEXT \in {TEXT, PONG, CLOSE}
  BY DEF NackLen, Lengths
<1>2. g \in Headers
  BY <1>1, OutgoingSays
<1>3. r \in Said /\ r.op = TEXT
  BY <1>1, RecordIsSaid
<1>4. Close(g, out, closing)
  BY DEF Refuse
<1> HIDE DEF g, r
<1>5. out \in Seq(Said) /\ Len(out) = 1 /\ out[1] = r
  BY <1>3
<1>6. \A i \in 1..Len(out) : out[i].op \in {TEXT, PONG}
  BY <1>3, <1>5
<1> HIDE DEF out
<1> QED BY <1>2, <1>4, <1>5, <1>6, CloseEnds

\* A connection that is closed, or that only waits for its peer, has said all.
LEMMA EndedInv ==
  ASSUME fd' \in {"shut", "closed"}, ws' \in {"none", "WS_OPEN", "WS_CLOSE"},
         hdr' \in Headers, drain' \in 0..5,
         inq' \in Seq(Requests \cup Frames), npeer' \in 0..MaxFrames,
         peer' \in {"talks", "closing", "gone"}, alive' \in BOOLEAN,
         nul' \in 0..(Size + 1), nsends' \in 0..MaxSends,
         sent' \in Seq(Said), Proper(sent'),
         texts' \in Seq(Lengths), got' \in Prefixes(texts')
  PROVE  IInv'
<1>1. TypeOK'
  BY DEF TypeOK
<1>2. Phase'
  BY DEF Phase
<1> QED BY <1>1, <1>2 DEF IInv

\* The parts of the invariant that most steps start from.
LEMMA Parts ==
  ASSUME IInv
  PROVE  /\ inq \in Seq(Requests \cup Frames) /\ npeer \in 0..MaxFrames
         /\ peer \in {"talks", "closing", "gone"}
         /\ ws \in {"none", "WS_OPEN", "WS_CLOSE"}
         /\ hdr \in Headers /\ fd \in {"open", "shut", "closed"} /\ drain \in 0..5
         /\ alive \in BOOLEAN
         /\ nul \in 0..(Size + 1) /\ nsends \in 0..MaxSends
         /\ sent \in Seq(Said) /\ texts \in Seq(Lengths) /\ got \in Prefixes(texts)
BY DEF IInv, TypeOK

\* A whole frame that the server reads (ducq_ws.c:116-135): what the buffer
\* holds then, and what that says.
LEMMA FrameRead ==
  ASSUME NEW f \in Frames, f.whole, hdr \in Headers
  PROVE  LET h == Put(hdr, 0, PeerHeader(f))
         IN  /\ h \in Headers /\ ws_get_len(h) = f.len /\ Unmasked(h, f) = f.len
             /\ h[1] = FIN + TEXT <=> Message(f)
             /\ f.op = CLOSE => ~TooBig(f.len)
<1> DEFINE h == Put(hdr, 0, PeerHeader(f))
<1>1. /\ h \in Headers /\ h[1] = PeerByte0(f) /\ ws_get_len(h) = f.len /\ MaskOf(h) = f.mask
  BY PeerHeaderReadsBack
<1> HIDE DEF h
<1>2. f.op \in {CONT, TEXT, CLOSE, PING, PONG} /\ f.fin \in BOOLEAN /\ f.len \in Lengths
      /\ (f.op = CLOSE => f.len < 126)
  BY FrameFields
<1>3. PeerByte0(f) = FIN + TEXT <=> f.fin /\ f.op = TEXT
  BY <1>2 DEF PeerByte0, FIN, CONT, TEXT, CLOSE, PING, PONG
<1>4. f.op = CLOSE => ~TooBig(f.len)
  <2>1. f.len \in Nat
    BY <1>2 DEF Lengths
  <2>2. Size \in Nat /\ Size >= 125
    BY WsAssumption
  <2> QED BY <1>2, <2>1, <2>2 DEF TooBig
<1>5. Unmasked(h, f) = f.len
  BY <1>1 DEF Unmasked
<1>6. h[1] = FIN + TEXT <=> Message(f)
  BY <1>1, <1>3 DEF Message
<1> QED BY <1>1, <1>4, <1>5, <1>6 DEF h

\* The initial state satisfies the invariant.
LEMMA InitInv == Init => IInv
<1> SUFFICES ASSUME Init PROVE IInv
  OBVIOUS
<1>1. PICK r \in Requests : inq = <<r>>
  BY DEF Init
<1>2. inq \in Seq(Requests \cup Frames)
  BY <1>1
<1>3. hdr \in Headers
  BY DEF Init, NewHeader, Headers, Byte
<1>4. TypeOK
  BY <1>2, <1>3, WsAssumption DEF Init, TypeOK
<1>5. <<>> \in Seq(Said) /\ <<>> \in Seq(Lengths)
  BY EmptySeq
<1>6. <<>> \in Prefixes(<<>>)
  BY <1>5, PrefixFacts
<1>7. Http
  BY <1>1 DEF Init, Http
<1>8. Phase
  BY <1>7 DEF Init, Phase
<1> QED BY <1>4, <1>5, <1>6, <1>8 DEF Init, IInv

\* The peer sends.
LEMMA PeerSendsInv ==
  ASSUME IInv, NEW f \in Frames, PeerSends(f)
  PROVE  IInv'
<1>1. /\ inq' = Append(inq, f) /\ npeer' = npeer + 1 /\ npeer < MaxFrames
      /\ peer' \in {"gone", "closing", peer}
      /\ texts' = Arrived(texts, f)
      /\ fd # "closed" /\ Upgraded
      /\ UNCHANGED <<ws, hdr, fd, drain, alive, sent, got, nul, nsends>>
  BY DEF PeerSends, Arrived, Message
<1>2. inq' \in Seq(Requests \cup Frames)
  BY <1>1, Parts, AppendProperties
<1>3. f.len \in Lengths
  BY FrameFields
<1>4. texts' \in Seq(Lengths) /\ got' \in Prefixes(texts')
  BY <1>1, <1>3, Parts, PrefixFacts, AppendProperties DEF Arrived
<1>5. npeer' \in 0..MaxFrames
  BY <1>1, Parts, WsAssumption
<1>6. TypeOK'
  BY <1>1, <1>2, <1>5, Parts DEF TypeOK
<1>7. Phase'
  <2>1. CASE fd = "open"
    <3>1. ws = "WS_OPEN"
      BY <1>1, <2>1 DEF IInv, Phase, Http, Upgraded
    <3>2. Talk(sent) /\ inq \in Seq(Frames) /\ Order(inq, got, texts)
      BY <2>1, <3>1 DEF IInv, Phase
    <3>3. inq' \in Seq(Frames)
      BY <1>1, <3>2, AppendProperties
    <3>4. Order(inq', got', texts')
      BY <1>1, <3>2, Parts, OrderAfterSending
    <3> QED BY <1>1, <2>1, <3>1, <3>2, <3>3, <3>4 DEF Phase
  <2>2. CASE fd # "open"
    BY <1>1, <2>2 DEF IInv, Phase
  <2> QED BY <2>1, <2>2
<1> QED BY <1>1, <1>4, <1>6, <1>7, Parts DEF IInv

\* The peer goes.
LEMMA PeerGoesInv ==
  ASSUME IInv, PeerGoes
  PROVE  IInv'
BY DEF IInv, PeerGoes, TypeOK, Phase, Http

\* A request, or none.
LEMMA RecvRequestInv ==
  ASSUME IInv, RecvRequest
  PROVE  IInv'
<1>1. /\ fd = "open" /\ ws = "none" /\ inq # <<>> /\ inq' = Tail(inq)
      /\ UNCHANGED <<npeer, peer, texts, got, nul, nsends>>
  BY DEF RecvRequest, Reading, Whole, peerVars
<1>2. Http
  BY <1>1 DEF IInv, Phase
<1>3. sent = <<>> /\ texts = <<>> /\ got = <<>> /\ inq' = <<>>
  <2>1. PICK r \in Requests : inq = <<r>>
    BY <1>1, <1>2 DEF Http
  <2>2. Tail(<<r>>) = <<>>
    OBVIOUS
  <2> QED BY <1>1, <1>2, <2>1, <2>2 DEF Http
<1>4. <<>> \in Seq(Requests \cup Frames) /\ <<>> \in Seq(Frames)
  BY EmptySeq
<1>5. ASSUME NEW out \in {<<>>, <<Reply(400)>>}, RefuseHttp(out), UNCHANGED alive
      PROVE  IInv'
  <2>1. /\ sent' = out /\ fd' = "closed" /\ UNCHANGED <<ws, hdr, drain, alive>>
    BY <1>3, <1>5 DEF RefuseHttp
  <2>2. Reply(400) \in Said /\ Reply(400).op = 400
    BY Parts, ReplyIsSaid
  <2>3. out \in Seq(Said) /\ Proper(out)
    <3>1. CASE out = <<>>
      BY <3>1 DEF Proper
    <3>2. CASE out = <<Reply(400)>>
      <4>1. out \in Seq(Said) /\ Len(out) = 1 /\ out[1] = Reply(400)
        BY <2>2, <3>2
      <4> QED BY <2>2, <4>1 DEF Proper, CLOSE
    <3> QED BY <3>1, <3>2
  <2> QED BY <1>1, <1>3, <1>4, <2>1, <2>3, Parts, EndedInv
<1>6. ASSUME alive' = FALSE, UNCHANGED <<sent, fd, ws, hdr, drain>>
      PROVE  IInv'
  <2>1. TypeOK'
    BY <1>1, <1>3, <1>4, <1>6, Parts DEF TypeOK
  <2>2. Http'
    BY <1>1, <1>3, <1>6 DEF Http
  <2>3. Phase'
    BY <1>1, <1>6, <2>2 DEF Phase
  <2> QED BY <1>1, <1>6, <2>1, <2>3, Parts DEF IInv
<1>7. ASSUME sent' = Append(sent, Reply(101)), ws' = "WS_OPEN",
             UNCHANGED <<hdr, fd, drain, alive>>
      PROVE  IInv'
  <2>1. Reply(101) \in Said /\ Reply(101).op = 101
    BY Parts, ReplyIsSaid
  <2>2. sent' = <<Reply(101)>>
    BY <1>3, <1>7
  <2>3. sent' \in Seq(Said) /\ Len(sent') = 1 /\ sent'[1] = Reply(101)
    BY <2>1, <2>2
  <2>4. Talk(sent')
    BY <2>1, <2>3 DEF Talk
  <2>5. TypeOK'
    BY <1>1, <1>3, <1>4, <1>7, Parts DEF TypeOK
  <2>6. Order(inq', got', texts')
    BY <1>1, <1>3, OrderOfNothing
  <2>7. Phase'
    BY <1>1, <1>3, <1>4, <1>7, <2>4, <2>6 DEF Phase
  <2> QED BY <1>1, <2>3, <2>5, <2>7, Parts DEF IInv
<1>8. \/ RefuseHttp(<<>>) /\ UNCHANGED alive
      \/ RefuseHttp(<<Reply(400)>>) /\ UNCHANGED alive
      \/ alive' = FALSE /\ UNCHANGED <<sent, fd, ws, hdr, drain>>
      \/ /\ sent' = Append(sent, Reply(101)) /\ ws' = "WS_OPEN"
         /\ UNCHANGED <<hdr, fd, drain, alive>>
  BY DEF RecvRequest
<1> QED BY <1>5, <1>6, <1>7, <1>8

LEMMA RecvNoRequestInv ==
  ASSUME IInv, RecvNoRequest
  PROVE  IInv'
<1>1. /\ fd = "open" /\ ws = "none" /\ inq' = <<>>
      /\ RefuseHttp(<<Reply(400)>>)
      /\ UNCHANGED <<npeer, peer, texts, alive, got, nul, nsends>>
  BY DEF RecvNoRequest, peerVars
<1>2. sent = <<>>
  BY <1>1 DEF IInv, Phase, Http
<1>3. Reply(400) \in Said /\ Reply(400).op = 400
  BY Parts, ReplyIsSaid
<1>4. /\ sent' = <<Reply(400)>> /\ fd' = "closed" /\ UNCHANGED <<ws, hdr, drain>>
  BY <1>1, <1>2 DEF RefuseHttp
<1>5. sent' \in Seq(Said) /\ Len(sent') = 1 /\ sent'[1] = Reply(400)
  BY <1>3, <1>4
<1>6. Proper(sent')
  BY <1>3, <1>5 DEF Proper, CLOSE
<1>7. <<>> \in Seq(Requests \cup Frames)
  BY EmptySeq
<1> QED BY <1>1, <1>4, <1>5, <1>6, <1>7, Parts, EndedInv

\* What holds while the connection is upgraded and open.
LEMMA OpenParts ==
  ASSUME IInv, fd = "open", ws = "WS_OPEN"
  PROVE  /\ sent \in Seq(Said) /\ Talk(sent)
         /\ inq \in Seq(Frames) /\ Order(inq, got, texts)
BY DEF IInv, Phase

\* Another frame said, while the connection goes on.
LEMMA TalkingInv ==
  ASSUME IInv, fd = "open", ws = "WS_OPEN", UNCHANGED <<fd, ws>>,
         npeer' \in 0..MaxFrames, peer' \in {"talks", "closing", "gone"},
         hdr' \in Headers, drain' \in 0..5, alive' \in BOOLEAN,
         nul' \in 0..(Size + 1), nsends' \in 0..MaxSends,
         inq' \in Seq(Frames), sent' \in Seq(Said), Talk(sent'),
         texts' \in Seq(Lengths), got' \in Prefixes(texts'), Order(inq', got', texts')
  PROVE  IInv'
<1>1. inq' \in Seq(Requests \cup Frames)
  BY SeqMonotonic
<1>2. TypeOK'
  BY <1>1 DEF TypeOK
<1>3. Phase'
  BY DEF Phase
<1> QED BY <1>2, <1>3 DEF IInv

\* A whole frame.
LEMMA RecvFrameInv ==
  ASSUME IInv, RecvFrame
  PROVE  IInv'
<1>1. /\ fd = "open" /\ ws = "WS_OPEN" /\ inq # <<>> /\ Head(inq).whole /\ inq' = Tail(inq)
      /\ UNCHANGED <<npeer, peer, texts, alive, nsends>>
  BY DEF RecvFrame, Reading, Whole, peerVars
<1>2. /\ sent \in Seq(Said) /\ Talk(sent)
      /\ inq \in Seq(Frames) /\ Order(inq, got, texts)
  BY <1>1, OpenParts
<1>3. /\ Head(inq) \in Frames /\ inq' \in Seq(Frames)
      /\ inq' \in Seq(Requests \cup Frames)
  <2>1. Head(inq) \in Frames /\ inq' \in Seq(Frames)
    BY <1>1, <1>2, HeadTailProperties
  <2> QED BY <2>1, SeqMonotonic
<1>4. /\ Order(inq', Arrived(got, Head(inq)), texts)
      /\ Arrived(got, Head(inq)) \in Prefixes(texts)
  BY <1>1, <1>2, Parts, OrderAfterReceiving
<1>5. PICK f \in Frames, h \in Headers :
        /\ f = Head(inq) /\ h = Put(hdr, 0, PeerHeader(f))
        /\ ws_get_len(h) = f.len /\ Unmasked(h, f) = f.len
        /\ h[1] = FIN + TEXT <=> Message(f)
  <2>1. hdr \in Headers
    BY Parts
  <2> QED BY <1>1, <1>3, <2>1, FrameRead
<1>6. f.len \in Lengths
  BY FrameFields
<1>7. ASSUME NEW closing \in BOOLEAN, Refuse(h, closing), UNCHANGED got,
             nul' \in 0..(Size + 1)
      PROVE  IInv'
  <2>1. CloseDone(closing)
    BY <1>2, <1>7, RefuseEnds
  <2> QED BY <1>1, <1>3, <1>7, <2>1, Parts, EndedInv DEF CloseDone
<1>8. ~TooBig(f.len) => f.len \in 0..(Size + 1)
  BY <1>6, WsAssumption DEF TooBig, Lengths
<1>9. ASSUME f.op = PING, hdr' = PongHeader(h, f.len),
             sent' = Append(sent, Record(hdr', PONG, f.len, 0)),
             UNCHANGED <<ws, fd, drain, got>>, nul' \in 0..(Size + 1)
      PROVE  IInv'
  <2>1. hdr' = Outgoing(h, PONG, f.len)
    BY <1>9 DEF PongHeader
  <2>2. PONG \in {TEXT, PONG, CLOSE} /\ 0 \in {0, 1000, 1001}
    OBVIOUS
  <2>3. hdr' \in Headers
    BY <1>6, <2>1, <2>2, OutgoingSays
  <2>4. PICK r \in Said : r.op = PONG /\ sent' = Append(sent, r)
    BY <1>6, <1>9, <2>1, <2>2, RecordIsSaid
  <2>5. sent' \in Seq(Said) /\ Talk(sent')
    BY <1>2, <2>4, TalkGoesOn
  <2>6. Arrived(got, f) = got
    BY <1>9 DEF Arrived, Message, PING, TEXT
  <2> QED BY <1>1, <1>3, <1>4, <1>5, <1>9, <2>3, <2>5, <2>6, Parts, TalkingInv
<1>10. ASSUME h[1] = FIN + TEXT, hdr' = h, got' = Append(got, f.len),
              UNCHANGED <<ws, fd, drain, sent>>, nul' \in 0..(Size + 1)
       PROVE  IInv'
  <2>1. got' = Arrived(got, f)
    BY <1>5, <1>10 DEF Arrived
  <2> QED BY <1>1, <1>2, <1>3, <1>4, <1>5, <1>10, <2>1, Parts, TalkingInv
<1>11. \/ Refuse(h, FALSE) /\ UNCHANGED <<got, nul>>
       \/ /\ ~TooBig(f.len) /\ nul' = f.len
          /\ \/ Refuse(h, TRUE) /\ UNCHANGED got
             \/ /\ f.op = PING /\ hdr' = PongHeader(h, f.len)
                /\ sent' = Append(sent, Record(hdr', PONG, f.len, 0))
                /\ UNCHANGED <<ws, fd, drain, got>>
             \/ Refuse(h, FALSE) /\ UNCHANGED got
             \/ /\ h[1] = FIN + TEXT /\ hdr' = h /\ got' = Append(got, f.len)
                /\ UNCHANGED <<ws, fd, drain, sent>>
  BY <1>5 DEF RecvFrame
<1>12. nul \in 0..(Size + 1)
  BY Parts
<1> QED BY <1>7, <1>8, <1>9, <1>10, <1>11, <1>12

\* A frame that is cut.
LEMMA RecvCutInv ==
  ASSUME IInv, RecvCut
  PROVE  IInv'
<1>1. /\ fd = "open" /\ ws = "WS_OPEN" /\ inq' = <<>>
      /\ UNCHANGED <<npeer, peer, texts, alive, got, nul, nsends>>
  BY DEF RecvCut, Reading, peerVars
<1>2. /\ sent \in Seq(Said) /\ Talk(sent) /\ inq \in Seq(Frames)
  BY <1>1, OpenParts
<1>3. PICK h \in Headers : Refuse(h, FALSE)
  <2>1. hdr \in Headers
    BY Parts
  <2>2. CASE inq = <<>>
    BY <2>1, <2>2 DEF RecvCut
  <2>3. CASE inq # <<>>
    <3>1. Head(inq) \in Frames
      BY <1>2, <2>3, HeadTailProperties
    <3>2. PICK k \in 0..Len(PeerHeader(Head(inq))) :
            Refuse(Put(hdr, 0, SubSeq(PeerHeader(Head(inq)), 1, k)), FALSE)
      BY <2>3 DEF RecvCut
    <3> QED BY <2>1, <3>1, <3>2, CutHeader
  <2> QED BY <2>2, <2>3
<1>4. CloseDone(FALSE)
  BY <1>2, <1>3, RefuseEnds
<1>5. <<>> \in Seq(Requests \cup Frames)
  BY EmptySeq
<1> QED BY <1>1, <1>4, <1>5, Parts, EndedInv DEF CloseDone

\* The server sends, or removes the connection, for another client.
LEMMA ServerSendsInv ==
  ASSUME IInv, NEW len \in ServerLens, ServerSends(len)
  PROVE  IInv'
<1>1. /\ fd = "open" /\ ws = "WS_OPEN" /\ nsends < MaxSends /\ nsends' = nsends + 1
      /\ hdr' = Outgoing(hdr, TEXT, len)
      /\ sent' = Append(sent, Record(hdr', TEXT, len, 0))
      /\ UNCHANGED <<inq, npeer, peer, texts, ws, fd, drain, alive, got, nul>>
  BY DEF ServerSends, peerVars
<1>2. len \in Lengths /\ TEXT \in {TEXT, PONG, CLOSE} /\ 0 \in {0, 1000, 1001}
  BY WsAssumption
<1>3. hdr' \in Headers
  BY <1>1, <1>2, Parts, OutgoingSays
<1>4. PICK r \in Said : r.op = TEXT /\ sent' = Append(sent, r)
  BY <1>1, <1>2, Parts, RecordIsSaid
<1>5. sent' \in Seq(Said) /\ Talk(sent')
  BY <1>1, <1>4, OpenParts, TalkGoesOn
<1>6. nsends' \in 0..MaxSends
  BY <1>1, Parts, WsAssumption
<1> QED BY <1>1, <1>3, <1>5, <1>6, Parts, OpenParts, TalkingInv

LEMMA ServerClosesInv ==
  ASSUME IInv, ServerCloses
  PROVE  IInv'
<1>1. /\ fd = "open" /\ UNCHANGED <<inq, npeer, peer, texts, alive, got, nul, nsends>>
  BY DEF ServerCloses, peerVars
<1>2. CASE ws = "WS_OPEN"
  <2>1. Close(hdr, <<>>, FALSE)
    BY <1>2 DEF ServerCloses
  <2>2. <<>> \in Seq(Said) /\ \A i \in 1..Len(<<>>) : <<>>[i].op \in {TEXT, PONG}
    BY EmptySeq
  <2>3. CloseDone(FALSE)
    BY <1>1, <1>2, <2>1, <2>2, Parts, OpenParts, CloseEnds
  <2> QED BY <1>1, <2>3, Parts, EndedInv DEF CloseDone
<1>3. CASE ws # "WS_OPEN"
  <2>1. sent = <<>>
    BY <1>1, <1>3 DEF IInv, Phase, Http
  <2>2. sent' = <<>> /\ fd' = "closed" /\ UNCHANGED <<ws, hdr, drain>>
    BY <1>3, <2>1 DEF ServerCloses, RefuseHttp
  <2>3. sent' \in Seq(Said) /\ Proper(sent')
    BY <2>2, EmptySeq DEF Proper
  <2> QED BY <1>1, <2>2, <2>3, Parts, EndedInv
<1> QED BY <1>2, <1>3

\* _close waits for the peer: nothing is said any more.
LEMMA DrainInv ==
  ASSUME IInv, DrainRead \/ DrainEnds
  PROVE  IInv'
<1>1. /\ fd = "shut" /\ fd' \in {"shut", "closed"} /\ drain' \in 0..5
      /\ ws' \in {"none", "WS_OPEN", "WS_CLOSE"}
      /\ UNCHANGED <<npeer, peer, texts, hdr, alive, sent, got, nul, nsends>>
  BY Parts DEF DrainRead, DrainEnds, CloseFd, peerVars
<1>2. inq' \in Seq(Requests \cup Frames)
  <2>1. CASE DrainRead
    <3>1. PICK n \in 1..Len(inq) : inq' = SubSeq(inq, n + 1, Len(inq))
      BY <2>1 DEF DrainRead
    <3> DEFINE a == n + 1
               b == Len(inq)
               S == Requests \cup Frames
    <3>2. inq \in Seq(S) /\ Len(inq) \in Nat
      BY Parts, LenProperties
    <3>3. a \in Int /\ b \in Int /\ \A i \in a..b : inq[i] \in S
      BY <3>2, ElementOfSeq
    <3>4. SubSeq(inq, a, b) \in Seq(S)
      <4> HIDE DEF a, b, S
      <4> QED BY <3>3, SubSeqProperties
    <3> QED BY <3>1, <3>4
  <2>2. CASE DrainEnds
    BY <2>2, Parts DEF DrainEnds
  <2> QED BY <2>1, <2>2
<1>3. Proper(sent')
  BY <1>1 DEF IInv, Phase
<1> QED BY <1>1, <1>2, <1>3, Parts, EndedInv

\* Every step keeps the invariant.
LEMMA NextInv == IInv /\ [Next]_vars => IInv'
<1> SUFFICES ASSUME IInv, [Next]_vars PROVE IInv'
  OBVIOUS
<1>1. ASSUME NEW f \in Frames, PeerSends(f) PROVE IInv'
  BY <1>1, PeerSendsInv
<1>2. CASE PeerGoes
  BY <1>2, PeerGoesInv
<1>3. CASE _recv
  BY <1>3, RecvRequestInv, RecvNoRequestInv, RecvFrameInv, RecvCutInv DEF _recv
<1>4. CASE _close
  BY <1>4, DrainInv DEF _close
<1>5. CASE ServerCloses
  BY <1>5, ServerClosesInv
<1>6. ASSUME NEW len \in ServerLens, ServerSends(len) PROVE IInv'
  BY <1>6, ServerSendsInv
<1>7. CASE UNCHANGED vars
  BY <1>7 DEF vars, IInv, TypeOK, Phase, Http
<1> QED BY <1>1, <1>2, <1>3, <1>4, <1>5, <1>6, <1>7 DEF Next

-----------------------------------------------------------------------------
\* The properties.

\* The buffer, the descriptor and the counters of a connection keep their
\* types, and no message is accepted that is longer than the room plus one
\* (ducq_ws.c:116-164).
THEOREM TypeCorrect == Spec => []TypeOK
<1>1. IInv => TypeOK
  BY DEF IInv
<1> QED BY <1>1, InitInv, NextInv, PTL DEF Spec

\* Every frame the server writes says what was meant, unmasked and in its
\* shortest form, whatever was last in the buffer (ducq_ws.c:75-103).
THEOREM FramesAreRight == Spec => []FramesSayWhatIsMeant
<1>1. IInv => FramesSayWhatIsMeant
  <2> SUFFICES ASSUME IInv, NEW i \in 1..Len(sent) PROVE Says(sent[i])
    BY DEF FramesSayWhatIsMeant, Says
  <2>1. sent[i] \in Said
    BY Parts, ElementOfSeq
  <2> QED BY <2>1, SaidFields
<1> QED BY <1>1, InitInv, NextInv, PTL DEF Spec

\* The messages received are the peer's, unmasked and in order
\* (ducq_ws.c:116-164).
THEOREM MessagesArriveInOrder == Spec => []MessagesInOrder
<1>1. IInv => MessagesInOrder
  BY Parts, PrefixFacts DEF MessagesInOrder
<1> QED BY <1>1, InitInv, NextInv, PTL DEF Spec

\* One reply of HTTP, then WebSocket, and the CLOSE, once, at the end
\* (ducq_http.c:68-97, ducq_ws.c:191-228).
THEOREM ClosesProperly == Spec => []ClosedOnceAndLast
<1>1. IInv => ClosedOnceAndLast
  <2> SUFFICES ASSUME IInv PROVE Proper(sent)
    BY DEF ClosedOnceAndLast, Proper
  <2>1. CASE fd # "open"
    BY <2>1 DEF IInv, Phase
  <2>2. CASE fd = "open" /\ ws = "none"
    BY <2>2 DEF IInv, Phase, Http, Proper
  <2>3. CASE fd = "open" /\ ws = "WS_OPEN"
    BY <2>3, OpenParts, TalkIsProper
  <2> QED BY <2>1, <2>2, <2>3 DEF IInv, Phase
<1> QED BY <1>1, InitInv, NextInv, PTL DEF Spec

\* What a frame of the peer that is read whole asks for.
PeerCloses == inq # <<>> /\ inq' = Tail(inq) /\ Head(inq).op = CLOSE /\ Head(inq).whole

\* Reading takes something away.
LEMMA TailIsShorter ==
  ASSUME NEW S, NEW q \in Seq(S), q # <<>>
  PROVE  Tail(q) # q
BY HeadTailProperties, LenProperties

\* One step that ends an upgraded connection.
LEMMA StatusStep ==
  ASSUME IInv, [Next]_vars, fd = "open", fd' # "open", Upgraded
  PROVE  /\ sent'[Len(sent')].op = CLOSE
         /\ sent'[Len(sent')].status = 1000 <=> PeerCloses
<1>1. ws = "WS_OPEN"
  BY DEF IInv, Phase, Http, Upgraded
<1>2. /\ sent \in Seq(Said) /\ Talk(sent) /\ inq \in Seq(Frames)
  BY <1>1, OpenParts
<1> DEFINE last == sent'[Len(sent')]
<1>3. /\ CloseDone(TRUE)  => last.op = CLOSE /\ last.status = 1000
      /\ CloseDone(FALSE) => last.op = CLOSE /\ last.status = 1001
  <2>1. ASSUME CloseDone(TRUE) PROVE last.op = CLOSE /\ last.status = 1000
    <3>1. last.op = CLOSE /\ last.status = Status(TRUE)
      BY <2>1 DEF CloseDone
    <3> HIDE DEF last
    <3> QED BY <3>1 DEF Status
  <2>2. ASSUME CloseDone(FALSE) PROVE last.op = CLOSE /\ last.status = 1001
    <3>1. last.op = CLOSE /\ last.status = Status(FALSE)
      BY <2>2 DEF CloseDone
    <3> HIDE DEF last
    <3> QED BY <3>1 DEF Status
  <2> HIDE DEF last
  <2> QED BY <2>1, <2>2
<1> HIDE DEF last
<1>4. CASE RecvFrame
  <2>1. inq # <<>> /\ Head(inq).whole /\ inq' = Tail(inq)
    BY <1>4 DEF RecvFrame, Reading, Whole
  <2>2. Head(inq) \in Frames
    BY <1>2, <2>1, HeadTailProperties
  <2>3. PICK f \in Frames, h \in Headers :
          /\ f = Head(inq) /\ h = Put(hdr, 0, PeerHeader(f))
          /\ ws_get_len(h) = f.len
          /\ h[1] = FIN + TEXT <=> Message(f)
          /\ f.op = CLOSE => ~TooBig(f.len)
    BY <2>1, <2>2, Parts, FrameRead
  <2>4. \/ Refuse(h, FALSE) /\ f.op # CLOSE
        \/ Refuse(h, TRUE) /\ f.op = CLOSE
        \/ UNCHANGED fd
    BY <1>4, <2>3 DEF RecvFrame
  <2>5. CASE Refuse(h, FALSE) /\ f.op # CLOSE
    <3>1. CloseDone(FALSE)
      BY <1>2, <2>5, RefuseEnds
    <3> QED BY <1>3, <2>3, <2>5, <3>1 DEF PeerCloses, last
  <2>6. CASE Refuse(h, TRUE) /\ f.op = CLOSE
    <3>1. CloseDone(TRUE)
      BY <1>2, <2>6, RefuseEnds
    <3> QED BY <1>3, <2>1, <2>3, <2>6, <3>1 DEF PeerCloses, last
  <2> QED BY <2>4, <2>5, <2>6
<1>5. CASE RecvCut
  <2>1. ~PeerCloses
    BY <1>5 DEF RecvCut, Whole, PeerCloses
  <2>2. PICK h \in Headers : Refuse(h, FALSE)
    <3>1. CASE inq = <<>>
      BY <1>5, <3>1, Parts DEF RecvCut
    <3>2. CASE inq # <<>>
      <4>1. Head(inq) \in Frames
        BY <1>2, <3>2, HeadTailProperties
      <4>2. PICK k \in 0..Len(PeerHeader(Head(inq))) :
              Refuse(Put(hdr, 0, SubSeq(PeerHeader(Head(inq)), 1, k)), FALSE)
        BY <1>5, <3>2 DEF RecvCut
      <4> QED BY <4>1, <4>2, Parts, CutHeader
    <3> QED BY <3>1, <3>2
  <2>3. CloseDone(FALSE)
    BY <1>2, <2>2, RefuseEnds
  <2> QED BY <1>3, <2>1, <2>3 DEF last
<1>6. CASE ServerCloses
  <2>1. Close(hdr, <<>>, FALSE) /\ inq' = inq
    BY <1>1, <1>6 DEF ServerCloses
  <2>2. ~PeerCloses
    BY <1>2, <2>1, TailIsShorter DEF PeerCloses
  <2>3. <<>> \in Seq(Said) /\ \A i \in 1..Len(<<>>) : <<>>[i].op \in {TEXT, PONG}
    BY EmptySeq
  <2>4. CloseDone(FALSE)
    BY <1>2, <2>1, <2>3, Parts, CloseEnds
  <2> QED BY <1>3, <2>2, <2>4 DEF last
<1>7. RecvFrame \/ RecvCut \/ ServerCloses
  <2>1. ~RecvRequest /\ ~RecvNoRequest
    BY <1>1 DEF RecvRequest, RecvNoRequest
  <2>2. ~_close
    BY DEF _close, DrainRead, DrainEnds
  <2>3. ~PeerGoes /\ (\A f \in Frames : ~PeerSends(f)) /\ (\A len \in ServerLens : ~ServerSends(len))
    BY DEF PeerGoes, PeerSends, ServerSends
  <2>4. ~UNCHANGED vars
    BY DEF vars
  <2> QED BY <2>1, <2>2, <2>3, <2>4 DEF Next, _recv
<1> QED BY <1>4, <1>5, <1>6, <1>7

\* An upgraded connection is never dropped without a CLOSE, and its status
\* tells who began (ducq_ws.c:195-200).
THEOREM TheStatusTells == Spec => StatusTellsWhoBegan
<1> DEFINE A == fd = "open" /\ fd' # "open" /\ Upgraded =>
                  /\ sent'[Len(sent')].op = CLOSE
                  /\ sent'[Len(sent')].status = 1000 <=>
                       inq # <<>> /\ inq' = Tail(inq) /\ Head(inq).op = CLOSE /\ Head(inq).whole
<1>1. IInv /\ [Next]_vars => [A]_vars
  BY StatusStep DEF PeerCloses
<1> QED BY <1>1, InitInv, NextInv, PTL DEF Spec, StatusTellsWhoBegan
=============================================================================
