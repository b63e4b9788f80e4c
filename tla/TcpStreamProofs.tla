--------------------------- MODULE TcpStreamProofs ---------------------------
(***************************************************************************)
(* Proofs about TcpStream, for every set of messages, any number of them,  *)
(* any room of the receiver and any number of timeouts.  The invariant     *)
(* says where the receiver is in the stream of all bytes ever sent: that   *)
(* stream, where each frame begins in it and how many of its messages are  *)
(* not empty are what IInv says there is (\E), not state of the program.   *)
(***************************************************************************)
EXTENDS TcpStream, SequenceTheorems, TLAPS

-----------------------------------------------------------------------------
\* The header of a frame.

NDigits(n) == IF n < 10 THEN 1 ELSE IF n < 100 THEN 2 ELSE 3
HLen(m)    == NDigits(Len(m)) + 1

\* What atoi() makes of the first p digits of n.
NumAfter(n, p) ==
  IF p = 0 THEN 0
  ELSE IF p = NDigits(n) THEN n
  ELSE IF p = NDigits(n) - 1 THEN n \div 10
  ELSE n \div 100

\* A message, as the proofs need it.
LEMMA MessageFacts ==
  ASSUME NEW m \in Messages
  PROVE  m \in Seq(Bytes) /\ Len(m) \in Nat /\ Len(m) < 1000 /\ (Len(m) = 0 <=> m = <<>>)
<1>1. m \in Seq(Bytes) /\ Len(m) < 1000
  BY TcpAssumption
<1>2. Len(m) \in Nat
  BY <1>1, LenProperties
<1>3. Len(m) = 0 <=> m = <<>>
  BY <1>1, EmptySeq
<1> QED BY <1>1, <1>2, <1>3

\* The digits of a number, and what atoi() makes of one more of them.
LEMMA DigitsFacts ==
  ASSUME NEW n \in Nat, n < 1000
  PROVE  /\ Digits(n) \in Seq(Bytes)
         /\ Len(Digits(n)) = NDigits(n) /\ NDigits(n) \in 1..3
         /\ \A j \in 1..NDigits(n) : Digits(n)[j] \in 0..9
         /\ \A p \in 0..(NDigits(n) - 1) :
              NumAfter(n, p + 1) = Atoi(NumAfter(n, p), Digits(n)[p + 1])
<1>1. PICK x, y, z, u \in Int :
        x = n \div 100 /\ y = (n \div 10) % 10 /\ z = n % 10 /\ u = n \div 10
  OBVIOUS
<1>2. u = 10 * x + y /\ n = 10 * u + z /\ x \in 0..9 /\ y \in 0..9 /\ z \in 0..9
  BY <1>1
<1>3. CASE n < 10
  <2>1. n \in 0..9 /\ n \in Bytes
    BY <1>3 DEF Bytes, Other
  <2>2. Digits(n) = <<n>> /\ NDigits(n) = 1
    BY <1>3 DEF Digits, NDigits
  <2>3. NumAfter(n, 1) = n /\ NumAfter(n, 0) = 0
    BY <2>2 DEF NumAfter
  <2>4. Atoi(0, n) = n
    BY DEF Atoi
  <2>5. <<n>> \in Seq(Bytes) /\ Len(<<n>>) = 1 /\ <<n>>[1] = n
    BY <2>1
  <2> HIDE DEF NDigits
  <2> QED BY <2>1, <2>2, <2>3, <2>4, <2>5
<1>4. CASE n >= 10 /\ n < 100
  <2>1. u \in 0..9 /\ u \in Bytes /\ z \in Bytes
    BY <1>1, <1>2, <1>4 DEF Bytes, Other
  <2>2. Digits(n) = <<u, z>> /\ NDigits(n) = 2
    BY <1>1, <1>4 DEF Digits, NDigits
  <2>3. NumAfter(n, 2) = n /\ NumAfter(n, 1) = u /\ NumAfter(n, 0) = 0
    BY <1>1, <2>2 DEF NumAfter
  <2>4. Atoi(0, u) = u /\ Atoi(u, z) = n
    BY <1>2 DEF Atoi
  <2>5. <<u, z>> \in Seq(Bytes) /\ Len(<<u, z>>) = 2 /\ <<u, z>>[1] = u /\ <<u, z>>[2] = z
    BY <2>1
  <2> DEFINE d == Digits(n)
  <2>6. d \in Seq(Bytes) /\ Len(d) = 2 /\ d[1] = u /\ d[2] = z
    BY <2>2, <2>5
  <2> HIDE DEF d
  <2>7. \A j \in 1..2 : d[j] \in 0..9
    BY <1>2, <2>1, <2>6
  <2>8. \A p \in 0..1 : NumAfter(n, p + 1) = Atoi(NumAfter(n, p), d[p + 1])
    <3>1. NumAfter(n, 1) = Atoi(NumAfter(n, 0), d[1]) /\ NumAfter(n, 2) = Atoi(NumAfter(n, 1), d[2])
      BY <2>3, <2>4, <2>6
    <3>2. ASSUME NEW p \in 0..1 PROVE (p = 0 /\ p + 1 = 1) \/ (p = 1 /\ p + 1 = 2)
      OBVIOUS
    <3> QED BY <3>1, <3>2
  <2> QED BY <2>2, <2>6, <2>7, <2>8 DEF d
<1>5. CASE n >= 100
  <2>1. x \in Bytes /\ y \in Bytes /\ z \in Bytes
    BY <1>2 DEF Bytes, Other
  <2>2. Digits(n) = <<x, y, z>> /\ NDigits(n) = 3
    BY <1>1, <1>5 DEF Digits, NDigits
  <2>3. NumAfter(n, 3) = n /\ NumAfter(n, 2) = u /\ NumAfter(n, 1) = x /\ NumAfter(n, 0) = 0
    BY <1>1, <2>2 DEF NumAfter
  <2>4. Atoi(0, x) = x /\ Atoi(x, y) = u /\ Atoi(u, z) = n
    BY <1>2 DEF Atoi
  <2>5. /\ <<x, y, z>> \in Seq(Bytes) /\ Len(<<x, y, z>>) = 3
        /\ <<x, y, z>>[1] = x /\ <<x, y, z>>[2] = y /\ <<x, y, z>>[3] = z
    BY <2>1
  <2> DEFINE d == Digits(n)
  <2>6. d \in Seq(Bytes) /\ Len(d) = 3 /\ d[1] = x /\ d[2] = y /\ d[3] = z
    BY <2>2, <2>5
  <2> HIDE DEF d
  <2>7. \A j \in 1..3 : d[j] \in 0..9
    BY <1>2, <2>6
  <2>8. \A p \in 0..2 : NumAfter(n, p + 1) = Atoi(NumAfter(n, p), d[p + 1])
    <3>1. /\ NumAfter(n, 1) = Atoi(NumAfter(n, 0), d[1]) /\ NumAfter(n, 2) = Atoi(NumAfter(n, 1), d[2])
          /\ NumAfter(n, 3) = Atoi(NumAfter(n, 2), d[3])
      BY <2>3, <2>4, <2>6
    <3>2. ASSUME NEW p \in 0..2
          PROVE (p = 0 /\ p + 1 = 1) \/ (p = 1 /\ p + 1 = 2) \/ (p = 2 /\ p + 1 = 3)
      OBVIOUS
    <3> QED BY <3>1, <3>2
  <2> QED BY <2>2, <2>6, <2>7, <2>8 DEF d
<1> QED BY <1>3, <1>4, <1>5

\* snprintf("%ld\n") writes digits and a newline, of which atoi() makes, digit
\* by digit, the length again (ducq_tcp.c:46-47, 61-65).
LEMMA HeaderFacts ==
  ASSUME NEW m \in Messages
  PROVE  /\ Header(m) \in Seq(Bytes)
         /\ Len(Header(m)) = HLen(m) /\ NDigits(Len(m)) \in 1..3
         /\ \A j \in 1..NDigits(Len(m)) : Header(m)[j] \in 0..9
         /\ Header(m)[HLen(m)] = Newline
         /\ \A p \in 0..(NDigits(Len(m)) - 1) :
              NumAfter(Len(m), p + 1) = Atoi(NumAfter(Len(m), p), Header(m)[p + 1])
<1> DEFINE n == Len(m)
           d == Digits(n)
           e == <<Newline>>
<1>1. n \in Nat /\ n < 1000
  BY MessageFacts
<1> HIDE DEF n
<1>2. /\ d \in Seq(Bytes) /\ Len(d) = NDigits(n) /\ NDigits(n) \in 1..3
      /\ \A j \in 1..NDigits(n) : d[j] \in 0..9
      /\ \A p \in 0..(NDigits(n) - 1) : NumAfter(n, p + 1) = Atoi(NumAfter(n, p), d[p + 1])
  BY <1>1, DigitsFacts
<1>3. e \in Seq(Bytes) /\ Len(e) = 1 /\ e[1] = Newline
  BY DEF Bytes, Newline, Other
<1> HIDE DEF d, e
<1>4. PICK k \in 1..3 : k = NDigits(n)
  BY <1>2
<1>5. /\ d \o e \in Seq(Bytes) /\ Len(d \o e) = k + 1
      /\ \A j \in 1..(k + 1) : (d \o e)[j] = IF j <= k THEN d[j] ELSE e[j - k]
  <2>1. /\ d \o e \in Seq(Bytes) /\ Len(d \o e) = Len(d) + Len(e)
        /\ \A j \in 1..(Len(d) + Len(e)) : (d \o e)[j] = IF j <= Len(d) THEN d[j] ELSE e[j - Len(d)]
    BY <1>2, <1>3, ConcatProperties
  <2>2. Len(d) = k /\ Len(e) = 1
    BY <1>2, <1>3, <1>4
  <2> QED BY <2>1, <2>2
<1>6. Header(m) = d \o e
  BY DEF Header, d, e, n
<1>7. (d \o e)[k + 1] = Newline /\ \A j \in 1..k : (d \o e)[j] = d[j]
  BY <1>3, <1>5
<1>8. HLen(m) = k + 1 /\ NDigits(Len(m)) = k
  BY <1>4 DEF HLen, n
<1>9. \A j \in 1..k : (d \o e)[j] \in 0..9
  BY <1>2, <1>4, <1>7
<1>10. \A p \in 0..(k - 1) : NumAfter(n, p + 1) = Atoi(NumAfter(n, p), (d \o e)[p + 1])
  <2>1. \A p \in 0..(k - 1) : p + 1 \in 1..k
    OBVIOUS
  <2> QED BY <1>2, <1>4, <1>7, <2>1
<1> QED BY <1>5, <1>6, <1>7, <1>8, <1>9, <1>10 DEF n

-----------------------------------------------------------------------------
\* The inductive invariant.

\* The frame of m follows the first o bytes of the stream b.
FrameAt(b, o, m) ==
  /\ \A j \in 1..HLen(m) : b[o + j] = Header(m)[j]
  /\ \A j \in 1..Len(m) : b[o + HLen(m) + j] = m[j]

\* b is the stream of all frames sent, and s[i] where the i-th begins.
Layout(b, s) ==
  /\ s[Len(sent) + 1] = Len(b)
  /\ \A i \in 1..Len(sent) :
       /\ s[i + 1] = s[i] + HLen(sent[i]) + Len(sent[i])
       /\ s[i + 1] <= Len(b)
       /\ FrameAt(b, s[i], sent[i])

\* Of the stream b, r bytes have been read; the wire and then the rest of the
\* frame being written follow, and after them, if the sender is gone, what will
\* never be written.
Kernel(b, r) ==
  /\ r + Len(wire) + Len(tosend) <= Len(b)
  /\ ~shut => r + Len(wire) + Len(tosend) = Len(b)
  /\ \A j \in 1..Len(wire) : wire[j] = b[r + j]
  /\ \A j \in 1..Len(tosend) : tosend[j] = b[r + Len(wire) + j]

\* The receiver is where the next frame begins, or in its header, or in its
\* payload, and knows of it what it has read.
InHead(s, r, m) ==
  /\ need = 0 /\ ptr \in 0..NDigits(Len(m)) /\ len = NumAfter(Len(m), ptr)
  /\ r = s[frames + 1] + ptr

InBody(s, r, m) ==
  /\ need > 0 /\ Len(buf) + need = Len(m)
  /\ r = s[frames + 1] + HLen(m) + Len(buf)
  /\ \A j \in 1..Len(buf) : buf[j] = m[j]

Position(s, r) ==
  \/ /\ frames = Len(sent) /\ need = 0 /\ ptr = 0 /\ len = 0
     /\ r = s[frames + 1]
  \/ /\ frames < Len(sent)
     /\ InHead(s, r, sent[frames + 1]) \/ InBody(s, r, sent[frames + 1])

Stream(b, s, r) == Layout(b, s) /\ Kernel(b, r) /\ (~torn => Position(s, r))

\* c[i] of the first i messages are not empty, and those received are the ones
\* of the frames returned for.
Counted(c) ==
  /\ c[Len(sent)] = Len(due)
  /\ \A i \in 1..Len(sent) :
       /\ c[i] = c[i - 1] + (IF sent[i] = <<>> THEN 0 ELSE 1)
       /\ c[i] <= Len(due)
       /\ sent[i] # <<>> => due[c[i]] = sent[i]

Received(c) ==
  /\ frames <= Len(sent) /\ Len(got) = c[frames] /\ Len(got) <= Len(due)
  /\ \A j \in 1..Len(got) : got[j] = due[j]

Streaming ==
  \E b \in Seq(Bytes), s \in [1..(Len(sent) + 1) -> Nat], r \in Nat : Stream(b, s, r)

Counting ==
  \E c \in [0..Len(sent) -> Nat] : Counted(c) /\ (~torn => Received(c))

IInv ==
  /\ TypeOK
  /\ need = 0 => buf = <<>>
  /\ errno = "EWOULDBLOCK" => timeouts > 0
  /\ shut => tosend = <<>>
  /\ Streaming
  /\ Counting

\* Any part of a sequence, and what is behind it.
LEMMA Cut ==
  ASSUME NEW S, NEW q \in Seq(S), NEW n \in 0..Len(q)
  PROVE  /\ SubSeq(q, 1, n) \in Seq(S) /\ Len(SubSeq(q, 1, n)) = n
         /\ \A j \in 1..n : SubSeq(q, 1, n)[j] = q[j]
         /\ SubSeq(q, n + 1, Len(q)) \in Seq(S)
         /\ Len(SubSeq(q, n + 1, Len(q))) = Len(q) - n
         /\ \A j \in 1..(Len(q) - n) : SubSeq(q, n + 1, Len(q))[j] = q[n + j]
<1>1. Len(q) \in Nat /\ \A j \in 1..Len(q) : q[j] \in S
  BY LenProperties, ElementOfSeq
<1>2. /\ SubSeq(q, 1, n) \in Seq(S)
      /\ Len(SubSeq(q, 1, n)) = IF 1 <= n THEN n - 1 + 1 ELSE 0
      /\ \A j \in 1..(n - 1 + 1) : SubSeq(q, 1, n)[j] = q[1 + j - 1]
  <2>1. n \in Int /\ \A j \in 1..n : q[j] \in S
    BY <1>1
  <2> QED BY <2>1, SubSeqProperties
<1> DEFINE a == n + 1
           e == Len(q)
<1>3. a \in Int /\ e \in Int /\ \A j \in a..e : q[j] \in S
  BY <1>1
<1>4. a = n + 1 /\ e = Len(q)
  OBVIOUS
<1> HIDE DEF a, e
<1>5. /\ SubSeq(q, a, e) \in Seq(S)
      /\ Len(SubSeq(q, a, e)) = IF a <= e THEN e - a + 1 ELSE 0
      /\ \A j \in 1..(e - a + 1) : SubSeq(q, a, e)[j] = q[a + j - 1]
  BY <1>3, SubSeqProperties
<1>6. Len(SubSeq(q, a, e)) = e - n /\ \A j \in 1..(e - n) : SubSeq(q, a, e)[j] = q[n + j]
  <2>1. Len(SubSeq(q, a, e)) = e - n
    BY <1>1, <1>4, <1>5
  <2>2. ASSUME NEW j \in 1..(e - n) PROVE SubSeq(q, a, e)[j] = q[n + j]
    <3>1. j \in 1..(e - a + 1) /\ a + j - 1 = n + j
      BY <1>1, <1>4
    <3> QED BY <1>5, <3>1
  <2> QED BY <2>1, <2>2
<1>7. Len(SubSeq(q, 1, n)) = n /\ \A j \in 1..n : SubSeq(q, 1, n)[j] = q[j]
  BY <1>1, <1>2
<1> QED BY <1>2, <1>4, <1>5, <1>6, <1>7

\* What the proofs use of the types.
LEMMA Types ==
  ASSUME IInv
  PROVE  /\ tosend \in Seq(Bytes) /\ wire \in Seq(Bytes) /\ buf \in Seq(Bytes)
         /\ Len(tosend) \in Nat /\ Len(wire) \in Nat /\ Len(buf) \in Nat
         /\ shut \in BOOLEAN /\ torn \in BOOLEAN
         /\ ptr \in Nat /\ len \in Nat /\ need \in 0..(Size - 1)
         /\ errno \in {"none", "EWOULDBLOCK"} /\ state \in States
         /\ sent \in Seq(Messages) /\ due \in Seq(Messages) /\ got \in Seq(Seq(Bytes))
         /\ Len(sent) \in Nat /\ Len(due) \in Nat /\ Len(got) \in Nat
         /\ frames \in Nat /\ timeouts \in 0..MaxTimeouts
         /\ need = 0 => buf = <<>>
         /\ errno = "EWOULDBLOCK" => timeouts > 0
         /\ shut => tosend = <<>>
BY LenProperties DEF IInv, TypeOK

\* Reading n bytes off the wire (inet_socket.c:18-40).
LEMMA Consume ==
  ASSUME wire \in Seq(Bytes), tosend \in Seq(Bytes), NEW b \in Seq(Bytes), NEW r \in Nat,
         Kernel(b, r), NEW n \in 1..Len(wire),
         wire' = SubSeq(wire, n + 1, Len(wire)), UNCHANGED <<tosend, shut>>
  PROVE  /\ wire' \in Seq(Bytes) /\ Kernel(b, r + n)'
         /\ r + n \in Nat /\ r + n <= Len(b)
<1>1. /\ Len(wire) \in Nat /\ Len(tosend) \in Nat /\ Len(b) \in Nat
      /\ n \in Nat /\ n \in 0..Len(wire) /\ n <= Len(wire)
  BY LenProperties
<1>2. /\ wire' \in Seq(Bytes) /\ Len(wire') = Len(wire) - n
      /\ \A j \in 1..(Len(wire) - n) : wire'[j] = wire[n + j]
  BY <1>1, Cut
<1>3. PICK w, t, l, v \in Nat : w = Len(wire) /\ t = Len(tosend) /\ l = Len(b) /\ v = Len(wire')
  BY <1>1, <1>2
<1>4. /\ r + w + t <= l /\ (~shut => r + w + t = l)
      /\ \A j \in 1..w : wire[j] = b[r + j]
      /\ \A j \in 1..t : tosend[j] = b[r + w + j]
  BY <1>3 DEF Kernel
<1>5. v = w - n /\ n <= w /\ n >= 1
  BY <1>1, <1>2, <1>3
<1>6. /\ (r + n) + v + t <= l /\ (~shut => (r + n) + v + t = l)
      /\ (r + n) + v = r + w
      /\ r + n \in Nat /\ r + n <= l
  BY <1>4, <1>5
<1>7. ASSUME NEW j \in 1..v PROVE wire'[j] = b[(r + n) + j]
  <2>1. j \in 1..(w - n) /\ n + j \in 1..w /\ r + (n + j) = (r + n) + j
    BY <1>5
  <2> QED BY <1>2, <1>3, <1>4, <2>1
<1>8. \A j \in 1..t : tosend[j] = b[(r + n) + v + j]
  BY <1>4, <1>6
<1> QED BY <1>2, <1>3, <1>6, <1>7, <1>8 DEF Kernel

-----------------------------------------------------------------------------
\* The steps.

\* The byte that the receiver reads between two frames or in a header is the
\* next of the header of the frame it is to return for (ducq_tcp.c:34-41).
LEMMA NextByte ==
  ASSUME IInv, ~torn, need = 0, wire # <<>>,
         NEW b \in Seq(Bytes), NEW s \in [1..(Len(sent) + 1) -> Nat], NEW r \in Nat,
         Stream(b, s, r)
  PROVE  /\ frames < Len(sent) /\ sent[frames + 1] \in Messages
         /\ InHead(s, r, sent[frames + 1])
         /\ Head(wire) = Header(sent[frames + 1])[ptr + 1]
<1>1. /\ wire \in Seq(Bytes) /\ Len(wire) \in Nat /\ Len(tosend) \in Nat /\ Len(b) \in Nat
      /\ Len(sent) \in Nat /\ frames \in Nat /\ ptr \in Nat /\ sent \in Seq(Messages)
  BY Types, LenProperties
<1>2. Len(wire) >= 1 /\ Head(wire) = wire[1]
  BY <1>1, EmptySeq
<1>3. r + Len(wire) + Len(tosend) <= Len(b) /\ wire[1] = b[r + 1]
  BY <1>1, <1>2 DEF Stream, Kernel
<1>4. r < Len(b)
  BY <1>1, <1>2, <1>3
<1>5. frames # Len(sent) \/ r # s[frames + 1]
  BY <1>4 DEF Stream, Layout
<1>6. frames < Len(sent) /\ (InHead(s, r, sent[frames + 1]) \/ InBody(s, r, sent[frames + 1]))
  BY <1>5 DEF Stream, Position
<1> DEFINE m == sent[frames + 1]
<1>7. frames + 1 \in 1..Len(sent) /\ m \in Messages
  <2>1. frames + 1 \in 1..Len(sent)
    BY <1>1, <1>6
  <2> QED BY <1>1, <2>1, ElementOfSeq
<1>8. InHead(s, r, m)
  BY <1>6 DEF InBody
<1>9. FrameAt(b, s[frames + 1], m)
  BY <1>7 DEF Stream, Layout
<1> HIDE DEF m
<1>10. PICK o \in Nat : o = s[frames + 1]
  BY <1>1, <1>7
<1>11. r = o + ptr /\ ptr \in 0..NDigits(Len(m))
  BY <1>8, <1>10 DEF InHead
<1>12. NDigits(Len(m)) \in 1..3
  BY <1>7, HeaderFacts
<1>13. ptr + 1 \in 1..HLen(m) /\ r + 1 = o + (ptr + 1)
  BY <1>11, <1>12 DEF HLen
<1>14. b[o + (ptr + 1)] = Header(m)[ptr + 1]
  BY <1>9, <1>10, <1>13 DEF FrameAt
<1> QED BY <1>2, <1>3, <1>6, <1>7, <1>8, <1>13, <1>14 DEF m

\* A newline there is the end of the header, which has told the length
\* (ducq_tcp.c:44-47) ...
LEMMA NewlineEndsHeader ==
  ASSUME NEW m \in Messages, NEW p \in 0..NDigits(Len(m)), Header(m)[p + 1] = Newline
  PROVE  p = NDigits(Len(m)) /\ NumAfter(Len(m), p) = Len(m)
<1>1. /\ NDigits(Len(m)) \in 1..3
      /\ \A j \in 1..NDigits(Len(m)) : Header(m)[j] \in 0..9
  BY HeaderFacts
<1>2. p = NDigits(Len(m))
  BY <1>1 DEF Newline
<1> QED BY <1>1, <1>2 DEF NumAfter

\* ... and a digit is one more of the length.
LEMMA DigitGoesOn ==
  ASSUME NEW m \in Messages, NEW p \in 0..NDigits(Len(m)), Header(m)[p + 1] \in 0..9
  PROVE  /\ p + 1 \in 0..NDigits(Len(m))
         /\ Atoi(NumAfter(Len(m), p), Header(m)[p + 1]) = NumAfter(Len(m), p + 1)
<1>1. /\ NDigits(Len(m)) \in 1..3
      /\ Header(m)[HLen(m)] = Newline
      /\ \A i \in 0..(NDigits(Len(m)) - 1) :
           NumAfter(Len(m), i + 1) = Atoi(NumAfter(Len(m), i), Header(m)[i + 1])
  BY HeaderFacts
<1>2. p # NDigits(Len(m))
  BY <1>1 DEF Newline, HLen
<1>3. p \in 0..(NDigits(Len(m)) - 1) /\ p + 1 \in 0..NDigits(Len(m))
  BY <1>1, <1>2
<1> QED BY <1>1, <1>3

\* The parts of the invariant that a step of the receiver has to give.
LEMMA ReceiverInv ==
  ASSUME IInv, UNCHANGED <<tosend, shut, sent, due>>,
         wire' \in Seq(Bytes), buf' \in Seq(Bytes), torn' \in BOOLEAN,
         ptr' \in Nat, len' \in Nat, need' \in 0..(Size - 1),
         errno' \in {"none", "EWOULDBLOCK"}, state' \in States,
         got' \in Seq(Seq(Bytes)), frames' \in Nat, timeouts' \in 0..MaxTimeouts,
         need' = 0 => buf' = <<>>,
         errno' = "EWOULDBLOCK" => timeouts' > 0,
         NEW b \in Seq(Bytes), NEW s \in [1..(Len(sent) + 1) -> Nat], NEW r \in Nat,
         Layout(b, s), Kernel(b, r)', ~torn' => Position(s, r)',
         NEW c \in [0..Len(sent) -> Nat],
         Counted(c), ~torn' => Received(c)'
  PROVE  IInv'
<1>1. TypeOK'
  BY Types DEF TypeOK
<1>2. Layout(b, s)' /\ Counted(c)'
  BY DEF Layout, Counted
<1>3. Streaming' /\ Counting'
  BY <1>2 DEF Streaming, Counting, Stream
<1>4. shut' => tosend' = <<>>
  BY Types
<1> QED BY <1>1, <1>3, <1>4 DEF IInv

\* A call that gives a frame up.
LEMMA GiveUpInv ==
  ASSUME IInv, NEW st \in States, GiveUp(st), wire # <<>>, wire' = Tail(wire),
         UNCHANGED <<tosend, shut, sent, due, errno, timeouts>>
  PROVE  IInv'
<1>1. PICK b \in Seq(Bytes), s \in [1..(Len(sent) + 1) -> Nat], r \in Nat : Stream(b, s, r)
  BY DEF IInv, Streaming
<1>2. PICK c \in [0..Len(sent) -> Nat] : Counted(c)
  BY DEF IInv, Counting
<1>3. /\ torn' = TRUE /\ state' = st /\ ptr' = 0 /\ len' = 0 /\ need' = 0 /\ buf' = <<>>
      /\ UNCHANGED <<got, frames>>
  BY DEF GiveUp, Return
<1>4. 1 \in 1..Len(wire) /\ wire' = SubSeq(wire, 1 + 1, Len(wire))
  BY Types, TailIsSubSeq, EmptySeq
<1>5. wire' \in Seq(Bytes) /\ Kernel(b, r + 1)' /\ r + 1 \in Nat
  BY <1>1, <1>4, Types, Consume DEF Stream
<1>6. <<>> \in Seq(Bytes) /\ 0 \in 0..(Size - 1)
  BY EmptySeq, TcpAssumption
<1>7. Layout(b, s)
  BY <1>1 DEF Stream
<1> QED BY <1>2, <1>3, <1>5, <1>6, <1>7, Types, ReceiverInv

\* A digit.
LEMMA ReadDigitInv ==
  ASSUME IInv, ReadDigit
  PROVE  IInv'
<1>1. /\ need = 0 /\ wire # <<>> /\ Head(wire) \in 0..9 /\ wire' = Tail(wire)
      /\ UNCHANGED <<tosend, shut, sent, due, errno, timeouts>>
  BY DEF ReadDigit, InHeader, sender
<1>2. CASE GiveUp("EMSGSIZE")
  BY <1>1, <1>2, GiveUpInv DEF States
<1>3. CASE /\ ptr' = ptr + 1 /\ len' = Atoi(len, Head(wire)) /\ state' = "none"
           /\ UNCHANGED <<need, buf, got, frames, torn>>
  <2>1. PICK b \in Seq(Bytes), s \in [1..(Len(sent) + 1) -> Nat], r \in Nat : Stream(b, s, r)
    BY DEF IInv, Streaming
  <2>2. PICK c \in [0..Len(sent) -> Nat] : Counted(c) /\ (~torn => Received(c))
    BY DEF IInv, Counting
  <2>3. 1 \in 1..Len(wire) /\ wire' = SubSeq(wire, 1 + 1, Len(wire))
    BY <1>1, Types, TailIsSubSeq, EmptySeq
  <2>4. wire' \in Seq(Bytes) /\ Kernel(b, r + 1)' /\ r + 1 \in Nat
    BY <1>1, <2>1, <2>3, Types, Consume DEF Stream
  <2>5. ptr' \in Nat /\ len' \in Nat
    <3>1. PICK d \in 0..9 : d = Head(wire)
      BY <1>1
    <3>2. ptr' = ptr + 1 /\ len' = 10 * len + d
      BY <1>3, <3>1 DEF Atoi
    <3>3. ptr \in Nat /\ len \in Nat
      BY Types
    <3> QED BY <3>2, <3>3
  <2>6. ASSUME ~torn PROVE Position(s, r + 1)'
    <3> DEFINE m == sent[frames + 1]
    <3>1. /\ frames < Len(sent) /\ m \in Messages /\ InHead(s, r, m)
          /\ Head(wire) = Header(m)[ptr + 1]
      BY <1>1, <2>1, <2>6, NextByte
    <3>2. m' = m /\ sent' = sent /\ frames' = frames
      BY <1>1, <1>3
    <3> HIDE DEF m
    <3>3. /\ ptr \in 0..NDigits(Len(m)) /\ len = NumAfter(Len(m), ptr)
          /\ r = s[frames + 1] + ptr
      BY <3>1 DEF InHead
    <3>4. ptr + 1 \in 0..NDigits(Len(m)) /\ len' = NumAfter(Len(m), ptr + 1)
      BY <1>1, <1>3, <3>1, <3>3, DigitGoesOn
    <3>5. r + 1 = s[frames + 1] + (ptr + 1)
      <4>1. frames + 1 \in 1..(Len(sent) + 1)
        BY <3>1, Types
      <4>2. PICK o \in Nat : o = s[frames + 1]
        BY <4>1
      <4>3. r = o + ptr /\ ptr \in Nat
        BY <3>3, <4>2, Types
      <4>4. r + 1 = o + (ptr + 1)
        BY <4>3
      <4> QED BY <4>2, <4>4
    <3>6. InHead(s, r + 1, m)'
      BY <1>1, <1>3, <3>2, <3>4, <3>5 DEF InHead
    <3> QED BY <3>1, <3>2, <3>6 DEF Position, m
  <2>7. ~torn => Received(c)'
    BY <1>1, <1>3, <2>2 DEF Received
  <2>8. Layout(b, s)
    BY <2>1 DEF Stream
  <2>9. "none" \in States
    BY DEF States
  <2> QED BY <1>1, <1>3, <2>2, <2>4, <2>5, <2>6, <2>7, <2>8, <2>9, Types, ReceiverInv
<1> QED BY <1>2, <1>3 DEF ReadDigit

\* A byte that cannot be in a header.
LEMMA ReadOtherInv ==
  ASSUME IInv, ReadOther
  PROVE  IInv'
BY GiveUpInv DEF ReadOther, sender, States

\* After the last byte of a frame the receiver is where the next one begins.
LEMMA FrameEnds ==
  ASSUME IInv, frames + 1 \in 1..Len(sent), NEW s \in [1..(Len(sent) + 1) -> Nat], NEW e \in Nat,
         e = s[(frames + 1) + 1],
         frames' = frames + 1, sent' = sent, need' = 0, ptr' = 0, len' = 0
  PROVE  Position(s, e)'
<1>1. frames \in Nat /\ Len(sent) \in Nat
  BY Types
<1>2. CASE frames + 1 = Len(sent)
  BY <1>2 DEF Position
<1>3. CASE frames + 1 # Len(sent)
  <2>1. frames' < Len(sent') /\ (frames + 1) + 1 \in 1..Len(sent)
    BY <1>1, <1>3
  <2>2. PICK x \in Messages : x = sent'[frames' + 1]
    BY <2>1, Types, ElementOfSeq
  <2>3. 0 \in 0..NDigits(Len(x)) /\ NumAfter(Len(x), 0) = 0
    <3>1. NDigits(Len(x)) \in 1..3
      BY HeaderFacts
    <3>2. 0 \in 0..NDigits(Len(x))
      BY <3>1
    <3> QED BY <3>2 DEF NumAfter
  <2>4. e = s[frames' + 1] + 0
    OBVIOUS
  <2>5. InHead(s, e, x)'
    BY <2>3, <2>4 DEF InHead
  <2> QED BY <2>1, <2>2, <2>5 DEF Position
<1> QED BY <1>2, <1>3

\* The newline: the frame that begins here is of the length read, or it is an
\* empty one, and then it is already at its end.
LEMMA ReadNewlineInv ==
  ASSUME IInv, ReadNewline
  PROVE  IInv'
<1>1. /\ need = 0 /\ wire # <<>> /\ Head(wire) = Newline /\ wire' = Tail(wire)
      /\ UNCHANGED <<tosend, shut, sent, due, errno, timeouts>>
  BY DEF ReadNewline, InHeader, sender
<1>2. CASE GiveUp("EMSGSIZE")
  BY <1>1, <1>2, GiveUpInv DEF States
<1>3. CASE /\ ~TooBig(len)
           /\ \/ len = 0 /\ Frame("ECONNCLOSED")
              \/ /\ len > 0 /\ ptr' = 0 /\ len' = 0 /\ need' = len /\ buf' = <<>> /\ state' = "none"
                 /\ UNCHANGED <<got, frames, torn>>
  <2>1. PICK b \in Seq(Bytes), s \in [1..(Len(sent) + 1) -> Nat], r \in Nat : Stream(b, s, r)
    BY DEF IInv, Streaming
  <2>2. PICK c \in [0..Len(sent) -> Nat] : Counted(c) /\ (~torn => Received(c))
    BY DEF IInv, Counting
  <2>3. 1 \in 1..Len(wire) /\ wire' = SubSeq(wire, 1 + 1, Len(wire))
    BY <1>1, Types, TailIsSubSeq, EmptySeq
  <2>4. wire' \in Seq(Bytes) /\ Kernel(b, r + 1)' /\ r + 1 \in Nat
    BY <1>1, <2>1, <2>3, Types, Consume DEF Stream
  <2>5. Layout(b, s)
    BY <2>1 DEF Stream
  <2>6. /\ ptr' = 0 /\ len' = 0 /\ need' = len /\ buf' = <<>> /\ state' \in States
        /\ got' = got /\ torn' = torn
        /\ frames' = IF len = 0 THEN frames + 1 ELSE frames
    BY <1>3, Types DEF Frame, Return, States
  <2>7. need' \in 0..(Size - 1) /\ <<>> \in Seq(Bytes)
    BY <1>3, <2>6, Types, TcpAssumption, EmptySeq DEF TooBig
  <2>8. frames' \in Nat
    BY <2>6, Types
  <2>9. ASSUME ~torn PROVE Position(s, r + 1)' /\ Received(c)'
    <3>1. PICK m \in Messages :
            /\ m = sent[frames + 1] /\ frames < Len(sent) /\ InHead(s, r, m)
            /\ Header(m)[ptr + 1] = Newline
      BY <1>1, <2>1, <2>9, NextByte
    <3>2. /\ ptr = NDigits(Len(m)) /\ len = Len(m)
          /\ r = s[frames + 1] + ptr
      <4>1. ptr \in 0..NDigits(Len(m)) /\ len = NumAfter(Len(m), ptr) /\ r = s[frames + 1] + ptr
        BY <3>1 DEF InHead
      <4> QED BY <3>1, <4>1, NewlineEndsHeader
    <3>3. frames + 1 \in 1..Len(sent) /\ frames + 1 \in 0..Len(sent) /\ (frames + 1) - 1 = frames
          /\ frames \in 0..Len(sent)
      <4>1. frames < Len(sent) /\ frames \in Nat /\ Len(sent) \in Nat
        BY <3>1, Types
      <4> QED BY <4>1
    <3>4. PICK o, l \in Nat : o = s[frames + 1] /\ l = Len(m)
      BY <3>1, <3>3, MessageFacts
    <3>5. r + 1 = o + HLen(m)
      <4>1. PICK k \in 1..3 : k = NDigits(Len(m))
        BY <3>1, HeaderFacts
      <4>2. r = o + k /\ HLen(m) = k + 1
        BY <3>2, <3>4, <4>1 DEF HLen
      <4>3. r + 1 = o + (k + 1)
        BY <4>2
      <4> QED BY <4>2, <4>3
    <3>6. s[(frames + 1) + 1] = o + HLen(m) + l
      BY <2>5, <3>1, <3>3, <3>4 DEF Layout
    <3>7. CASE len = 0
      <4>1. r + 1 = s[(frames + 1) + 1]
        BY <3>2, <3>4, <3>5, <3>6, <3>7, Types
      <4>2. frames' = frames + 1 /\ frames' <= Len(sent) /\ sent' = sent
        BY <1>1, <2>6, <3>3, <3>7, Types
      <4>3. Position(s, r + 1)'
        BY <1>1, <2>4, <2>6, <3>3, <3>7, <4>1, <4>2, FrameEnds
      <4>4. Received(c)'
        <5>1. m = <<>>
          BY <3>2, <3>7, MessageFacts
        <5>2. c[frames + 1] = c[frames] + 0
          BY <2>2, <3>1, <3>3, <5>1 DEF Counted
        <5>3. c[frames + 1] = c[frames]
          BY <3>3, <5>2
        <5> QED BY <1>1, <2>2, <2>6, <2>9, <4>2, <5>3 DEF Received
      <4> QED BY <4>3, <4>4
    <3>8. CASE len # 0
      <4>1. frames' = frames /\ sent' = sent /\ need' = l /\ l > 0
        BY <1>1, <2>6, <3>2, <3>4, <3>8
      <4>2. InBody(s, r + 1, m)'
        <5>1. Len(<<>>) = 0
          OBVIOUS
        <5>2. r + 1 = s[frames + 1] + HLen(m) + 0
          BY <3>4, <3>5, <2>4
        <5> QED BY <2>6, <3>4, <4>1, <5>1, <5>2 DEF InBody
      <4>3. Position(s, r + 1)'
        BY <3>1, <4>1, <4>2 DEF Position
      <4>4. Received(c)'
        BY <1>1, <2>2, <2>6, <2>9, <4>1 DEF Received
      <4> QED BY <4>3, <4>4
    <3> QED BY <3>7, <3>8
  <2> QED BY <1>1, <2>2, <2>4, <2>5, <2>6, <2>7, <2>8, <2>9, Types, ReceiverInv
<1> QED BY <1>2, <1>3 DEF ReadNewline

\* Bytes of the payload, the last ones or not.
LEMMA ReadPayloadInv ==
  ASSUME IInv, NEW n \in 1..Len(wire), n <= need, ReadPayload(n)
  PROVE  IInv'
<1> DEFINE p == SubSeq(wire, 1, n)
           q == buf \o p
<1>1. /\ need > 0 /\ wire' = SubSeq(wire, n + 1, Len(wire))
      /\ UNCHANGED <<tosend, shut, sent, due, errno, timeouts, torn>>
      /\ \/ /\ n = need /\ got' = Append(got, q) /\ frames' = frames + 1
            /\ state' = "OK" /\ ptr' = 0 /\ len' = 0 /\ need' = 0 /\ buf' = <<>>
         \/ /\ n # need /\ need' = need - n /\ buf' = q /\ state' = "none"
            /\ UNCHANGED <<ptr, len, got, frames>>
  BY DEF ReadPayload, Return, sender
<1>2. PICK b \in Seq(Bytes), s \in [1..(Len(sent) + 1) -> Nat], r \in Nat : Stream(b, s, r)
  BY DEF IInv, Streaming
<1>3. PICK c \in [0..Len(sent) -> Nat] : Counted(c) /\ (~torn => Received(c))
  BY DEF IInv, Counting
<1>4. wire' \in Seq(Bytes) /\ Kernel(b, r + n)' /\ r + n \in Nat
  BY <1>1, <1>2, Types, Consume DEF Stream
<1>5. Layout(b, s)
  BY <1>2 DEF Stream
<1>6. p \in Seq(Bytes) /\ Len(p) = n /\ \A j \in 1..n : p[j] = wire[j]
  <2>1. n \in 0..Len(wire)
    BY Types
  <2> QED BY <2>1, Types, Cut
<1>7. /\ q \in Seq(Bytes) /\ Len(q) = Len(buf) + n
      /\ \A j \in 1..(Len(buf) + n) : q[j] = IF j <= Len(buf) THEN buf[j] ELSE wire[j - Len(buf)]
  <2> HIDE DEF p
  <2>1. /\ q \in Seq(Bytes) /\ Len(q) = Len(buf) + Len(p)
        /\ \A j \in 1..(Len(buf) + Len(p)) :
             q[j] = IF j <= Len(buf) THEN buf[j] ELSE p[j - Len(buf)]
    <3>1. buf \in Seq(Bytes) /\ p \in Seq(Bytes)
      BY <1>6, Types
    <3> QED BY <3>1, ConcatProperties
  <2> HIDE DEF q
  <2>2. PICK k \in Nat : k = Len(buf)
    BY Types
  <2>3. ASSUME NEW j \in 1..(k + n), ~(j <= k) PROVE p[j - k] = wire[j - k]
    <3>1. j - k \in 1..n
      BY <2>3
    <3> QED BY <1>6, <3>1
  <2> QED BY <1>6, <2>1, <2>2, <2>3
<1> HIDE DEF p, q
<1>8. PICK N \in Nat, k \in Nat, d \in Nat : N = n /\ k = Len(buf) /\ d = need
  <2>1. n \in Nat
    BY Types
  <2>2. need \in Nat
    BY Types, TcpAssumption
  <2>3. Len(buf) \in Nat
    BY Types
  <2> QED BY <2>1, <2>2, <2>3
<1>9. need' \in 0..(Size - 1)
  BY <1>1, Types, TcpAssumption
<1>10. need' = 0 => buf' = <<>>
  BY <1>1, Types
<1>11. buf' \in Seq(Bytes) /\ got' \in Seq(Seq(Bytes)) /\ frames' \in Nat /\ state' \in States
       /\ ptr' \in Nat /\ len' \in Nat
  <2>1. /\ frames \in Nat /\ state \in States /\ ptr \in Nat /\ len \in Nat
        /\ got \in Seq(Seq(Bytes)) /\ q \in Seq(Bytes) /\ <<>> \in Seq(Bytes)
    BY <1>7, Types, EmptySeq
  <2>2. Append(got, q) \in Seq(Seq(Bytes))
    BY <2>1, AppendProperties
  <2>3. "OK" \in States /\ "none" \in States
    BY DEF States
  <2>4. CASE n = need
    <3>1. /\ got' = Append(got, q) /\ frames' = frames + 1 /\ state' = "OK"
          /\ ptr' = 0 /\ len' = 0 /\ buf' = <<>>
      BY <1>1, <2>4
    <3> QED BY <2>1, <2>2, <2>3, <3>1
  <2>5. CASE n # need
    <3>1. buf' = q /\ state' = "none" /\ UNCHANGED <<ptr, len, got, frames>>
      BY <1>1, <2>5
    <3> QED BY <2>1, <2>3, <3>1
  <2> QED BY <2>4, <2>5
<1>12. ASSUME ~torn PROVE Position(s, r + n)' /\ Received(c)'
  <2>1. PICK m : m = sent[frames + 1] /\ frames < Len(sent) /\ InBody(s, r, m)
    BY <1>1, <1>2, <1>12 DEF Stream, Position, InHead
  <2>2. frames + 1 \in 1..Len(sent) /\ frames + 1 \in 0..Len(sent) /\ (frames + 1) - 1 = frames
        /\ frames \in 0..Len(sent) /\ frames \in Nat
    <3>1. frames < Len(sent) /\ frames \in Nat /\ Len(sent) \in Nat
      BY <2>1, Types
    <3> QED BY <3>1
  <2>3. m \in Messages
    BY <2>1, <2>2, Types, ElementOfSeq
  <2>4. PICK o, h, l \in Nat : o = s[frames + 1] /\ h = HLen(m) /\ l = Len(m)
    <3>1. HLen(m) \in Nat /\ Len(m) \in Nat
      BY <2>3, HeaderFacts, MessageFacts DEF HLen
    <3> QED BY <2>2, <3>1
  <2>5. /\ k + d = l /\ r = o + h + k /\ d > 0
        /\ \A j \in 1..k : buf[j] = m[j]
    BY <1>8, <2>1, <2>4 DEF InBody
  <2>6. \A j \in 1..l : b[o + h + j] = m[j]
    BY <1>5, <2>1, <2>2, <2>4 DEF Layout, FrameAt
  <2>7. s[(frames + 1) + 1] = o + h + l
    BY <1>5, <2>1, <2>2, <2>4 DEF Layout
  <2>8. \A j \in 1..N : wire[j] = b[r + j]
    <3>1. \A j \in 1..n : j \in 1..Len(wire)
      BY Types
    <3> QED BY <1>2, <1>8, <3>1 DEF Stream, Kernel
  <2>9. N <= d /\ N >= 1
    BY <1>8
  <2>10. ASSUME NEW j \in 1..(k + N) PROVE q[j] = m[j]
    <3>1. CASE j <= k
      BY <1>7, <1>8, <2>5, <3>1
    <3>2. CASE ~(j <= k)
      <4>1. j - k \in 1..N /\ r + (j - k) = o + h + j /\ j \in 1..l
        BY <2>5, <2>9, <3>2
      <4>2. wire[j - k] = m[j]
        BY <2>6, <2>8, <4>1
      <4> QED BY <1>7, <1>8, <3>2, <4>2
    <3> QED BY <3>1, <3>2
  <2>11. CASE n = need
    <3>1. /\ got' = Append(got, q) /\ frames' = frames + 1
          /\ ptr' = 0 /\ len' = 0 /\ need' = 0
      BY <1>1, <2>11
    <3>2. q = m
      <4>1. Len(q) = Len(m) /\ \A j \in 1..Len(q) : q[j] = m[j]
        BY <1>7, <1>8, <2>4, <2>5, <2>10, <2>11
      <4> QED BY <1>7, <2>3, <4>1, MessageFacts, SeqEqual
    <3>3. r + n = s[(frames + 1) + 1]
      <4>0. N = d /\ k + d = l
        BY <1>8, <2>5, <2>11
      <4>1. (o + h + k) + N = o + h + l
        BY <4>0
      <4>2. r + n = (o + h + k) + N
        BY <1>8, <2>5
      <4> QED BY <2>7, <4>1, <4>2
    <3>4. Position(s, r + n)'
      BY <1>1, <1>4, <2>2, <3>1, <3>3, FrameEnds
    <3>5. m # <<>>
      BY <2>3, <2>4, <2>5, MessageFacts
    <3>6. c[frames + 1] = c[frames] + 1 /\ c[frames + 1] <= Len(due) /\ due[c[frames + 1]] = m
      BY <1>3, <2>1, <2>2, <3>5 DEF Counted
    <3>7. PICK g \in Nat : g = Len(got) /\ g = c[frames] /\ \A j \in 1..g : got[j] = due[j]
      BY <1>3, <1>12, Types DEF Received
    <3>8. /\ Len(got') = g + 1 /\ got'[g + 1] = m
          /\ \A j \in 1..g : got'[j] = got[j]
      <4>1. got \in Seq(Seq(Bytes)) /\ m \in Seq(Bytes) /\ got' = Append(got, m)
        BY <1>7, <3>1, <3>2, Types
      <4>2. /\ Len(got') = Len(got) + 1 /\ got'[Len(got) + 1] = m
            /\ \A j \in 1..Len(got) : got'[j] = got[j]
        BY <4>1, AppendProperties
      <4> QED BY <3>7, <4>2
    <3>9. ASSUME NEW j \in 1..(g + 1) PROVE got'[j] = due[j]
      <4>1. j \in 1..g \/ j = g + 1
        OBVIOUS
      <4> QED BY <3>6, <3>7, <3>8, <4>1
    <3>10. Received(c)'
      <4>1. frames' <= Len(sent') /\ Len(got') = c[frames'] /\ Len(got') <= Len(due')
        BY <1>1, <2>2, <3>1, <3>6, <3>7, <3>8
      <4> QED BY <1>1, <3>8, <3>9, <4>1 DEF Received
    <3> QED BY <3>4, <3>10
  <2>12. CASE n # need
    <3>1. need' = need - n /\ buf' = q /\ UNCHANGED <<ptr, len, got, frames>>
      BY <1>1, <2>12
    <3>2. /\ need' = d - N /\ need' > 0 /\ Len(buf') = k + N
          /\ Len(buf') + need' = l
          /\ r + n = o + h + Len(buf')
      <4>1. need' = d - N /\ Len(buf') = k + N /\ N # d /\ r + n = (o + h + k) + N
        BY <1>7, <1>8, <2>5, <2>12, <3>1
      <4>2. d - N > 0 /\ (k + N) + (d - N) = l /\ (o + h + k) + N = o + h + (k + N)
        BY <2>5, <2>9, <4>1
      <4> QED BY <4>1, <4>2
    <3>3. \A j \in 1..Len(buf') : buf'[j] = m[j]
      BY <2>10, <3>1, <3>2
    <3>4. InBody(s, r + n, m)'
      BY <2>4, <3>1, <3>2, <3>3 DEF InBody
    <3>5. Position(s, r + n)'
      BY <1>1, <2>1, <3>1, <3>4 DEF Position
    <3>6. Received(c)'
      BY <1>1, <1>3, <1>12, <3>1 DEF Received
    <3> QED BY <3>5, <3>6
  <2> QED BY <2>11, <2>12
<1> QED BY <1>1, <1>3, <1>4, <1>5, <1>9, <1>10, <1>11, <1>12, Types, ReceiverInv

\* A call that returns because nothing more comes: the rest of a frame that was
\* begun is lost, and between two frames nothing is.
LEMMA NothingComesInv ==
  ASSUME IInv, NEW st \in States, Return(st), torn' = (torn \/ Begun),
         UNCHANGED <<tosend, shut, sent, due, wire, got, frames>>,
         timeouts' \in 0..MaxTimeouts, errno' \in {"none", "EWOULDBLOCK"},
         errno' = "EWOULDBLOCK" => timeouts' > 0
  PROVE  IInv'
<1>1. PICK b \in Seq(Bytes), s \in [1..(Len(sent) + 1) -> Nat], r \in Nat : Stream(b, s, r)
  BY DEF IInv, Streaming
<1>2. PICK c \in [0..Len(sent) -> Nat] : Counted(c) /\ (~torn => Received(c))
  BY DEF IInv, Counting
<1>3. state' = st /\ ptr' = 0 /\ len' = 0 /\ need' = 0 /\ buf' = <<>>
  BY DEF Return
<1>4. Layout(b, s) /\ Kernel(b, r)'
  BY <1>1 DEF Stream, Kernel
<1>5. torn' \in BOOLEAN
  BY Types
<1>6. ASSUME ~torn' PROVE Position(s, r)' /\ Received(c)'
  <2>1. ~torn /\ ptr = 0 /\ need = 0
    <3>1. ~torn /\ ~(ptr > 0) /\ ~(need > 0)
      BY <1>6 DEF Begun
    <3>2. ptr \in Nat /\ need \in Nat
      BY Types, TcpAssumption
    <3> QED BY <3>1, <3>2
  <2>2. Received(c)'
    BY <1>2, <2>1 DEF Received
  <2>3. Position(s, r)'
    <3>1. CASE frames = Len(sent)
      <4>1. r = s[frames + 1]
        BY <1>1, <2>1, <3>1, Types DEF Stream, Position
      <4> QED BY <1>3, <3>1, <4>1 DEF Position
    <3>2. CASE frames # Len(sent)
      <4>1. PICK m : m = sent[frames + 1] /\ frames < Len(sent) /\ InHead(s, r, m)
        BY <1>1, <2>1, <3>2 DEF Stream, Position, InBody
      <4>2. NumAfter(Len(m), 0) = 0
        BY DEF NumAfter
      <4>3. InHead(s, r, m)'
        BY <1>3, <2>1, <4>1, <4>2 DEF InHead
      <4> QED BY <4>1, <4>3 DEF Position
    <3> QED BY <3>1, <3>2
  <2> QED BY <2>2, <2>3
<1>7. <<>> \in Seq(Bytes) /\ 0 \in 0..(Size - 1)
  BY EmptySeq, TcpAssumption
<1> QED BY <1>2, <1>3, <1>4, <1>5, <1>6, <1>7, Types, ReceiverInv

LEMMA ReadEofInv ==
  ASSUME IInv, ReadEof
  PROVE  IInv'
<1>1. PICK st \in States :
        /\ Return(st) /\ torn' = (torn \/ Begun)
        /\ UNCHANGED <<tosend, shut, sent, due, wire, errno, got, frames, timeouts>>
  BY DEF ReadEof, RecvState, States, sender
<1> QED BY <1>1, Types, NothingComesInv

LEMMA ReadTimeoutInv ==
  ASSUME IInv, ReadTimeout
  PROVE  IInv'
<1>1. /\ Return("ETIMEOUT") /\ torn' = (torn \/ Begun)
      /\ errno' = "EWOULDBLOCK" /\ timeouts < MaxTimeouts /\ timeouts' = timeouts + 1
      /\ UNCHANGED <<tosend, shut, sent, due, wire, got, frames>>
  BY DEF ReadTimeout, sender
<1>2. timeouts' \in 0..MaxTimeouts /\ timeouts' > 0
  BY <1>1, Types, TcpAssumption
<1>3. "ETIMEOUT" \in States
  BY DEF States
<1> QED BY <1>1, <1>2, <1>3, NothingComesInv

\* A new frame at the end of the stream b.
LEMMA FrameAppended ==
  ASSUME NEW b \in Seq(Bytes), NEW m \in Messages
  PROVE  LET d == b \o (Header(m) \o m)
         IN  /\ d \in Seq(Bytes) /\ Len(d) = Len(b) + HLen(m) + Len(m)
             /\ \A j \in 1..Len(b) : d[j] = b[j]
             /\ \A j \in 1..Len(Header(m) \o m) : d[Len(b) + j] = (Header(m) \o m)[j]
             /\ FrameAt(d, Len(b), m)
             /\ Header(m) \o m \in Seq(Bytes) /\ Len(Header(m) \o m) = HLen(m) + Len(m)
<1> DEFINE f == Header(m) \o m
           d == b \o f
<1>1. Header(m) \in Seq(Bytes) /\ m \in Seq(Bytes)
  BY HeaderFacts, MessageFacts
<1>2. PICK k, l, n \in Nat : k = Len(b) /\ l = Len(m) /\ n = HLen(m) /\ n = Len(Header(m))
  <2>1. Len(Header(m)) = HLen(m)
    BY HeaderFacts
  <2> QED BY <1>1, <2>1, LenProperties
<1>3. /\ f \in Seq(Bytes) /\ Len(f) = n + l
      /\ \A j \in 1..(n + l) : f[j] = IF j <= n THEN Header(m)[j] ELSE m[j - n]
  <2>1. /\ f \in Seq(Bytes) /\ Len(f) = Len(Header(m)) + Len(m)
        /\ \A j \in 1..(Len(Header(m)) + Len(m)) :
             f[j] = IF j <= Len(Header(m)) THEN Header(m)[j] ELSE m[j - Len(Header(m))]
    BY <1>1, ConcatProperties
  <2> QED BY <1>2, <2>1
<1> HIDE DEF f
<1>4. /\ d \in Seq(Bytes) /\ Len(d) = k + (n + l)
      /\ \A j \in 1..(k + (n + l)) : d[j] = IF j <= k THEN b[j] ELSE f[j - k]
  <2>1. /\ d \in Seq(Bytes) /\ Len(d) = Len(b) + Len(f)
        /\ \A j \in 1..(Len(b) + Len(f)) : d[j] = IF j <= Len(b) THEN b[j] ELSE f[j - Len(b)]
    BY <1>3, ConcatProperties
  <2> QED BY <1>2, <1>3, <2>1
<1> HIDE DEF d
<1>5. \A j \in 1..k : d[j] = b[j]
  BY <1>4
<1>6. ASSUME NEW j \in 1..(n + l) PROVE d[k + j] = f[j]
  <2>1. k + j \in 1..(k + (n + l)) /\ ~(k + j <= k) /\ (k + j) - k = j
    OBVIOUS
  <2> QED BY <1>4, <2>1
<1>7. ASSUME NEW j \in 1..n PROVE d[k + j] = Header(m)[j]
  <2>1. j \in 1..(n + l) /\ j <= n
    OBVIOUS
  <2> QED BY <1>3, <1>6, <2>1
<1>8. ASSUME NEW j \in 1..l PROVE d[k + n + j] = m[j]
  <2>1. n + j \in 1..(n + l) /\ ~(n + j <= n) /\ (n + j) - n = j /\ k + (n + j) = k + n + j
    OBVIOUS
  <2> QED BY <1>3, <1>6, <2>1
<1>9. FrameAt(d, k, m)
  BY <1>2, <1>7, <1>8 DEF FrameAt
<1>10. k + (n + l) = k + n + l
  OBVIOUS
<1> QED BY <1>2, <1>3, <1>4, <1>5, <1>6, <1>9, <1>10 DEF d, f

\* The frames that were there stay where they are.
LEMMA FrameStays ==
  ASSUME NEW b, NEW d, NEW k \in Nat, \A j \in 1..k : d[j] = b[j],
         NEW o \in Nat, NEW m \in Messages, o + HLen(m) + Len(m) <= k, FrameAt(b, o, m)
  PROVE  FrameAt(d, o, m)
<1>1. PICK n, l \in Nat : n = HLen(m) /\ l = Len(m)
  BY HeaderFacts, MessageFacts DEF HLen
<1>2. /\ o + n + l <= k
      /\ \A j \in 1..n : b[o + j] = Header(m)[j]
      /\ \A j \in 1..l : b[o + n + j] = m[j]
  BY <1>1 DEF FrameAt
<1>3. (\A j \in 1..n : o + j \in 1..k) /\ (\A j \in 1..l : o + n + j \in 1..k)
  BY <1>2
<1>4. (\A j \in 1..n : d[o + j] = Header(m)[j]) /\ (\A j \in 1..l : d[o + n + j] = m[j])
  BY <1>2, <1>3
<1> QED BY <1>1, <1>4 DEF FrameAt

\* ducq_tcp_send puts a frame at the end of the stream (ducq_tcp.c:59-73).
LEMMA SendInv ==
  ASSUME IInv, NEW m \in Messages, ducq_tcp_send(m)
  PROVE  IInv'
<1>1. /\ ~shut /\ tosend = <<>> /\ tosend' = Header(m) \o m /\ sent' = Append(sent, m)
      /\ due' = (IF m = <<>> THEN due ELSE Append(due, m))
      /\ UNCHANGED <<shut, wire, ptr, len, need, buf, errno, state, got, frames, timeouts, torn>>
  BY DEF ducq_tcp_send, receiver
<1>2. PICK b \in Seq(Bytes), s \in [1..(Len(sent) + 1) -> Nat], r \in Nat : Stream(b, s, r)
  BY DEF IInv, Streaming
<1>3. PICK c \in [0..Len(sent) -> Nat] : Counted(c) /\ (~torn => Received(c))
  BY DEF IInv, Counting
<1>4. PICK d \in Seq(Bytes) :
        /\ Len(d) = Len(b) + HLen(m) + Len(m)
        /\ \A j \in 1..Len(b) : d[j] = b[j]
        /\ \A j \in 1..Len(tosend') : d[Len(b) + j] = tosend'[j]
        /\ FrameAt(d, Len(b), m)
        /\ tosend' \in Seq(Bytes) /\ Len(tosend') = HLen(m) + Len(m)
  BY <1>1, FrameAppended
<1>5. PICK N, k, h, l, w \in Nat :
        N = Len(sent) /\ k = Len(b) /\ h = HLen(m) /\ l = Len(m) /\ w = Len(wire)
  <2>1. HLen(m) \in Nat /\ Len(m) \in Nat
    BY HeaderFacts, MessageFacts DEF HLen
  <2> QED BY <2>1, Types, LenProperties
<1>6. /\ sent' \in Seq(Messages) /\ Len(sent') = N + 1 /\ sent'[N + 1] = m
      /\ \A i \in 1..N : sent'[i] = sent[i] /\ sent[i] \in Messages
  BY <1>1, <1>5, Types, AppendProperties, ElementOfSeq
<1> DEFINE t == [i \in 1..(N + 2) |-> IF i <= N + 1 THEN s[i] ELSE k + h + l]
<1>7. t \in [1..(N + 2) -> Nat]
  <2>1. s \in [1..(N + 1) -> Nat]
    BY <1>5
  <2>2. ASSUME NEW i \in 1..(N + 2), i <= N + 1 PROVE s[i] \in Nat
    <3>1. i \in 1..(N + 1)
      OBVIOUS
    <3> QED BY <2>1, <3>1
  <2> QED BY <2>2
<1>8. t[N + 2] = k + h + l /\ \A i \in 1..(N + 1) : t[i] = s[i]
  OBVIOUS
<1> HIDE DEF t
<1>9. s[N + 1] = k
  BY <1>2, <1>5 DEF Stream, Layout
<1>10. ASSUME NEW i \in 1..(N + 1)
       PROVE  /\ t[i + 1] = t[i] + HLen(sent'[i]) + Len(sent'[i])
              /\ t[i + 1] <= Len(d)
              /\ FrameAt(d, t[i], sent'[i])
  <2>1. CASE i = N + 1
    <3>1. i + 1 = N + 2 /\ t[i] = k /\ sent'[i] = m
      BY <1>6, <1>8, <1>9, <2>1
    <3> QED BY <1>4, <1>5, <1>8, <3>1
  <2>2. CASE i # N + 1
    <3>1. i \in 1..N /\ i + 1 \in 1..(N + 1) /\ i \in 1..(N + 1)
      BY <2>2
    <3>2. PICK x \in Messages : x = sent[i] /\ x = sent'[i]
      BY <1>6, <3>1
    <3>3. s[i + 1] = s[i] + HLen(x) + Len(x) /\ s[i + 1] <= k /\ FrameAt(b, s[i], x)
      BY <1>2, <1>5, <3>1, <3>2 DEF Stream, Layout
    <3>4. PICK o, q \in Nat : o = s[i] /\ q = s[i + 1]
      <4>1. s \in [1..(N + 1) -> Nat]
        BY <1>5
      <4> QED BY <3>1, <4>1
    <3>5. FrameAt(d, s[i], x)
      <4>1. q = o + HLen(x) + Len(x) /\ q <= k /\ FrameAt(b, o, x)
        BY <3>3, <3>4
      <4>2. o + HLen(x) + Len(x) <= k
        BY <4>1
      <4>3. \A j \in 1..k : d[j] = b[j]
        BY <1>4, <1>5
      <4>4. FrameAt(d, o, x)
        BY <4>1, <4>2, <4>3, FrameStays
      <4> QED BY <3>4, <4>4
    <3>6. t[i] = s[i] /\ t[i + 1] = s[i + 1]
      BY <1>8, <3>1
    <3>7. q <= k /\ t[i + 1] = q
      BY <3>3, <3>4, <3>6
    <3>8. t[i + 1] <= Len(d)
      <4>1. Len(d) = k + h + l
        BY <1>4, <1>5
      <4>2. q <= k + h + l
        BY <3>7
      <4> QED BY <3>7, <4>1, <4>2
    <3> QED BY <3>2, <3>3, <3>5, <3>6, <3>8
  <2> QED BY <2>1, <2>2
<1>11. Layout(d, t)'
  <2>1. t[(N + 1) + 1] = Len(d)
    BY <1>4, <1>5, <1>8
  <2> QED BY <1>6, <1>10, <2>1 DEF Layout
<1>12. Kernel(d, r)'
  <2>1. r + w = k /\ \A j \in 1..w : wire[j] = b[r + j]
    <3>1. Len(<<>>) = 0
      OBVIOUS
    <3>2. r + w + 0 = k
      BY <1>1, <1>2, <1>5, <3>1 DEF Stream, Kernel
    <3>3. r + w = k
      BY <3>2
    <3>4. \A j \in 1..w : wire[j] = b[r + j]
      BY <1>2, <1>5 DEF Stream, Kernel
    <3> QED BY <3>3, <3>4
  <2>2. \A j \in 1..w : wire[j] = d[r + j]
    <3>1. \A j \in 1..w : r + j \in 1..k
      BY <2>1
    <3> QED BY <1>4, <1>5, <2>1, <3>1
  <2>3. r + w + Len(tosend') = Len(d)
    <3>1. Len(tosend') = h + l /\ Len(d) = k + h + l
      BY <1>4, <1>5
    <3>2. r + w = k
      BY <2>1
    <3>3. r + w + (h + l) = k + h + l
      BY <3>2
    <3> QED BY <3>1, <3>3
  <2>4. Len(wire') = w /\ wire' = wire
    BY <1>1, <1>5
  <2>5. \A j \in 1..Len(tosend') : tosend'[j] = d[r + w + j]
    BY <1>4, <1>5, <2>1
  <2>6. r + w + Len(tosend') <= Len(d)
    <3>1. Len(d) \in Nat
      BY LenProperties
    <3> QED BY <2>3, <3>1
  <2> QED BY <2>2, <2>3, <2>4, <2>5, <2>6 DEF Kernel
<1>13. ASSUME ~torn PROVE Position(t, r)'
  <2>1. frames \in Nat
    BY Types
  <2>2. CASE frames = N
    <3>1. need = 0 /\ ptr = 0 /\ len = 0 /\ r = s[N + 1]
      BY <1>2, <1>5, <1>13, <2>2 DEF Stream, Position
    <3>2. NumAfter(l, 0) = 0 /\ 0 \in 0..NDigits(l) /\ r = t[N + 1] + 0
      <4>1. NDigits(l) \in 1..3
        BY <1>5, HeaderFacts
      <4>2. 0 \in 0..NDigits(l)
        BY <4>1
      <4>3. r = t[N + 1]
        BY <1>8, <3>1
      <4>4. r = t[N + 1] + 0
        BY <4>3
      <4> QED BY <4>2, <4>4 DEF NumAfter
    <3>3. InHead(t, r, m)'
      BY <1>1, <1>5, <2>2, <3>1, <3>2 DEF InHead
    <3>4. frames' < Len(sent') /\ sent'[frames' + 1] = m
      BY <1>1, <1>6, <2>2
    <3> QED BY <3>3, <3>4 DEF Position
  <2>3. CASE frames # N
    <3>1. PICK x : x = sent[frames + 1] /\ frames < N /\ (InHead(s, r, x) \/ InBody(s, r, x))
      BY <1>2, <1>5, <1>13, <2>3 DEF Stream, Position
    <3>2. frames + 1 \in 1..N /\ frames + 1 \in 1..(N + 1) /\ frames < N + 1
      BY <2>1, <3>1
    <3>3. t[frames + 1] = s[frames + 1] /\ sent'[frames + 1] = x
      BY <1>6, <1>8, <3>1, <3>2
    <3>4. (InHead(t, r, x) \/ InBody(t, r, x))'
      BY <1>1, <3>1, <3>3 DEF InHead, InBody
    <3> QED BY <1>1, <1>6, <3>2, <3>3, <3>4 DEF Position
  <2> QED BY <2>2, <2>3
<1>14. PICK D \in Nat : D = Len(due)
  BY Types
<1>15. /\ due' \in Seq(Messages) /\ Len(due') \in Nat /\ D <= Len(due')
       /\ \A j \in 1..D : due'[j] = due[j]
       /\ Len(due') = D + (IF m = <<>> THEN 0 ELSE 1)
       /\ m # <<>> => due'[Len(due')] = m
  BY <1>1, <1>14, Types, AppendProperties
<1>16. PICK D1 \in Nat : D1 = Len(due')
  BY <1>15
<1>17. PICK e \in [0..(N + 1) -> Nat] : e[N + 1] = D1 /\ \A i \in 0..N : e[i] = c[i]
  <2> DEFINE x == [i \in 0..(N + 1) |-> IF i <= N THEN c[i] ELSE D1]
  <2>1. c \in [0..N -> Nat]
    BY <1>5
  <2>2. ASSUME NEW i \in 0..(N + 1), i <= N PROVE c[i] \in Nat
    <3>1. i \in 0..N
      BY <2>2
    <3> QED BY <2>1, <3>1
  <2>3. x \in [0..(N + 1) -> Nat]
    BY <2>2
  <2>4. x[N + 1] = D1 /\ \A i \in 0..N : x[i] = c[i]
    OBVIOUS
  <2> QED BY <2>3, <2>4
<1>18. c[N] = D
  BY <1>3, <1>5, <1>14 DEF Counted
<1>19. ASSUME NEW i \in 1..(N + 1)
       PROVE  /\ e[i] = e[i - 1] + (IF sent'[i] = <<>> THEN 0 ELSE 1)
              /\ e[i] <= Len(due')
              /\ sent'[i] # <<>> => due'[e[i]] = sent'[i]
  <2>1. CASE i = N + 1
    <3>1. e[i] = Len(due') /\ e[i - 1] = D /\ sent'[i] = m
      BY <1>6, <1>16, <1>17, <1>18, <2>1
    <3> QED BY <1>15, <3>1
  <2>2. CASE i # N + 1
    <3>1. i \in 1..N /\ i \in 0..N /\ i - 1 \in 0..N
      BY <2>2
    <3>2. /\ c[i] = c[i - 1] + (IF sent[i] = <<>> THEN 0 ELSE 1)
          /\ c[i] <= D
          /\ sent[i] # <<>> => due[c[i]] = sent[i]
      BY <1>3, <1>5, <1>14, <3>1 DEF Counted
    <3>3. e[i] = c[i] /\ e[i - 1] = c[i - 1] /\ sent'[i] = sent[i]
      BY <1>6, <1>17, <3>1
    <3>4. c[i] \in Nat /\ c[i - 1] \in Nat
      <4>1. c \in [0..N -> Nat]
        BY <1>5
      <4> QED BY <3>1, <4>1
    <3>5. c[i] <= Len(due')
      <4>1. D <= D1 /\ D1 = Len(due')
        BY <1>15, <1>16
      <4>2. c[i] <= D1
        BY <3>2, <3>4, <4>1
      <4> QED BY <4>1, <4>2
    <3>6. sent[i] # <<>> => c[i] \in 1..D
      BY <3>2, <3>4
    <3> QED BY <1>15, <3>2, <3>3, <3>5, <3>6
  <2> QED BY <2>1, <2>2
<1>20. Counted(e)'
  <2>1. Len(sent') = N + 1 /\ e[N + 1] = Len(due')
    BY <1>6, <1>16, <1>17
  <2>2. \A i \in 1..Len(sent') :
          /\ e[i] = e[i - 1] + (IF sent'[i] = <<>> THEN 0 ELSE 1)
          /\ e[i] <= Len(due')
          /\ sent'[i] # <<>> => due'[e[i]] = sent'[i]
    BY <1>19, <2>1
  <2> QED BY <2>1, <2>2 DEF Counted
<1>21. ASSUME ~torn PROVE Received(e)'
  <2>1. /\ frames \in 0..N /\ Len(got) = c[frames] /\ Len(got) <= D
        /\ \A j \in 1..Len(got) : got[j] = due[j]
    BY <1>3, <1>5, <1>14, <1>21, Types DEF Received
  <2>2. PICK g \in Nat : g = Len(got)
    BY Types
  <2>3. g <= Len(due') /\ \A j \in 1..g : got[j] = due'[j]
    <3>1. \A j \in 1..g : j \in 1..D
      BY <2>1, <2>2
    <3> QED BY <1>15, <2>1, <2>2, <3>1
  <2>4. e[frames] = g /\ frames <= N + 1
    BY <1>17, <2>1, <2>2
  <2>5. frames' = frames /\ got' = got /\ Len(sent') = N + 1
    BY <1>1, <1>6
  <2>6. frames' <= Len(sent') /\ Len(got') = e[frames'] /\ Len(got') <= Len(due')
    BY <2>2, <2>3, <2>4, <2>5
  <2>7. \A j \in 1..Len(got') : got'[j] = due'[j]
    BY <2>2, <2>3, <2>5
  <2> QED BY <2>6, <2>7 DEF Received
<1>22. TypeOK'
  BY <1>1, <1>4, <1>6, <1>15, Types DEF TypeOK
<1>23. Streaming'
  <2>1. Len(sent') + 1 = N + 2
    BY <1>6
  <2> QED BY <1>1, <1>2, <1>7, <1>11, <1>12, <1>13, <2>1 DEF Streaming, Stream
<1>24. Counting'
  <2>1. e \in [0..Len(sent') -> Nat]
    BY <1>6, <1>17
  <2>2. torn' = torn
    BY <1>1
  <2> QED BY <1>20, <1>21, <2>1, <2>2 DEF Counting
<1> QED BY <1>1, <1>22, <1>23, <1>24, Types DEF IInv

\* One write() moves any number of bytes of the frame to the wire
\* (inet_socket.c:42-60).
LEMMA WriteInv ==
  ASSUME IInv, NEW n \in 1..Len(tosend), Write(n)
  PROVE  IInv'
<1>1. /\ wire' = wire \o SubSeq(tosend, 1, n)
      /\ tosend' = SubSeq(tosend, n + 1, Len(tosend))
      /\ UNCHANGED <<shut, sent, due, ptr, len, need, buf, errno, state, got, frames, timeouts, torn>>
  BY DEF Write, receiver
<1>2. ~shut
  <2>1. tosend # <<>>
    BY DEF Write
  <2> QED BY <2>1, Types
<1>3. PICK b \in Seq(Bytes), s \in [1..(Len(sent) + 1) -> Nat], r \in Nat : Stream(b, s, r)
  BY DEF IInv, Streaming
<1>4. PICK w, k, l \in Nat : w = Len(wire) /\ k = Len(tosend) /\ l = Len(b)
  BY Types, LenProperties
<1>5. n \in Nat /\ n >= 1 /\ n <= k /\ n \in 0..k
  BY <1>4
<1> DEFINE p == SubSeq(tosend, 1, n)
<1>6. /\ p \in Seq(Bytes) /\ Len(p) = n /\ \A j \in 1..n : p[j] = tosend[j]
      /\ tosend' \in Seq(Bytes) /\ Len(tosend') = k - n
      /\ \A j \in 1..(k - n) : tosend'[j] = tosend[n + j]
  BY <1>1, <1>4, <1>5, Types, Cut
<1> HIDE DEF p
<1>7. /\ wire' \in Seq(Bytes) /\ Len(wire') = w + n
      /\ \A j \in 1..(w + n) : wire'[j] = IF j <= w THEN wire[j] ELSE p[j - w]
  <2>1. wire' = wire \o p
    BY <1>1 DEF p
  <2>2. wire \in Seq(Bytes)
    BY Types
  <2>3. /\ wire \o p \in Seq(Bytes) /\ Len(wire \o p) = Len(wire) + Len(p)
        /\ \A j \in 1..(Len(wire) + Len(p)) :
             (wire \o p)[j] = IF j <= Len(wire) THEN wire[j] ELSE p[j - Len(wire)]
    BY <1>6, <2>2, ConcatProperties
  <2> QED BY <1>4, <1>6, <2>1, <2>3
<1>8. r + w + k = l
  BY <1>2, <1>3, <1>4 DEF Stream, Kernel
<1>9. (\A j \in 1..w : wire[j] = b[r + j]) /\ (\A j \in 1..k : tosend[j] = b[r + w + j])
  BY <1>3, <1>4 DEF Stream, Kernel
<1>10. ASSUME NEW j \in 1..(w + n) PROVE wire'[j] = b[r + j]
  <2>1. CASE j <= w
    <3>1. j \in 1..w
      BY <2>1
    <3> QED BY <1>7, <1>9, <2>1, <3>1
  <2>2. CASE ~(j <= w)
    <3>1. PICK i \in Nat : i = j - w
      BY <2>2
    <3>2. i \in 1..n /\ i \in 1..k /\ r + w + i = r + j
      BY <1>5, <2>2, <3>1
    <3>3. wire'[j] = p[i]
      BY <1>7, <2>2, <3>1
    <3> QED BY <1>6, <1>9, <3>2, <3>3
  <2> QED BY <2>1, <2>2
<1>11. ASSUME NEW j \in 1..(k - n) PROVE tosend'[j] = b[r + (w + n) + j]
  <2>1. n + j \in 1..k /\ r + w + (n + j) = r + (w + n) + j
    BY <1>5
  <2> QED BY <1>6, <1>9, <2>1
<1>12. r + (w + n) + (k - n) = l
  BY <1>5, <1>8
<1>13. Kernel(b, r)'
  <2>1. /\ r + Len(wire') + Len(tosend') = Len(b)
        /\ r + Len(wire') + Len(tosend') <= Len(b)
    <3>1. r + (w + n) + (k - n) <= l
      BY <1>12
    <3> QED BY <1>4, <1>6, <1>7, <1>12, <3>1
  <2>2. \A j \in 1..Len(wire') : wire'[j] = b[r + j]
    BY <1>7, <1>10
  <2>3. \A j \in 1..Len(tosend') : tosend'[j] = b[r + Len(wire') + j]
    BY <1>6, <1>7, <1>11
  <2> QED BY <2>1, <2>2, <2>3 DEF Kernel
<1>14. Layout(b, s)' /\ (~torn' => Position(s, r)')
  BY <1>1, <1>3 DEF Stream, Layout, Position, InHead, InBody
<1>15. Streaming'
  BY <1>1, <1>13, <1>14 DEF Streaming, Stream
<1>16. Counting'
  BY <1>1 DEF IInv, Counting, Counted, Received
<1>17. TypeOK'
  BY <1>1, <1>6, <1>7, Types DEF TypeOK
<1> QED BY <1>1, <1>2, <1>15, <1>16, <1>17, Types DEF IInv

\* The sender closes, or dies: what it had still to write is lost.
LEMMA ShutInv ==
  ASSUME IInv, Shut
  PROVE  IInv'
<1>1. /\ shut' = TRUE /\ tosend' = <<>>
      /\ UNCHANGED <<sent, due, wire, ptr, len, need, buf, errno, state, got, frames, timeouts, torn>>
  BY DEF Shut, receiver
<1>2. PICK b \in Seq(Bytes), s \in [1..(Len(sent) + 1) -> Nat], r \in Nat : Stream(b, s, r)
  BY DEF IInv, Streaming
<1>3. tosend' \in Seq(Bytes) /\ Len(tosend') = 0
  BY <1>1, EmptySeq
<1>4. Kernel(b, r)'
  <2>1. PICK w, k, l \in Nat : w = Len(wire) /\ k = Len(tosend) /\ l = Len(b)
    BY Types, LenProperties
  <2>2. r + w + k <= l /\ \A j \in 1..w : wire[j] = b[r + j]
    BY <1>2, <2>1 DEF Stream, Kernel
  <2>3. r + w + 0 <= l
    BY <2>2
  <2>4. Len(wire') = w /\ wire' = wire
    BY <1>1, <2>1
  <2> QED BY <1>1, <1>3, <2>1, <2>2, <2>3, <2>4 DEF Kernel
<1>5. Layout(b, s)' /\ (~torn' => Position(s, r)')
  BY <1>1, <1>2 DEF Stream, Layout, Position, InHead, InBody
<1>6. Streaming'
  BY <1>1, <1>4, <1>5 DEF Streaming, Stream
<1>7. Counting'
  BY <1>1 DEF IInv, Counting, Counted, Received
<1>8. TypeOK'
  BY <1>1, <1>3, Types DEF TypeOK
<1> QED BY <1>1, <1>6, <1>7, <1>8, Types DEF IInv

\* Before anything is sent.
LEMMA InitInv == Init => IInv
<1> SUFFICES ASSUME Init PROVE IInv
  OBVIOUS
<1>1. /\ tosend = <<>> /\ shut = FALSE /\ wire = <<>>
      /\ ptr = 0 /\ len = 0 /\ need = 0 /\ buf = <<>> /\ errno = "none" /\ state = "none"
      /\ sent = <<>> /\ due = <<>> /\ got = <<>> /\ frames = 0 /\ timeouts = 0 /\ torn = FALSE
  BY DEF Init
<1>2. /\ <<>> \in Seq(Bytes) /\ <<>> \in Seq(Messages) /\ <<>> \in Seq(Seq(Bytes))
      /\ Len(<<>>) = 0
  BY EmptySeq
<1>3. 0 \in 0..(Size - 1) /\ 0 \in 0..MaxTimeouts
  BY TcpAssumption
<1>4. TypeOK
  BY <1>1, <1>2, <1>3 DEF TypeOK, States
<1>5. Len(sent) = 0 /\ Len(due) = 0 /\ Len(got) = 0 /\ Len(wire) = 0 /\ Len(tosend) = 0
  BY <1>1, <1>2
<1>6. Streaming
  <2>1. PICK b \in Seq(Bytes) : Len(b) = 0
    BY <1>2
  <2>2. PICK s \in [1..(0 + 1) -> Nat] : s[1] = 0
    <3>1. [i \in 1..(0 + 1) |-> 0] \in [1..(0 + 1) -> Nat] /\ [i \in 1..(0 + 1) |-> 0][1] = 0
      OBVIOUS
    <3> QED BY <3>1
  <2>3. Layout(b, s)
    BY <1>5, <2>1, <2>2 DEF Layout
  <2>4. Kernel(b, 0)
    BY <1>5, <2>1 DEF Kernel
  <2>5. Position(s, 0)
    BY <1>1, <1>5, <2>2 DEF Position
  <2> QED BY <1>5, <2>2, <2>3, <2>4, <2>5 DEF Streaming, Stream
<1>7. Counting
  <2>1. PICK c \in [0..0 -> Nat] : c[0] = 0
    <3>1. [i \in 0..0 |-> 0] \in [0..0 -> Nat] /\ [i \in 0..0 |-> 0][0] = 0
      OBVIOUS
    <3> QED BY <3>1
  <2>2. Counted(c)
    BY <1>5, <2>1 DEF Counted
  <2>3. Received(c)
    BY <1>1, <1>5, <2>1 DEF Received
  <2> QED BY <1>5, <2>1, <2>2, <2>3 DEF Counting
<1> QED BY <1>1, <1>4, <1>6, <1>7 DEF IInv

\* Every step.
LEMMA NextInv == IInv /\ [Next]_vars => IInv'
<1> SUFFICES ASSUME IInv, [Next]_vars PROVE IInv'
  OBVIOUS
<1>1. CASE \E m \in Messages : ducq_tcp_send(m)
  BY <1>1, SendInv
<1>2. CASE \E n \in 1..Len(tosend) : Write(n)
  BY <1>2, WriteInv
<1>3. CASE Shut
  BY <1>3, ShutInv
<1>4. CASE ReadDigit
  BY <1>4, ReadDigitInv
<1>5. CASE ReadNewline
  BY <1>5, ReadNewlineInv
<1>6. CASE ReadOther
  BY <1>6, ReadOtherInv
<1>7. CASE \E n \in 1..Len(wire) : n <= need /\ ReadPayload(n)
  BY <1>7, ReadPayloadInv
<1>8. CASE ReadEof
  BY <1>8, ReadEofInv
<1>9. CASE ReadTimeout
  BY <1>9, ReadTimeoutInv
<1>10. CASE FailsElsewhere \/ UNCHANGED vars
  <2>1. /\ UNCHANGED <<tosend, shut, sent, due, wire, ptr, len, need, buf, state, got, frames, torn>>
        /\ errno' \in {"none", "EWOULDBLOCK"} /\ timeouts' \in 0..MaxTimeouts
        /\ errno' = "EWOULDBLOCK" => timeouts' > 0
    <3>1. CASE FailsElsewhere
      BY <3>1, Types, TcpAssumption DEF FailsElsewhere, sender
    <3>2. CASE UNCHANGED vars
      BY <3>2, Types DEF vars, sender, receiver, IInv
    <3> QED BY <1>10, <3>1, <3>2
  <2>2. TypeOK'
    BY <2>1, Types DEF TypeOK
  <2>3. Streaming'
    <3>1. PICK b \in Seq(Bytes), s \in [1..(Len(sent) + 1) -> Nat], r \in Nat : Stream(b, s, r)
      BY DEF IInv, Streaming
    <3>2. Layout(b, s)' /\ Kernel(b, r)'
      BY <2>1, <3>1 DEF Stream, Layout, Kernel
    <3>3. ~torn' => Position(s, r)'
      BY <2>1, <3>1 DEF Stream, Position, InHead, InBody
    <3> QED BY <2>1, <3>2, <3>3 DEF Streaming, Stream
  <2>4. Counting'
    BY <2>1 DEF IInv, Counting, Counted, Received
  <2> QED BY <2>1, <2>2, <2>3, <2>4, Types DEF IInv
<1> QED BY <1>1, <1>2, <1>3, <1>4, <1>5, <1>6, <1>7, <1>8, <1>9, <1>10 DEF Next, Sender, ducq_tcp_recv

\* The invariant holds of every reachable state.
LEMMA Invariant == Spec => []IInv
BY InitInv, NextInv, PTL DEF Spec

-----------------------------------------------------------------------------
\* The theorems.

\* Every variable keeps its type: no more payload is ever asked for than fits
\* into the message of the receiver with its terminator (ducq_tcp.c:47-48).
THEOREM TypeCorrect == Spec => []TypeOK
<1>1. IInv => TypeOK
  BY DEF IInv
<1> QED BY <1>1, Invariant, PTL

\* What is received is what was sent, whole and in order, however write() and
\* read() cut it (ducq_tcp.c:29-73, inet_socket.c:18-60).
THEOREM WholeMessagesInOrder == Spec => []FramesInOrder
<1>1. ASSUME IInv PROVE FramesInOrder
  <2> SUFFICES ASSUME ~torn PROVE IsPrefix(got, due)
    BY DEF FramesInOrder
  <2>1. PICK c \in [0..Len(sent) -> Nat] : Received(c)
    BY <1>1 DEF IInv, Counting
  <2> DEFINE S == Seq(Bytes)
  <2>2. got \in Seq(S) /\ due \in Seq(S)
    <3>1. got \in Seq(S) /\ due \in Seq(Messages)
      BY <1>1, Types
    <3>2. \A i \in 1..Len(due) : due[i] \in S
      BY <3>1, ElementOfSeq, MessageFacts
    <3> QED BY <3>1, <3>2, IsASeq, LenProperties
  <2> HIDE DEF S
  <2>3. PICK g, k \in Nat : g = Len(got) /\ k = Len(due)
    BY <2>2, LenProperties
  <2>4. g <= k /\ \A j \in 1..g : got[j] = due[j]
    BY <2>1, <2>3 DEF Received
  <2>5. g \in 0..Len(got) /\ g \in 0..Len(due)
    BY <2>3, <2>4
  <2>6. /\ SubSeq(got, 1, g) \in Seq(S) /\ Len(SubSeq(got, 1, g)) = g
        /\ \A j \in 1..g : SubSeq(got, 1, g)[j] = got[j]
    BY <2>2, <2>5, Cut
  <2>7. /\ SubSeq(due, 1, g) \in Seq(S) /\ Len(SubSeq(due, 1, g)) = g
        /\ \A j \in 1..g : SubSeq(due, 1, g)[j] = due[j]
    BY <2>2, <2>5, Cut
  <2>8. SubSeq(got, 1, g) = SubSeq(due, 1, g)
    BY <2>4, <2>6, <2>7, SeqEqual
  <2> QED BY <2>3, <2>4, <2>8 DEF IsPrefix
<1> QED BY <1>1, Invariant, PTL

\* A receiver that has begun a frame and finds nothing to read has a sender that
\* is in the middle of it, or none (ducq_tcp.c:34-52): it never waits because it
\* has mistaken where a frame ends.
THEOREM OnlyTheSenderIsAwaited == Spec => []WaitsOnlyForTheSender
<1>1. ASSUME IInv PROVE WaitsOnlyForTheSender
  <2> SUFFICES ASSUME ~torn, Begun, wire = <<>>, tosend = <<>>, ~shut PROVE FALSE
    BY DEF WaitsOnlyForTheSender
  <2>1. PICK b \in Seq(Bytes), s \in [1..(Len(sent) + 1) -> Nat], r \in Nat : Stream(b, s, r)
    BY <1>1 DEF IInv, Streaming
  <2>2. PICK N, k \in Nat : N = Len(sent) /\ k = Len(b)
    BY <1>1, Types, LenProperties
  <2>3. r = k
    <3>1. Len(<<>>) = 0
      OBVIOUS
    <3>2. r + 0 + 0 = k
      BY <2>1, <2>2, <3>1 DEF Stream, Kernel
    <3> QED BY <3>2
  <2>4. frames \in Nat /\ ptr \in Nat /\ need \in Nat /\ Len(buf) \in Nat /\ sent \in Seq(Messages)
    BY <1>1, Types
  <2>5. frames < N /\ (InHead(s, r, sent[frames + 1]) \/ InBody(s, r, sent[frames + 1]))
    BY <2>1, <2>2, <2>4 DEF Stream, Position, Begun
  <2>6. frames + 1 \in 1..N
    BY <2>4, <2>5
  <2>7. PICK m \in Messages : m = sent[frames + 1]
    BY <2>2, <2>4, <2>6, ElementOfSeq
  <2>8. PICK o, q, h, l, d \in Nat :
          o = s[frames + 1] /\ q = s[frames + 1 + 1] /\ h = HLen(m) /\ l = Len(m) /\ d = NDigits(Len(m))
    <3>1. s \in [1..(N + 1) -> Nat] /\ frames + 1 \in 1..(N + 1) /\ frames + 1 + 1 \in 1..(N + 1)
      BY <2>2, <2>6
    <3>2. s[frames + 1] \in Nat /\ s[frames + 1 + 1] \in Nat
      BY <3>1
    <3>3. HLen(m) \in Nat /\ Len(m) \in Nat /\ NDigits(Len(m)) \in Nat
      BY HeaderFacts, MessageFacts DEF HLen
    <3> QED BY <3>2, <3>3
  <2>9. q = o + h + l /\ q <= k /\ h = d + 1
    BY <2>1, <2>2, <2>6, <2>7, <2>8 DEF Stream, Layout, HLen
  <2>10. CASE InHead(s, r, m)
    <3>1. r = o + ptr /\ ptr <= d
      BY <2>4, <2>8, <2>10 DEF InHead
    <3> QED BY <2>3, <2>4, <2>9, <3>1
  <2>11. CASE InBody(s, r, m)
    <3>1. PICK x \in Nat : x = Len(buf)
      BY <2>4
    <3>2. r = o + h + x /\ x + need = l /\ need > 0
      BY <2>8, <2>11, <3>1 DEF InBody
    <3> QED BY <2>3, <2>4, <2>9, <3>2
  <2> QED BY <2>5, <2>7, <2>10, <2>11
<1> QED BY <1>1, Invariant, PTL

\* ducq_recv says that the connection has ended when it has, or for a message
\* without a byte (ducq_tcp.c:42, 52).
THEOREM TheEndIsReal == Spec => EndIsRealOrEmptyFrame
<1> DEFINE A == state' = "ECONNCLOSED" /\ state' # state /\ ~torn =>
                  shut \/ (frames < Len(sent) /\ sent[frames + 1] = <<>>)
<1>1. IInv /\ [Next]_vars => [A]_vars
  <2> SUFFICES ASSUME IInv, Next, state' = "ECONNCLOSED", state' # state, ~torn, ~shut
               PROVE  frames < Len(sent) /\ sent[frames + 1] = <<>>
    OBVIOUS
  <2>1. need = 0 /\ wire # <<>> /\ Head(wire) = Newline /\ len = 0
    <3>1. ~\E m \in Messages : ducq_tcp_send(m)
      BY DEF ducq_tcp_send, receiver
    <3>2. ~\E n \in 1..Len(tosend) : Write(n)
      BY DEF Write, receiver
    <3>3. ~Shut
      BY DEF Shut, receiver
    <3>4. ~ReadDigit /\ ~ReadOther
      BY DEF ReadDigit, ReadOther, GiveUp, Return
    <3>5. ~\E n \in 1..Len(wire) : n <= need /\ ReadPayload(n)
      BY DEF ReadPayload, Return
    <3>6. ~ReadEof /\ ~ReadTimeout /\ ~FailsElsewhere
      BY DEF ReadEof, ReadTimeout, FailsElsewhere, Return
    <3>7. ReadNewline
      BY <3>1, <3>2, <3>3, <3>4, <3>5, <3>6 DEF Next, Sender, ducq_tcp_recv
    <3> QED BY <3>7 DEF ReadNewline, GiveUp, Return, InHeader
  <2>2. PICK b \in Seq(Bytes), s \in [1..(Len(sent) + 1) -> Nat], r \in Nat : Stream(b, s, r)
    BY DEF IInv, Streaming
  <2>3. /\ frames < Len(sent) /\ sent[frames + 1] \in Messages
        /\ InHead(s, r, sent[frames + 1])
        /\ Header(sent[frames + 1])[ptr + 1] = Newline
    BY <2>1, <2>2, NextByte
  <2>4. PICK m \in Messages : m = sent[frames + 1]
    BY <2>3
  <2>5. ptr \in 0..NDigits(Len(m)) /\ len = NumAfter(Len(m), ptr) /\ Header(m)[ptr + 1] = Newline
    BY <2>3, <2>4 DEF InHead
  <2>6. len = Len(m)
    BY <2>5, NewlineEndsHeader
  <2> QED BY <2>1, <2>3, <2>4, <2>6, MessageFacts
<1>2. Spec => [][A]_vars
  BY <1>1, InitInv, NextInv, PTL DEF Spec
<1> QED BY <1>2 DEF EndIsRealOrEmptyFrame

\* Only a timeout, now or earlier, makes ducq_recv return DUCQ_ETIMEOUT.
TimedOut == state = "ETIMEOUT" => timeouts > 0

\* Without a timeout before it, on this connection or another of the process, a
\* frame that is cut by the end of the connection is never taken for a silent
\* sender (ducq_tcp.c:124-127).
THEOREM NoTimeoutWithoutOne == Spec => CutFrameIsNoTimeout
<1> DEFINE A == state' = "ETIMEOUT" /\ timeouts' = timeouts => timeouts > 0
<1>1. Init => TimedOut
  BY DEF Init, TimedOut
<1>2. IInv /\ TimedOut /\ [Next]_vars => TimedOut'
  <2> SUFFICES ASSUME IInv, TimedOut, [Next]_vars PROVE TimedOut'
    OBVIOUS
  <2>1. CASE Sender \/ UNCHANGED vars
    <3>1. state' = state /\ timeouts' = timeouts
      BY <2>1 DEF Sender, ducq_tcp_send, Write, Shut, vars, receiver
    <3> QED BY <3>1 DEF TimedOut
  <2>2. CASE ReadDigit \/ ReadNewline \/ ReadOther
    BY <2>2 DEF ReadDigit, ReadNewline, ReadOther, GiveUp, Frame, Return, TimedOut
  <2>3. CASE \E n \in 1..Len(wire) : n <= need /\ ReadPayload(n)
    BY <2>3 DEF ReadPayload, Return, TimedOut
  <2>4. CASE ReadEof
    <3>1. /\ state' = RecvState(IF buf # <<>> THEN "EREAD" ELSE "ECONNCLOSED")
          /\ timeouts' = timeouts
      BY <2>4 DEF ReadEof, Return
    <3>2. errno = "EWOULDBLOCK" => timeouts > 0
      BY DEF IInv
    <3> QED BY <3>1, <3>2 DEF RecvState, TimedOut
  <2>5. CASE ReadTimeout
    <3>1. timeouts' = timeouts + 1 /\ timeouts \in 0..MaxTimeouts
      BY <2>5, Types DEF ReadTimeout
    <3>2. timeouts' > 0
      BY <3>1
    <3> QED BY <3>2 DEF TimedOut
  <2>6. CASE FailsElsewhere
    <3>1. /\ state' = state /\ timeouts \in 0..MaxTimeouts
          /\ timeouts' = timeouts \/ timeouts' = timeouts + 1
      BY <2>6, Types DEF FailsElsewhere
    <3> QED BY <3>1 DEF TimedOut
  <2> QED BY <2>1, <2>2, <2>3, <2>4, <2>5, <2>6 DEF Next, ducq_tcp_recv
<1>3. TimedOut' => A
  BY DEF TimedOut
<1>4. Spec => [][A]_vars
  BY <1>1, <1>2, <1>3, InitInv, NextInv, PTL DEF Spec
<1> QED BY <1>4 DEF CutFrameIsNoTimeout
=============================================================================
