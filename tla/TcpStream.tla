------------------------------ MODULE TcpStream ------------------------------
(***************************************************************************)
(* Messages over a byte stream (ducq_tcp.c, readn and writen of            *)
(* inet_socket.c): a frame is the length of the payload in decimal, a      *)
(* newline and the payload.  The stream delivers any number of bytes at a  *)
(* time, a read may time out between any two bytes, and the sender may die *)
(* between any two bytes.                                                  *)
(*                                                                         *)
(* A byte is a digit (0..9), Newline, or anything else (Other).            *)
(***************************************************************************)
EXTENDS Naturals, Sequences, SequencesExt

CONSTANTS Messages,     \* the payloads: sequences of bytes
          Size,         \* the room the receiver gives, DUCQ_MSGSZ
          MaxSent,      \* bound: messages sent
          MaxTimeouts   \* bound: reads that time out; 0 without any SO_RCVTIMEO

Newline == 10
Other   == 11
Bytes   == 0..Other

\* A length of three digits is more than DUCQ_MSGSZ, 256.
ASSUME TcpAssumption ==
  /\ \A m \in Messages : m \in Seq(Bytes) /\ Len(m) < 1000
  /\ Size \in Nat \ {0}
  /\ MaxSent \in Nat
  /\ MaxTimeouts \in Nat

VARIABLES
  tosend,    \* sender: what writen() has still to write of the frame
  shut,      \* sender: closed, or broken by a write that failed
  wire,      \* kernel: the bytes written and not yet read
  ptr,       \* receiver: how many digits of the header it has read
  len,       \* receiver: what atoi() makes of them
  need,      \* receiver: payload bytes still to read; 0 while in the header
  buf,       \* receiver: payload bytes read
  errno,     \* the receiver's process: EWOULDBLOCK, or "none" for anything else
  state,     \* what the last ducq_recv returned, "none" while it has not
  sent,      \* history: the messages sent
  due,       \* history: those of them that are not empty
  got,       \* history: the messages received
  frames,    \* history: the frames ducq_recv has returned for
  timeouts,  \* history: the reads of the process that timed out
  torn       \* history: a frame was given up before its last byte

sender   == <<tosend, shut, sent, due>>
receiver == <<ptr, len, need, buf, errno, state, got, frames, timeouts, torn>>
vars     == <<sender, wire, receiver>>

Init ==
  /\ tosend = <<>> /\ shut = FALSE /\ wire = <<>>
  /\ ptr = 0 /\ len = 0 /\ need = 0 /\ buf = <<>> /\ errno = "none" /\ state = "none"
  /\ sent = <<>> /\ due = <<>> /\ got = <<>> /\ frames = 0 /\ timeouts = 0 /\ torn = FALSE

-----------------------------------------------------------------------------
Digits(n) ==
  IF n < 10 THEN <<n>>
  ELSE IF n < 100 THEN <<n \div 10, n % 10>>
  ELSE <<n \div 100, (n \div 10) % 10, n % 10>>

\* Mutant: the length counts a terminator that is not sent.
HeaderWithNull(m) == Digits(Len(m) + 1) \o <<Newline>>

\* snprintf("%ld\n", count)
Header(m) == Digits(Len(m)) \o <<Newline>>

\* ducq_tcp_send returns when the header and the payload are written.
ducq_tcp_send(m) ==
  /\ ~shut
  /\ tosend = <<>>
  /\ Len(sent) < MaxSent
  /\ tosend' = Header(m) \o m
  /\ sent' = Append(sent, m)
  /\ due' = IF m = <<>> THEN due ELSE Append(due, m)
  /\ UNCHANGED <<shut, wire, receiver>>

\* Mutant: a write that is cut short is taken for a complete one.
ShortWrite(n) ==
  /\ tosend # <<>>
  /\ wire' = wire \o SubSeq(tosend, 1, n)
  /\ tosend' = <<>>
  /\ UNCHANGED <<shut, sent, due, receiver>>

\* one write() of writen(): the kernel takes any number of bytes
Write(n) ==
  /\ tosend # <<>>
  /\ wire' = wire \o SubSeq(tosend, 1, n)
  /\ tosend' = SubSeq(tosend, n + 1, Len(tosend))
  /\ UNCHANGED <<shut, sent, due, receiver>>

\* a write fails, or the sender closes: the receiver will read an end of file
Shut ==
  /\ ~shut
  /\ shut' = TRUE
  /\ tosend' = <<>>
  /\ UNCHANGED <<sent, due, wire, receiver>>

Sender == \/ \E m \in Messages : ducq_tcp_send(m)
          \/ \E n \in 1..Len(tosend) : Write(n)
          \/ Shut

-----------------------------------------------------------------------------
InHeader == need = 0
Begun    == ptr > 0 \/ need > 0      \* part of a frame has been read

\* the call returns: what it has read of an unfinished frame is lost
Return(s) ==
  /\ state' = s
  /\ ptr' = 0 /\ len' = 0 /\ need' = 0 /\ buf' = <<>>

Frame(s) == frames' = frames + 1 /\ Return(s) /\ UNCHANGED <<got, torn>>
GiveUp(s) == torn' = TRUE /\ Return(s) /\ UNCHANGED <<got, frames>>

\* atoi(), one more digit
Atoi(n, d) == 10 * n + d

\* Mutant: the terminator is not counted, the longest message is refused late.
TooBigWithoutNull(n) == n > Size

\* if( len+1 > size) return -DUCQ_EMSGSIZE;
TooBig(n) == n + 1 > Size

\* One byte of the header, read by readn(fd, ptr, 1).
ReadDigit ==
  /\ InHeader /\ wire # <<>> /\ Head(wire) \in 0..9
  /\ wire' = Tail(wire)
  /\ IF ptr + 1 >= Size - 1
     THEN GiveUp("EMSGSIZE")
     ELSE /\ ptr' = ptr + 1 /\ len' = Atoi(len, Head(wire)) /\ state' = "none"
          /\ UNCHANGED <<need, buf, got, frames, torn>>
  /\ UNCHANGED <<sender, errno, timeouts>>

\* The newline ends the header; a payload of length 0 reads as the end of the
\* connection, since readn() returns 0 for it.
ReadNewline ==
  /\ InHeader /\ wire # <<>> /\ Head(wire) = Newline
  /\ wire' = Tail(wire)
  /\ \/ TooBig(len) /\ GiveUp("EMSGSIZE")
     \/ ~TooBig(len) /\ len = 0 /\ Frame("ECONNCLOSED")
     \/ /\ ~TooBig(len) /\ len > 0
        /\ ptr' = 0 /\ len' = 0 /\ need' = len /\ buf' = <<>> /\ state' = "none"
        /\ UNCHANGED <<got, frames, torn>>
  /\ UNCHANGED <<sender, errno, timeouts>>

ReadOther ==
  /\ InHeader /\ wire # <<>> /\ Head(wire) = Other
  /\ wire' = Tail(wire)
  /\ GiveUp("EMSGINV")
  /\ UNCHANGED <<sender, errno, timeouts>>

\* Mutant: the first read() of the payload is taken for all of it.
ReadPayloadOnce(n) ==
  /\ need > 0
  /\ wire' = SubSeq(wire, n + 1, Len(wire))
  /\ got' = Append(got, buf \o SubSeq(wire, 1, n))
  /\ frames' = frames + 1
  /\ Return("OK")
  /\ UNCHANGED <<sender, errno, timeouts, torn>>

\* One read() of readn(): any number of the bytes that are there.
ReadPayload(n) ==
  /\ need > 0
  /\ wire' = SubSeq(wire, n + 1, Len(wire))
  /\ IF n = need
     THEN /\ got' = Append(got, buf \o SubSeq(wire, 1, n))
          /\ frames' = frames + 1
          /\ Return("OK")
     ELSE /\ need' = need - n /\ buf' = buf \o SubSeq(wire, 1, n) /\ state' = "none"
          /\ UNCHANGED <<ptr, len, got, frames>>
  /\ UNCHANGED <<sender, errno, timeouts, torn>>

\* Mutant: every short read is blamed on the clock.
RecvStateTimeout(s) == IF s = "EREAD" THEN "ETIMEOUT" ELSE s

\* _recv: the errno of an earlier failure is still there, on whatever connection
RecvState(s) == IF s = "EREAD" /\ errno = "EWOULDBLOCK" THEN "ETIMEOUT" ELSE s

\* read() returns 0: a short payload is an error, anything else the end, which
\* is reported once here (a bound: the code reports it again to who asks).
ReadEof ==
  /\ shut /\ wire = <<>>
  /\ state # "ECONNCLOSED"
  /\ torn' = (torn \/ Begun)
  /\ Return(RecvState(IF buf # <<>> THEN "EREAD" ELSE "ECONNCLOSED"))
  /\ UNCHANGED <<sender, wire, errno, got, frames, timeouts>>

\* Mutant: no byte, for whatever reason, is the end of the connection.
ReadTimeoutIsEnd ==
  /\ ~shut /\ wire = <<>>
  /\ timeouts < MaxTimeouts
  /\ timeouts' = timeouts + 1
  /\ errno' = "EWOULDBLOCK"
  /\ torn' = (torn \/ Begun)
  /\ Return("ECONNCLOSED")
  /\ UNCHANGED <<sender, wire, got, frames>>

\* SO_RCVTIMEO expires: readn() returns -1, what it had read is dropped.
ReadTimeout ==
  /\ ~shut /\ wire = <<>>
  /\ timeouts < MaxTimeouts
  /\ timeouts' = timeouts + 1
  /\ errno' = "EWOULDBLOCK"
  /\ torn' = (torn \/ Begun)
  /\ Return("ETIMEOUT")
  /\ UNCHANGED <<sender, wire, got, frames>>

\* errno is not the connection's: between two calls a read of another one may
\* time out, and any call that fails otherwise, or is interrupted, sets it anew.
FailsElsewhere ==
  /\ \/ /\ ~Begun /\ timeouts < MaxTimeouts
        /\ timeouts' = timeouts + 1 /\ errno' = "EWOULDBLOCK"
     \/ errno' = "none" /\ UNCHANGED timeouts
  /\ UNCHANGED <<sender, wire, ptr, len, need, buf, state, got, frames, torn>>

ducq_tcp_recv ==
  \/ ReadDigit \/ ReadNewline \/ ReadOther
  \/ \E n \in 1..Len(wire) : n <= need /\ ReadPayload(n)
  \/ ReadEof

Next == Sender \/ ducq_tcp_recv \/ ReadTimeout \/ FailsElsewhere

Spec == Init /\ [][Next]_vars

\* writen() and readn() go on until they are done; nothing has to be sent.
Fairness ==
  /\ WF_vars(\E n \in 1..Len(tosend) : Write(n))
  /\ WF_vars(ducq_tcp_recv)

FairSpec == Spec /\ Fairness

-----------------------------------------------------------------------------
States == {"none", "OK", "EREAD", "ETIMEOUT", "EMSGINV", "EMSGSIZE", "ECONNCLOSED"}

TypeOK ==
  /\ tosend \in Seq(Bytes) /\ wire \in Seq(Bytes) /\ buf \in Seq(Bytes)
  /\ shut \in BOOLEAN /\ torn \in BOOLEAN
  /\ ptr \in Nat /\ len \in Nat /\ need \in 0..(Size - 1)
  /\ errno \in {"none", "EWOULDBLOCK"} /\ state \in States
  /\ sent \in Seq(Messages) /\ due \in Seq(Messages) /\ got \in Seq(Seq(Bytes))
  /\ frames \in Nat /\ timeouts \in 0..MaxTimeouts

\* However the stream cuts the frames, and although reads time out between
\* them, the messages received are those sent, in order and whole, until a
\* frame is given up half-read (ducq_tcp.c:29-58, inet_socket.c:18-40).  An
\* empty message is never received.
FramesInOrder == ~torn => IsPrefix(got, due)

\* Inside a frame the receiver, which is the whole server, waits only for a
\* sender that is still writing that frame or is gone (ducq_tcp.c:50).
WaitsOnlyForTheSender ==
  ~torn /\ Begun /\ wire = <<>> => tosend # <<>> \/ shut

\* The end of the connection is reported when the sender has ended it, or for
\* an empty message, which the sender may well follow by others
\* (ducq_tcp.c:42, 52).
EndIsRealOrEmptyFrame ==
  [][state' = "ECONNCLOSED" /\ state' # state /\ ~torn =>
       shut \/ (frames < Len(sent) /\ sent[frames + 1] = <<>>)]_vars

\* A frame cut by the death of its sender is told from a silent sender, unless
\* an earlier timeout, of this connection or another of the process, has left
\* its errno behind (ducq_tcp.c:124-127).
CutFrameIsNoTimeout ==
  [][state' = "ETIMEOUT" /\ timeouts' = timeouts => timeouts > 0]_vars

\* Every message is answered for, by the message or an error.
FramesArrive ==
  \A k \in 1..MaxSent : Len(sent) >= k ~> frames >= k \/ torn \/ shut
=============================================================================
