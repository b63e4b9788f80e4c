------------------------------- MODULE WsHeader -------------------------------
(***************************************************************************)
(* The header of a WebSocket frame as the bytes of a ws_header_t, read and *)
(* written in place (inet_ws.c).  The length takes 7, 16 or 64 bits and    *)
(* the mask, when there is one, follows it: setting a length moves the     *)
(* mask.  One buffer serves for the frames of both directions.             *)
(***************************************************************************)
EXTENDS Integers, Sequences

Byte    == 0..255
HdrSize == 14                    \* 2 + sizeof(uint64_t) + sizeof(ws_mask_t)
Headers == [1..HdrSize -> Byte]  \* hdr[1] is the byte hdr[0] of the code

Mask16  == 65535                 \* UINT16_MAX

\* A message is shorter than 2^31.
Lengths == {n \in Nat : n \div 65536 < 32768}

\* the mask bit and the 7-bit length
HasMask(hdr) == hdr[2] >= 128
Len7(hdr)    == hdr[2] % 128

\* Two bytes in network byte order
Number16(hi, lo) == 256 * hi + lo

\* The header with the sequence bs written after its first a bytes
Put(hdr, a, bs) == SubSeq(hdr, 1, a) \o bs \o SubSeq(hdr, a + Len(bs) + 1, HdrSize)

\* the bytes before the mask
ws_get_msk(hdr) == CASE Len7(hdr) = 127 -> 10 [] Len7(hdr) = 126 -> 4 [] OTHER -> 2

MaskOf(hdr) == SubSeq(hdr, ws_get_msk(hdr) + 1, ws_get_msk(hdr) + 4)

ws_set_msk(hdr, mask) ==
  LET h == [hdr EXCEPT ![2] = 128 + Len7(hdr)] IN Put(h, ws_get_msk(h), mask)

ws_get_len(hdr) ==
  CASE Len7(hdr) = 126 -> Number16(hdr[3], hdr[4])
    [] Len7(hdr) = 127 -> 65536 * Number16(hdr[7], hdr[8]) + Number16(hdr[9], hdr[10])
    [] OTHER           -> Len7(hdr)

\* The lower half of a 64-bit length; the upper half of one of Lengths is zero.
Bytes4(n) == <<(n \div 65536) \div 256, (n \div 65536) % 256, (n \div 256) % 256, n % 256>>

\* Mutant: 126 fits in seven bits.
PutLenTooShort(hdr, n) ==
  IF n > Mask16 THEN Put(hdr, 1, <<127, 0, 0, 0, 0>> \o Bytes4(n))
  ELSE IF n > 126 THEN Put(hdr, 1, <<126, n \div 256, n % 256>>)
  ELSE Put(hdr, 1, <<n>>)

\* Writing the length clears the mask bit.
PutLen(hdr, n) ==
  IF n > Mask16 THEN Put(hdr, 1, <<127, 0, 0, 0, 0>> \o Bytes4(n))
  ELSE IF n > 125 THEN Put(hdr, 1, <<126, n \div 256, n % 256>>)
  ELSE Put(hdr, 1, <<n>>)

ws_set_len(hdr, n) ==
  IF HasMask(hdr) THEN ws_set_msk(PutLen(hdr, n), MaskOf(hdr)) ELSE PutLen(hdr, n)

ws_get_hdr_len(hdr) == ws_get_msk(hdr) + (IF HasMask(hdr) THEN 4 ELSE 0)
=============================================================================
