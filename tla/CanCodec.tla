------------------------------ MODULE CanCodec ------------------------------
(***************************************************************************)
(* The conversions between what programs see and what goes over USB:       *)
(* frames (McbaFormatCanMessage, the first half of McbaOnCanMsgReceived)   *)
(* and bit rates (MCBA_IOCTL_DEVICE_BITRATE_SET, McbaProcessKeepAliveCan). *)
(* Bit fields are taken apart with \div and %: << and >> by a constant are *)
(* a product and a quotient, and | of disjoint fields is a sum.            *)
(***************************************************************************)
EXTENDS Integers, Sequences

Byte == 0..255
Word == 0..(2^16 - 1)

\* A frame: the three flags of MCBA_CAN_MSG.Id and its 29 other bits, and the
\* whole byte Dlc.  The data bytes are copied as they are, and left out.
Frame == [eff : BOOLEAN, rtr : BOOLEAN, err : BOOLEAN, addr : 0..(2^29 - 1), dlc : Byte]

\* A message on USB (struct mcba_usb_msg_can): sid and eid as two bytes each.
Wire == [sid : Byte \X Byte, eid : Byte \X Byte, dlc : Byte]

-----------------------------------------------------------------------------
(* Byte order.  little says whether the machine is little endian. *)

Swap16(v) == (v % 256) * 256 + v \div 256

\* McbaCreateDevice points BigEndianToHost at Swap16 or at Nop16 ...
BigEndianToHost(little, v) == IF little THEN Swap16(v) ELSE v

\* Fault: the two are mixed up.
LittleEndianMixedUp(little, v) == IF little THEN Swap16(v) ELSE v

\* ... and LittleEndianToHost at the other one.
LittleEndianToHost(little, v) == IF little THEN v ELSE Swap16(v)

\* RtlCopyMemory of a UINT16 into a message, and out of one.
CopyIn(little, v) == IF little THEN <<v % 256, v \div 256>> ELSE <<v \div 256, v % 256>>
CopyOut(little, b) == IF little THEN b[1] + 256 * b[2] ELSE 256 * b[1] + b[2]

ToBigEndian(little, v) == CopyIn(little, BigEndianToHost(little, v))
ReadUnalignedBigEndian16(little, b) == BigEndianToHost(little, CopyOut(little, b))
ReadUnalignedLittleEndian16(little, b) == LittleEndianToHost(little, CopyOut(little, b))

-----------------------------------------------------------------------------
(* Frames. *)

\* Bit k of v.
Bit(v, k) == (v \div 2^k) % 2 = 1

\* v | 2^k.
SetBit(v, k) == IF Bit(v, k) THEN v ELSE v + 2^k

\* Fault: bits 17-16 are not masked.
ExtendedSidUnmasked(f) == 8 + (f.addr \div 2^18) * 2^5 + f.addr \div 2^16

\* SIDH    | SIDL                 | EIDH   | EIDL
\* 28 - 21 | 20 19 18 x x x 17 16 | 15 - 8 | 7 - 0
ExtendedSid(f) == 8 + (f.addr \div 2^18) * 2^5 + ((f.addr \div 2^16) % 4)

StandardSid(f) == (f.addr % 2^11) * 2^5

\* Fault: the remote bit is assigned, not or-ed.
FormatDlcAssigned(f) == IF f.rtr THEN 64 ELSE f.dlc

\* The user's byte, as it is, with the remote bit or-ed.
FormatDlc(f) == IF f.rtr THEN SetBit(f.dlc, 6) ELSE f.dlc

McbaFormatCanMessage(little, f) ==
  [sid |-> ToBigEndian(little, IF f.eff THEN ExtendedSid(f) ELSE StandardSid(f)),
   eid |-> ToBigEndian(little, IF f.eff THEN f.addr % 2^16 ELSE 0),
   dlc |-> FormatDlc(f)]

\* Fault: a length the bus allows but the message has no room for is kept.
ParseDlcUnlimited(d) == d % 16

\* DLC is four bits, and the message has eight bytes.
ParseDlc(d) == IF d % 16 > 8 THEN 8 ELSE d % 16

ParseCanMessage(little, w) ==
  LET sid == ReadUnalignedBigEndian16(little, w.sid)
      eid == ReadUnalignedBigEndian16(little, w.eid)
      eff == Bit(sid, 3)
  IN
  [eff |-> eff, rtr |-> Bit(w.dlc, 6), err |-> FALSE,
   addr |-> IF eff THEN ((sid \div 2^5) * 2^18) + ((sid % 4) * 2^16) + eid
                   ELSE sid \div 2^5,
   dlc |-> ParseDlc(w.dlc)]

-----------------------------------------------------------------------------
(* Bit rates. *)

\* MCBA_BITRATE.
Bitrates == {20000, 33333, 50000, 80000, 83333, 100000, 125000, 150000, 175000, 200000,
             225000, 250000, 275000, 300000, 500000, 625000, 800000, 1000000}

\* What BITRATE_SET sends: (UINT16)(bitrate / 1000), big endian.
FormatBitrate(little, rate) == ToBigEndian(little, (rate \div 1000) % 2^16)

\* Fault: the rates that are no multiples of 1000 are not restored.
ScaledPlainly(kbps, short) == kbps * 1000

\* 33 and 83 are 33333 and 83333 cut short by that division.
\* (What has more than 16 bits was scaled before: 0 stands for the product, which
\* may be too large for 32 bits.)
Scaled(kbps, short) ==
  IF kbps \in Word THEN IF short THEN kbps * 1000 + 333 ELSE kbps * 1000 ELSE 0
=============================================================================
