--------------------------- MODULE CanCodecProofs ---------------------------
(* Theorems about CanCodec and CanLoopback: what TLC checks bit by bit holds  *)
(* for every address, whatever byte order the hosts have.                    *)
EXTENDS CanLoopback, TLAPS

-----------------------------------------------------------------------------
(* Arithmetic. *)

\* A quotient and a remainder are found again.
LEMMA Divided ==
  ASSUME NEW b \in Int, b > 0, NEW q \in Int, NEW r \in Int, 0 <= r, r < b
  PROVE  /\ ((b * q) + r) \div b = q
         /\ ((b * q) + r) % b = r
<1>. DEFINE v == (b * q) + r
<1>1. v \in Int
  BY SMT
<1>2. v = (b * (v \div b)) + (v % b) /\ v % b \in 0..(b - 1) /\ v \div b \in Int
  BY <1>1, SMT
<1>. QED
  BY <1>1, <1>2, SMT

\* Byte, as inequalities.
LEMMA ByteRange ==
  ASSUME NEW v
  PROVE  v \in Byte <=> v \in Int /\ 0 <= v /\ v <= 255
BY DEF Byte

\* The upper byte of a word is a byte.
LEMMA UpperByte ==
  ASSUME NEW q \in Int, NEW r \in Int, 0 <= r, r <= 255,
         0 <= (256 * q) + r, (256 * q) + r <= 65535
  PROVE  0 <= q /\ q <= 255
BY SMT

\* A word is its two bytes ...
LEMMA Halves ==
  ASSUME NEW v \in Int, 0 <= v, v <= 65535
  PROVE  /\ v \div 256 \in Byte /\ v % 256 \in Byte
         /\ v = (256 * (v \div 256)) + (v % 256)
<1>1. v \div 256 \in Int /\ v % 256 \in Int /\ 0 <= v % 256 /\ v % 256 <= 255
  BY SMT
<1>2. v = (256 * (v \div 256)) + (v % 256)
  BY SMT
<1>. DEFINE q == v \div 256  r == v % 256
<1>3. q \in Int /\ r \in Int /\ 0 <= r /\ r <= 255 /\ 0 <= (256 * q) + r /\ (256 * q) + r <= 65535
  BY <1>1, <1>2
<1>. HIDE DEF q, r
<1>4. 0 <= q /\ q <= 255
  BY <1>3, UpperByte
<1>5. q \in Byte /\ r \in Byte
  BY <1>3, <1>4, ByteRange
<1>. QED
  BY <1>2, <1>5 DEF q, r

\* ... and two bytes make a word.
LEMMA Joined ==
  ASSUME NEW q \in Byte, NEW r \in Byte
  PROVE  /\ (256 * q) + r \in Int /\ 0 <= (256 * q) + r /\ (256 * q) + r <= 65535
         /\ ((256 * q) + r) \div 256 = q /\ ((256 * q) + r) % 256 = r
<1>1. q \in Int /\ 0 <= q /\ q <= 255 /\ r \in Int /\ 0 <= r /\ r <= 255
  BY DEF Byte
<1>2. ((256 * q) + r) \div 256 = q /\ ((256 * q) + r) % 256 = r
  BY <1>1, SMT
<1>. QED
  BY <1>1, <1>2

\* 2^k, for the k that occur.
LEMMA Powers ==
  /\ 2^3 = 8 /\ 2^5 = 32 /\ 2^6 = 64 /\ 2^11 = 2048
  /\ 2^16 = 65536 /\ 2^18 = 262144 /\ 2^29 = 536870912
BY SMT

-----------------------------------------------------------------------------
(* Byte order. *)

\* Swap16 (Device.c 125-137) exchanges the bytes of a word.
LEMMA Swapped ==
  ASSUME NEW v \in Int, NEW q \in Byte, NEW r \in Byte, v = (256 * q) + r
  PROVE  Swap16(v) = (256 * r) + q
<1>1. v \div 256 = q /\ v % 256 = r
  BY Joined
<1>. QED
  BY <1>1 DEF Swap16, Byte

\* A word is sent as its upper and its lower byte, by hosts of either order.
LEMMA SentBigEndian ==
  ASSUME NEW little \in BOOLEAN, NEW q \in Byte, NEW r \in Byte
  PROVE  ToBigEndian(little, (256 * q) + r) = <<q, r>>
<1>. DEFINE v == (256 * q) + r
<1>1. v \in Int /\ v \div 256 = q /\ v % 256 = r
  BY Joined
<1>2. Swap16(v) = (256 * r) + q
  BY <1>1, Swapped
<1>3. Swap16(v) \div 256 = r /\ Swap16(v) % 256 = q
  BY <1>2, Joined
<1>. HIDE DEF v
<1>4. ToBigEndian(little, v) = <<q, r>>
  BY <1>1, <1>3 DEF ToBigEndian, CopyIn, BigEndianToHost
<1>. QED
  BY <1>4 DEF v

\* Two bytes are received as the word they make.
LEMMA ReceivedBigEndian ==
  ASSUME NEW little \in BOOLEAN, NEW q \in Byte, NEW r \in Byte
  PROVE  ReadUnalignedBigEndian16(little, <<q, r>>) = (256 * q) + r
<1>1. q \in Int /\ r \in Int
  BY ByteRange
<1>2. CASE little
  <2>1. CopyOut(little, <<q, r>>) = (256 * r) + q
    BY <1>1, <1>2 DEF CopyOut
  <2>2. Swap16(CopyOut(little, <<q, r>>)) = (256 * q) + r
    BY <1>1, <2>1, Swapped
  <2>. QED
    BY <1>2, <2>2 DEF ReadUnalignedBigEndian16, BigEndianToHost
<1>3. CASE ~little
  BY <1>3 DEF ReadUnalignedBigEndian16, BigEndianToHost, CopyOut
<1>. QED
  BY <1>2, <1>3

\* Every word arrives, whatever the order of the two hosts (Device.c 142-147,
\* 1396-1409).
THEOREM WordArrives ==
  ASSUME NEW sender \in BOOLEAN, NEW receiver \in BOOLEAN,
         NEW v \in Int, 0 <= v, v <= 65535
  PROVE  /\ ToBigEndian(sender, v) \in Byte \X Byte
         /\ ReadUnalignedBigEndian16(receiver, ToBigEndian(sender, v)) = v
<1>. DEFINE q == v \div 256  r == v % 256
<1>1. q \in Byte /\ r \in Byte /\ v = (256 * q) + r
  BY Halves
<1>. HIDE DEF q, r
<1>2. ToBigEndian(sender, v) = <<q, r>>
  BY <1>1, SentBigEndian
<1>3. ReadUnalignedBigEndian16(receiver, <<q, r>>) = v
  BY <1>1, ReceivedBigEndian
<1>. QED
  BY <1>1, <1>2, <1>3

-----------------------------------------------------------------------------
(* Fields of a frame. *)

\* An extended address is its upper 11 bits, two in the middle, and the lower 16.
LEMMA AddressFields ==
  ASSUME NEW a \in Int, 0 <= a, a <= 536870911
  PROVE  LET h == a \div 262144  m == (a \div 65536) % 4  l == a % 65536 IN
         /\ h \in Int /\ 0 <= h /\ h <= 2047
         /\ m \in Int /\ 0 <= m /\ m <= 3
         /\ l \in Int /\ 0 <= l /\ l <= 65535
         /\ a = (h * 262144) + (m * 65536) + l
<1>. DEFINE u == a \div 65536  l == a % 65536  x == u \div 4  m == u % 4
<1>1. u \in Int /\ l \in Int /\ 0 <= l /\ l <= 65535 /\ a = (65536 * u) + l
  BY SMT
<1>. HIDE DEF u, l
<1>2. x \in Int /\ m \in Int /\ 0 <= m /\ m <= 3 /\ u = (4 * x) + m
  BY <1>1, SMT
<1>. HIDE DEF x, m
<1>3. a = (262144 * x) + ((65536 * m) + l) /\ 0 <= (65536 * m) + l /\ (65536 * m) + l < 262144
  BY <1>1, <1>2
<1>4. a \div 262144 = x
  BY <1>1, <1>2, <1>3, Divided
<1>5. 0 <= x /\ x <= 2047
  BY <1>1, <1>2, <1>3
<1>. QED
  BY <1>1, <1>2, <1>3, <1>4, <1>5 DEF u, l, x, m

\* The sid of a frame says which format it has, and has the upper bits of its address.
LEMMA ExtendedSidFields ==
  ASSUME NEW h \in Int, 0 <= h, h <= 2047, NEW m \in Int, 0 <= m, m <= 3
  PROVE  LET sid == 8 + (h * 32) + m IN
         /\ sid \in Int /\ 0 <= sid /\ sid <= 65535
         /\ sid \div 32 = h /\ sid % 4 = m /\ (sid \div 8) % 2 = 1
<1>. DEFINE sid == 8 + (h * 32) + m
<1>1. sid \in Int /\ 0 <= sid /\ sid <= 65535
  BY SMT
<1>2. sid = (32 * h) + (8 + m) /\ sid = (4 * ((8 * h) + 2)) + m /\ sid = (8 * ((4 * h) + 1)) + m
  BY SMT
<1>. HIDE DEF sid
<1>3. sid \div 32 = h
  BY <1>2, Divided
<1>4. sid % 4 = m
  BY <1>2, Divided
<1>5. sid \div 8 = (4 * h) + 1
  BY <1>2, Divided
<1>6. (sid \div 8) % 2 = 1
  BY <1>5
<1>. QED
  BY <1>1, <1>3, <1>4, <1>6 DEF sid

\* The sid of a standard frame has all of its address, and not the extended bit.
LEMMA StandardSidFields ==
  ASSUME NEW s \in Int, 0 <= s, s <= 2047
  PROVE  /\ s * 32 \in Int /\ 0 <= s * 32 /\ s * 32 <= 65535
         /\ (s * 32) \div 32 = s /\ ((s * 32) \div 8) % 2 = 0
BY SMT

\* The remote bit, and nothing but it, is set.
LEMMA RemoteBit ==
  ASSUME NEW d \in Byte
  PROVE  /\ SetBit(d, 6) \in Byte
         /\ Bit(SetBit(d, 6), 6)
         /\ SetBit(d, 6) % 16 = d % 16
<1>1. d \in Int /\ 0 <= d /\ d <= 255
  BY ByteRange
<1>2. \A v \in Int : Bit(v, 6) <=> (v \div 64) % 2 = 1
  BY Powers DEF Bit
<1>3. CASE Bit(d, 6)
  BY <1>3 DEF SetBit
<1>4. CASE ~Bit(d, 6)
  <2>1. SetBit(d, 6) = d + 64
    BY <1>4, Powers DEF SetBit
  <2>2. (d \div 64) % 2 # 1
    BY <1>1, <1>2, <1>4
  <2>3. ((d + 64) \div 64) % 2 = 1 /\ d + 64 <= 255
    BY <1>1, <2>2, SMT
  <2>4. (d + 64) % 16 = d % 16
    BY <1>1, SMT
  <2>5. d + 64 \in Byte
    BY <1>1, <2>3, ByteRange
  <2>. QED
    BY <1>1, <1>2, <2>1, <2>3, <2>4, <2>5
<1>. QED
  BY <1>3, <1>4

\* What a length is read as.
LEMMA Length ==
  ASSUME NEW d \in Byte
  PROVE  /\ ParseDlc(d) \in Int /\ 0 <= ParseDlc(d) /\ ParseDlc(d) <= 8
         /\ d <= 8 => ParseDlc(d) = d
         /\ d <= 8 => ~Bit(d, 6)
<1>1. d \in Int /\ 0 <= d /\ d <= 255
  BY ByteRange
<1>2. d % 16 \in Int /\ 0 <= d % 16 /\ (d <= 8 => d % 16 = d)
  BY <1>1, SMT
<1>3. d <= 8 => (d \div 64) % 2 # 1
  BY <1>1, SMT
<1>. QED
  BY <1>1, <1>2, <1>3, Powers DEF ParseDlc, Bit

-----------------------------------------------------------------------------
(* Frames. *)

\* What the receiver of f should see.
Received(f) ==
  [eff |-> f.eff, rtr |-> f.rtr \/ Bit(f.dlc, 6), err |-> FALSE,
   addr |-> Address(f), dlc |-> ParseDlc(f.dlc)]

\* The fields of a frame, the address as inequalities.
LEMMA FrameFields ==
  ASSUME NEW f \in Frame
  PROVE  /\ f.eff \in BOOLEAN /\ f.rtr \in BOOLEAN /\ f.err \in BOOLEAN /\ f.dlc \in Byte
         /\ f.addr \in Int /\ 0 <= f.addr /\ f.addr <= 536870911
<1>1. f.addr \in 0..(2^29 - 1) /\ f.eff \in BOOLEAN /\ f.rtr \in BOOLEAN /\ f.err \in BOOLEAN /\ f.dlc \in Byte
  BY DEF Frame
<1>2. 2^29 - 1 = 536870911
  BY Powers
<1>. QED
  BY <1>1, <1>2

\* Proper fields make a frame.
LEMMA FrameFrom ==
  ASSUME NEW e \in BOOLEAN, NEW r \in BOOLEAN, NEW x \in BOOLEAN,
         NEW a \in 0..(2^29 - 1), NEW d \in Byte
  PROVE  [eff |-> e, rtr |-> r, err |-> x, addr |-> a, dlc |-> d] \in Frame
<1>. DEFINE A == 0..(2^29 - 1)
<1>1. Frame = [eff : BOOLEAN, rtr : BOOLEAN, err : BOOLEAN, addr : A, dlc : Byte]
  BY DEF Frame
<1>2. a \in A
  OBVIOUS
<1>. HIDE DEF A
<1>. QED
  BY <1>1, <1>2, SMT

\* It does, if the fields of the message are right.
LEMMA Parsed ==
  ASSUME NEW little, NEW w, NEW f \in Frame,
         Bit(ReadUnalignedBigEndian16(little, w.sid), 3) <=> f.eff,
         Bit(w.dlc, 6) <=> f.rtr \/ Bit(f.dlc, 6),
         ParseDlc(w.dlc) = ParseDlc(f.dlc),
         LET sid == ReadUnalignedBigEndian16(little, w.sid)
             eid == ReadUnalignedBigEndian16(little, w.eid)
         IN IF f.eff THEN ((sid \div 2^5) * 2^18) + ((sid % 4) * 2^16) + eid = Address(f)
                     ELSE sid \div 2^5 = Address(f)
  PROVE  ParseCanMessage(little, w) = Received(f)
<1>1. f.eff \in BOOLEAN
  BY FrameFields
<1>2. Bit(ReadUnalignedBigEndian16(little, w.sid), 3) = f.eff
  BY <1>1, Zenon DEF Bit
<1>3. Bit(w.dlc, 6) = (f.rtr \/ Bit(f.dlc, 6))
  BY Zenon DEF Bit
<1>. QED
  BY <1>2, <1>3, Zenon DEF ParseCanMessage, Received

\* Every frame that McbaFormatCanMessage sends is a proper message, and the first half
\* of McbaOnCanMsgReceived makes of it the frame the receiver should see.
THEOREM FrameArrives ==
  ASSUME NEW sender \in BOOLEAN, NEW receiver \in BOOLEAN, NEW f \in Frame
  PROVE  /\ McbaFormatCanMessage(sender, f) \in Wire
         /\ ParseCanMessage(receiver, McbaFormatCanMessage(sender, f)) = Received(f)
<1>. DEFINE w == McbaFormatCanMessage(sender, f)
            sid == ReadUnalignedBigEndian16(receiver, w.sid)
            eid == ReadUnalignedBigEndian16(receiver, w.eid)
<1>1. w.dlc \in Byte /\ ParseDlc(w.dlc) = ParseDlc(f.dlc) /\ (Bit(w.dlc, 6) <=> f.rtr \/ Bit(f.dlc, 6))
  BY FrameFields, RemoteBit, SMT DEF McbaFormatCanMessage, FormatDlc, ParseDlc
<1>2. CASE f.eff
  <2>. DEFINE a == f.addr
  <2>0. a \in Int /\ 0 <= a /\ a <= 536870911
    BY FrameFields, SMT
  <2>. HIDE DEF a
  <2>. DEFINE h == a \div 262144  m == (a \div 65536) % 4  l == a % 65536
  <2>1. /\ h \in Int /\ 0 <= h /\ h <= 2047 /\ m \in Int /\ 0 <= m /\ m <= 3
        /\ l \in Int /\ 0 <= l /\ l <= 65535
        /\ a = (h * 262144) + (m * 65536) + l
    BY <2>0, AddressFields, SMT
  <2>2. /\ w.sid = ToBigEndian(sender, 8 + (h * 32) + m)
        /\ w.eid = ToBigEndian(sender, l)
    BY <1>2, Powers, SMT DEF McbaFormatCanMessage, ExtendedSid, a
  <2>. HIDE DEF h, m, l, w
  <2>. DEFINE v == 8 + (h * 32) + m
  <2>3. v \in Int /\ 0 <= v /\ v <= 65535 /\ v \div 32 = h /\ v % 4 = m /\ (v \div 8) % 2 = 1
    BY <2>1, ExtendedSidFields, SMT
  <2>. HIDE DEF v
  <2>4. w.sid \in Byte \X Byte /\ sid = v /\ w.eid \in Byte \X Byte /\ eid = l
    BY <2>1, <2>2, <2>3, WordArrives, SMT DEF v
  <2>. HIDE DEF sid, eid
  <2>5. Bit(sid, 3)
    BY <2>3, <2>4, Powers, SMT DEF Bit
  <2>6. ((sid \div 2^5) * 2^18) + ((sid % 4) * 2^16) + eid = f.addr
    <3>1. sid \div 2^5 = h /\ sid % 4 = m /\ eid = l
      BY <2>3, <2>4, Powers, SMT
    <3>2. (h * 2^18) + (m * 2^16) + l = f.addr
      BY <2>1, Powers, SMT DEF a
    <3>. QED
      BY <3>1, <3>2, SMT
  <2>7. ParseCanMessage(receiver, w) = Received(f)
    BY <1>1, <1>2, <2>5, <2>6, Parsed, Zenon DEF Address, sid, eid
  <2>8. w \in Wire
    BY <1>1, <2>4, SMT DEF Wire, w, McbaFormatCanMessage
  <2>. QED
    BY <2>7, <2>8, SMT DEF w
<1>3. CASE ~f.eff
  <2>. DEFINE s == f.addr % 2048
  <2>1. s \in Int /\ 0 <= s /\ s <= 2047
    BY FrameFields, SMT
  <2>2. /\ w.sid = ToBigEndian(sender, s * 32)
        /\ w.eid = ToBigEndian(sender, 0)
        /\ Address(f) = s
    BY <1>3, Powers, SMT DEF McbaFormatCanMessage, StandardSid, Address
  <2>. HIDE DEF s, w
  <2>. DEFINE v == s * 32
  <2>3. v \in Int /\ 0 <= v /\ v <= 65535 /\ v \div 32 = s /\ (v \div 8) % 2 = 0
    BY <2>1, StandardSidFields, SMT
  <2>. HIDE DEF v
  <2>4. w.sid \in Byte \X Byte /\ sid = v /\ w.eid \in Byte \X Byte
    BY <2>2, <2>3, WordArrives, SMT DEF v
  <2>. HIDE DEF sid, eid
  <2>5. ~Bit(sid, 3) /\ sid \div 2^5 = s
    BY <2>3, <2>4, Powers, SMT DEF Bit
  <2>7. ParseCanMessage(receiver, w) = Received(f)
    BY <1>1, <1>3, <2>2, <2>5, Parsed, Zenon DEF sid, eid
  <2>8. w \in Wire
    BY <1>1, <2>4, SMT DEF Wire, w, McbaFormatCanMessage
  <2>. QED
    BY <2>7, <2>8, SMT DEF w
<1>. QED
  BY <1>2, <1>3, FrameFields, SMT

\* Whatever message comes, the frame read is proper, and its receiver would see the
\* same again if it were sent on.
LEMMA AnyMessageIsRead ==
  ASSUME NEW little \in BOOLEAN, NEW w \in Wire
  PROVE  LET f == ParseCanMessage(little, w) IN f \in Frame /\ Received(f) = f
<1>. DEFINE sid == ReadUnalignedBigEndian16(little, w.sid)
            eid == ReadUnalignedBigEndian16(little, w.eid)
            long == ((sid \div 2^5) * 2^18) + ((sid % 4) * 2^16) + eid
            short == sid \div 2^5
            f == ParseCanMessage(little, w)
<1>1. \A b \in Byte \X Byte :
        LET v == ReadUnalignedBigEndian16(little, b) IN v \in Int /\ 0 <= v /\ v <= 65535
  <2>. SUFFICES ASSUME NEW q \in Byte, NEW r \in Byte
                PROVE  LET v == ReadUnalignedBigEndian16(little, <<q, r>>)
                       IN v \in Int /\ 0 <= v /\ v <= 65535
    BY SMT
  <2>. QED
    BY ReceivedBigEndian, Joined, SMT
<1>2. /\ sid \in Int /\ 0 <= sid /\ sid <= 65535
      /\ eid \in Int /\ 0 <= eid /\ eid <= 65535
      /\ w.dlc \in Byte
  BY <1>1, SMT DEF Wire
<1>3. f = [eff |-> Bit(sid, 3), rtr |-> Bit(w.dlc, 6), err |-> FALSE,
           addr |-> IF Bit(sid, 3) THEN long ELSE short, dlc |-> ParseDlc(w.dlc)]
  BY SMT DEF ParseCanMessage
<1>. HIDE DEF sid, eid, f
<1>4. short \in Int /\ 0 <= short /\ short <= 2047
  <2>1. sid \div 32 \in Int /\ 0 <= sid \div 32 /\ sid \div 32 <= 2047
    BY <1>2, SMT
  <2>. QED
    BY <2>1, Powers, SMT
<1>5. long \in Int /\ 0 <= long /\ long <= 536870911
  <2>. DEFINE m == sid % 4
  <2>1. m \in Int /\ 0 <= m /\ m <= 3
    BY <1>2, SMT
  <2>. HIDE DEF m
  <2>. HIDE DEF short
  <2>2. /\ (short * 262144) + (m * 65536) + eid \in Int
        /\ 0 <= (short * 262144) + (m * 65536) + eid
        /\ (short * 262144) + (m * 65536) + eid <= 536870911
    BY <1>2, <1>4, <2>1, SMT
  <2>. QED
    BY <2>2, Powers, SMT DEF m, short
<1>. HIDE DEF long, short
<1>6. f.addr \in 0..(2^29 - 1)
  <2>1. f.addr \in Int /\ 0 <= f.addr /\ f.addr <= 536870911
    BY <1>3, <1>4, <1>5, SMT
  <2>. QED
    BY <2>1, Powers, SMT
<1>7. ParseDlc(w.dlc) \in Byte /\ ParseDlc(ParseDlc(w.dlc)) = ParseDlc(w.dlc) /\ ~Bit(ParseDlc(w.dlc), 6)
  BY <1>2, Length, ByteRange
<1>8. Address(f) = f.addr
  <2>1. short % 2048 = short
    BY <1>4, SMT
  <2>. QED
    BY <1>3, <2>1, Powers, SMT DEF Address
<1>9. Bit(sid, 3) \in BOOLEAN /\ Bit(w.dlc, 6) \in BOOLEAN
  BY DEF Bit
<1>. QED
  <2>. DEFINE e == Bit(sid, 3)  r == Bit(w.dlc, 6)  a == f.addr  d == ParseDlc(w.dlc)
  <2>1. f = [eff |-> e, rtr |-> r, err |-> FALSE, addr |-> a, dlc |-> d]
    BY <1>3
  <2>2. e \in BOOLEAN /\ r \in BOOLEAN /\ a \in 0..(2^29 - 1) /\ d \in Byte
    BY <1>6, <1>7, <1>9
  <2>3. ParseDlc(d) = d /\ ~Bit(d, 6)
    BY <1>7
  <2>. HIDE DEF e, r, a, d
  <2>4. f \in Frame
    BY <2>1, <2>2, FrameFrom, Zenon
  <2>5. f.eff = e /\ f.rtr = r /\ f.dlc = d
    BY <2>1
  <2>6. (r \/ Bit(d, 6)) = r
    BY <2>2, <2>3
  <2>7. Received(f) = f
    BY <1>8, <2>1, <2>3, <2>5, <2>6, Zenon DEF Received, a
  <2>. QED
    BY <2>4, <2>7 DEF f

-----------------------------------------------------------------------------
(* Frames on their way. *)

\* What is known of the frame and the message: those of a program are a pair, and a
\* frame that was read would be read the same again.
FrameInv ==
  /\ at \in {"write", "bus", "status"} /\ origin \in {"writer", "reader", "bus"}
  /\ frame \in Frame /\ wire \in Wire
  /\ at = "bus" /\ origin # "bus" =>
       \E little \in BOOLEAN : wire = McbaFormatCanMessage(little, frame)
  /\ origin = "reader" => Received(frame) = frame

\* What stands for no frame and no message is a proper one.
LEMMA Nulls == NullFrame \in Frame /\ NullWire \in Wire
<1>1. 0 \in 0..(2^29 - 1)
  BY Powers, SMT
<1>2. 0 \in Byte
  BY ByteRange
<1>3. NullFrame \in Frame
  BY <1>1, <1>2, FrameFrom DEF NullFrame
<1>4. NullWire \in Wire
  BY <1>2, SMT DEF NullWire, Wire
<1>. QED
  BY <1>3, <1>4

\* FrameInv holds initially.
LEMMA FrameInit == LoopbackInit => FrameInv
<1>. SUFFICES ASSUME LoopbackInit PROVE FrameInv
  OBVIOUS
<1>1. CASE /\ at = "write" /\ origin = "writer" /\ wire = NullWire
           /\ \E a \in Addresses, d \in Dlcs, eff, rtr, err \in BOOLEAN :
                frame = [eff |-> eff, rtr |-> rtr, err |-> err, addr |-> a, dlc |-> d]
  <2>1. frame \in Frame
    <3>1. PICK a \in Addresses, d \in Dlcs, eff \in BOOLEAN, rtr \in BOOLEAN, err \in BOOLEAN :
             frame = [eff |-> eff, rtr |-> rtr, err |-> err, addr |-> a, dlc |-> d]
      BY <1>1, Zenon
    <3>2. a \in 0..(2^29 - 1) /\ d \in Byte
      BY LoopbackAssumption, Zenon
    <3>. QED
      BY <3>1, <3>2, FrameFrom, Zenon
  <2>. QED
    BY <1>1, <2>1, Nulls DEF FrameInv
<1>2. CASE /\ at = "bus" /\ origin = "bus" /\ frame = NullFrame
           /\ \E s \in Sids, e \in Eids, d \in WireDlcs : wire = [sid |-> s, eid |-> e, dlc |-> d]
  <2>1. PICK s \in Sids, e \in Eids, d \in WireDlcs : wire = [sid |-> s, eid |-> e, dlc |-> d]
    BY <1>2
  <2>2. s \in Byte \X Byte /\ e \in Byte \X Byte /\ d \in Byte
    BY LoopbackAssumption, Zenon
  <2>3. wire \in Wire
    BY <2>1, <2>2, Zenon DEF Wire
  <2>. QED
    BY <1>2, <2>3, Nulls DEF FrameInv
<1>3. CASE at = "status" /\ origin = "writer" /\ frame = NullFrame /\ wire = NullWire
  BY <1>3, Nulls DEF FrameInv
<1>. QED
  BY <1>1, <1>2, <1>3, Zenon DEF LoopbackInit

\* Every step preserves FrameInv.
LEMMA FrameNext ==
  ASSUME FrameInv, [LoopbackNext]_loopbackVars
  PROVE  FrameInv'
<1>1. CASE Write
  <2>1. PICK little \in BOOLEAN : wire' = McbaFormatCanMessage(little, frame)
    BY <1>1 DEF Write
  <2>2. wire' \in Wire
    BY <2>1, FrameArrives DEF FrameInv
  <2>. QED
    BY <1>1, <2>1, <2>2, Zenon DEF Write, FrameInv
<1>2. CASE Receive
  <2>1. PICK little \in BOOLEAN : frame' = ParseCanMessage(little, wire)
    BY <1>2 DEF Receive
  <2>2. frame' \in Frame /\ Received(frame') = frame'
    BY <2>1, AnyMessageIsRead DEF FrameInv
  <2>3. at' = "write" /\ origin' = "reader" /\ wire' = wire
    BY <1>2 DEF Receive
  <2>. QED
    BY <2>2, <2>3 DEF FrameInv
<1>3. CASE UNCHANGED frameVars
  BY <1>3, Zenon DEF FrameInv, frameVars, Received, Address
<1>. QED
  BY <1>1, <1>2, <1>3 DEF LoopbackNext, loopbackVars

\* In every reachable state the frame and the message are proper and belong together,
\* whatever programs write and others send (Device.c 1131-1161, 1374-1419).
THEOREM FrameInvariant == LoopbackSpec => []FrameInv
BY FrameInit, FrameNext, PTL DEF LoopbackSpec

\* Between "bus" and "write" lies a Receive.
LEMMA ReceiveStep ==
  ASSUME FrameInv, [LoopbackNext]_loopbackVars, at = "bus", origin # "bus"
  PROVE  frame' = Received(frame) \/ UNCHANGED loopbackVars
<1>1. CASE Receive
  <2>1. PICK receiver \in BOOLEAN : frame' = ParseCanMessage(receiver, wire)
    BY <1>1 DEF Receive
  <2>2. PICK sender \in BOOLEAN : wire = McbaFormatCanMessage(sender, frame)
    BY DEF FrameInv
  <2>. QED
    BY <2>1, <2>2, FrameArrives DEF FrameInv
<1>. QED
  BY <1>1 DEF LoopbackNext, Write

\* A frame is read as it was written, for every address and Dlc and any byte order of
\* the two hosts (Device.c 1131-1161, 1374-1419).
THEOREM FramesReadAsWritten == LoopbackSpec => ReadAsWritten
<1>. DEFINE Step == at = "bus" /\ origin = "writer" =>
        /\ frame'.eff = frame.eff /\ frame'.addr = Address(frame)
        /\ ~Bit(frame.dlc, 6) => frame'.rtr = frame.rtr
        /\ frame.rtr => frame'.rtr
        /\ frame'.dlc <= 8 /\ (frame.dlc <= 8 => frame'.dlc = frame.dlc)
<1>1. FrameInv /\ [LoopbackNext]_loopbackVars => [Step]_loopbackVars
  <2>. SUFFICES ASSUME FrameInv, [LoopbackNext]_loopbackVars, at = "bus", origin = "writer",
                       ~ UNCHANGED loopbackVars
                PROVE  Step
    OBVIOUS
  <2>1. frame' = Received(frame)
    BY ReceiveStep
  <2>2. /\ frame'.eff = frame.eff /\ frame'.addr = Address(frame)
        /\ frame'.rtr = (frame.rtr \/ Bit(frame.dlc, 6))
        /\ frame'.dlc = ParseDlc(frame.dlc)
    BY <2>1, Zenon DEF Received
  <2>3. frame.dlc \in Byte /\ frame.rtr \in BOOLEAN
    BY FrameFields DEF FrameInv
  <2>4. ParseDlc(frame.dlc) <= 8 /\ (frame.dlc <= 8 => ParseDlc(frame.dlc) = frame.dlc)
    BY <2>3, Length
  <2>5. /\ ~Bit(frame.dlc, 6) => frame'.rtr = frame.rtr
        /\ frame.rtr => frame'.rtr
    BY <2>2, <2>3, Zenon
  <2>. QED
    BY <2>2, <2>4, <2>5, Zenon
<1>. QED
  BY <1>1, FrameInvariant, PTL DEF LoopbackSpec, ReadAsWritten

\* What a program has read it can pass on unchanged, whoever sent it: parsing leaves
\* nothing in a frame that formatting would read differently (Device.c 1156-1159, 1412).
THEOREM FramesPassedOnUnchanged == LoopbackSpec => PassedOnUnchanged
<1>1. FrameInv /\ [LoopbackNext]_loopbackVars
        => [at = "bus" /\ origin = "reader" => frame' = frame]_loopbackVars
  BY ReceiveStep DEF FrameInv
<1>. QED
  BY <1>1, FrameInvariant, PTL DEF LoopbackSpec, PassedOnUnchanged

-----------------------------------------------------------------------------
(* Bit rates. *)

\* The rate in kbit/s in two bytes of a message.
Value(b) == (256 * b[1]) + b[2]

\* The rate in bit/s: two of them were cut short.
ScaledRate(v) == Scaled(v, v \in {33, 83})

\* Each MCBA_BITRATE survives the way to the device and back.
LEMMA RateComesBack ==
  ASSUME NEW little \in BOOLEAN, NEW rate \in Bitrates
  PROVE  /\ FormatBitrate(little, rate) \in Byte \X Byte
         /\ ScaledRate(Value(FormatBitrate(little, rate))) = rate
<1>. DEFINE v == (rate \div 1000) % 2^16
<1>1. v \in Int /\ 0 <= v /\ v <= 65535 /\ ScaledRate(v) = rate
  <2>1. (rate \div 1000) % 65536 = rate \div 1000 /\ 0 <= rate \div 1000 /\ rate \div 1000 <= 1000
    BY SMT DEF Bitrates
  <2>2. ScaledRate(rate \div 1000) = rate
    BY Powers, SMT DEF Bitrates, ScaledRate, Scaled, Word
  <2>3. v = rate \div 1000 /\ rate \div 1000 \in Int
    BY <2>1, Powers, SMT DEF Bitrates
  <2>. QED
    BY <2>1, <2>2, <2>3, SMT
<1>. HIDE DEF v
<1>. DEFINE q == v \div 256  r == v % 256
<1>2. q \in Byte /\ r \in Byte /\ v = (256 * q) + r
  BY <1>1, Halves
<1>. HIDE DEF q, r
<1>3. ToBigEndian(little, v) = <<q, r>>
  BY <1>2, SentBigEndian
<1>4. FormatBitrate(little, rate) = <<q, r>>
  BY <1>3 DEF FormatBitrate, v
<1>5. Value(<<q, r>>) = v
  BY <1>2 DEF Value
<1>. QED
  BY <1>1, <1>2, <1>4, <1>5

\* Two bytes are read as the word they make, in either byte order.
LEMMA ValueRange ==
  ASSUME NEW b \in Byte \X Byte
  PROVE  /\ Value(b) \in Int /\ 0 <= Value(b) /\ Value(b) <= 65535
         /\ \A little \in BOOLEAN : ReadUnalignedBigEndian16(little, b) = Value(b)
<1>. SUFFICES ASSUME NEW q \in Byte, NEW r \in Byte
              PROVE  /\ Value(<<q, r>>) \in Int /\ 0 <= Value(<<q, r>>) /\ Value(<<q, r>>) <= 65535
                     /\ \A little \in BOOLEAN :
                          ReadUnalignedBigEndian16(little, <<q, r>>) = Value(<<q, r>>)
  BY SMT
<1>. QED
  BY ReceivedBigEndian, Joined DEF Value

\* And the other two bytes as what the device means by them.
LEMMA LossesRead ==
  ASSUME NEW lost \in Byte \X Byte, NEW little \in BOOLEAN
  PROVE  ReadUnalignedLittleEndian16(little, lost) = Meant(lost) /\ Meant(lost) \in Nat
<1>. SUFFICES ASSUME NEW q \in Byte, NEW r \in Byte
              PROVE  /\ ReadUnalignedLittleEndian16(little, <<q, r>>) = Meant(<<q, r>>)
                     /\ Meant(<<q, r>>) \in Nat
  BY SMT
<1>1. CopyOut(little, <<q, r>>) = IF little THEN q + 256 * r ELSE 256 * q + r
  BY DEF CopyOut
<1>2. Swap16((256 * q) + r) = (256 * r) + q
  BY Joined, Swapped
<1>3. LittleEndianToHost(little, CopyOut(little, <<q, r>>)) = q + 256 * r
  <2>1. CASE little
    BY <1>1, <2>1 DEF LittleEndianToHost
  <2>2. CASE ~little
    <3>1. CopyOut(little, <<q, r>>) = (256 * q) + r
      BY <1>1, <2>2
    <3>2. (256 * r) + q = q + 256 * r
      BY ByteRange, SMT
    <3>. QED
      BY <1>2, <2>2, <3>1, <3>2 DEF LittleEndianToHost
  <2>. QED
    BY <2>1, <2>2
<1>4. q + 256 * r \in Nat
  BY ByteRange, SMT
<1>. QED
  BY <1>3, <1>4 DEF ReadUnalignedLittleEndian16, Meant

\* A scaled rate is a rate.
LEMMA ScaledNat ==
  ASSUME NEW v \in Nat, NEW short \in BOOLEAN
  PROVE  Scaled(v, short) \in Nat
BY SMT DEF Scaled

-----------------------------------------------------------------------------
(* Types of the status. *)

\* What a reader may have of a keep-alive message.
Steps == {"none", "store", "is33", "is83", "times", "scaled", "load", "add"}
KeepAlives == [step : Steps, bytes : Byte \X Byte, lost : Byte \X Byte, rate : Nat,
               short : BOOLEAN, sum : Nat, met : BOOLEAN]

\* Zero is a byte.
LEMMA ZeroBytes == <<0, 0>> \in Byte \X Byte
BY ByteRange

\* The empty report is one, and its fields are what they look like.
LEMMA NoReportIs ==
  /\ NoReport \in KeepAlives
  /\ NoReport.step = "none"
<1>1. "none" \in Steps /\ FALSE \in BOOLEAN /\ 0 \in Nat
  BY DEF Steps
<1>. QED
  BY <1>1, ZeroBytes DEF NoReport, KeepAlives

\* A step of one reader leaves those of the others alone.
LEMMA Updated ==
  ASSUME keepAlive \in [Readers -> KeepAlives], NEW r \in Readers, NEW k \in KeepAlives,
         keepAlive' = [keepAlive EXCEPT ![r] = k]
  PROVE  /\ keepAlive' \in [Readers -> KeepAlives] /\ keepAlive'[r] = k
         /\ \A q \in Readers \ {r} : keepAlive'[q] = keepAlive[q]
OBVIOUS

\* The types of the status hold initially, ...
LEMMA StatusTypeInit == StatusInit => StatusTypeOK
<1>. SUFFICES ASSUME StatusInit PROVE StatusTypeOK
  OBVIOUS
<1>1. setting \in Byte \X Byte
  BY RateComesBack DEF StatusInit
<1>2. keepAlive \in [Readers -> KeepAlives]
  BY NoReportIs DEF StatusInit
<1>3. /\ asked \in Bitrates /\ reports \in 0..MaxReports
      /\ Bitrate \in Nat /\ RxLost \in Nat /\ certain \in Nat /\ losses \in Nat
  BY StatusAssumption, SMT DEF StatusInit
<1>4. Termination \in BOOLEAN /\ rateRaced \in BOOLEAN /\ reported \in Byte \X Byte
  BY ZeroBytes DEF StatusInit
<1>. QED
  BY <1>1, <1>2, <1>3, <1>4, Zenon DEF StatusTypeOK, KeepAlives, Steps

\* What the steps of a reader do to what it has of its message.
LEMMA ReaderSteps ==
  ASSUME StatusTypeOK, NEW r \in Readers
  PROVE  /\ \A lost \in Lost : Report(r, lost) =>
              \E k \in KeepAlives : /\ keepAlive' = [keepAlive EXCEPT ![r] = k]
                                    /\ k.step = "store" /\ keepAlive[r].step = "none"
         /\ StoreRate(r) =>
              /\ Bitrate' \in Nat /\ Bitrate' = Value(reported') /\ reported' \in Byte \X Byte
              /\ \E k \in KeepAlives : /\ keepAlive' = [keepAlive EXCEPT ![r] = k]
                                       /\ k.step = "is33" /\ k.rate = Bitrate'
         /\ CompareRate(r) =>
              \E seen \in {Bitrate, keepAlive[r].rate}, k \in KeepAlives :
                /\ keepAlive' = [keepAlive EXCEPT ![r] = k]
                /\ k.rate = seen
                /\ \/ /\ keepAlive[r].step = "is33" /\ k.short = (seen = 33)
                      /\ k.step = IF seen = 33 THEN "times" ELSE "is83"
                   \/ keepAlive[r].step = "is83" /\ k.short = (seen = 83) /\ k.step = "times"
         /\ ScaleRate(r) =>
              \E seen \in {Bitrate, keepAlive[r].rate}, k \in KeepAlives :
                /\ keepAlive' = [keepAlive EXCEPT ![r] = k]
                /\ k.step = "scaled" /\ k.rate = Scaled(seen, keepAlive[r].short)
         /\ StoreScaled(r) =>
              /\ Bitrate' \in Nat
              /\ \E k \in KeepAlives : keepAlive' = [keepAlive EXCEPT ![r] = k] /\ k.step = "load"
         /\ AddStats(r) =>
              /\ RxLost' = keepAlive[r].sum + Meant(keepAlive[r].lost)
              /\ Meant(keepAlive[r].lost) \in Nat /\ keepAlive[r].sum \in Nat
              /\ keepAlive' = [keepAlive EXCEPT ![r] = NoReport]
<1>1. keepAlive \in [Readers -> KeepAlives] /\ setting \in Byte \X Byte /\ Bitrate \in Nat
  BY Zenon DEF StatusTypeOK, KeepAlives, Steps
<1>2. /\ keepAlive[r].bytes \in Byte \X Byte /\ keepAlive[r].lost \in Byte \X Byte
      /\ keepAlive[r].rate \in Nat /\ keepAlive[r].sum \in Nat /\ keepAlive[r].short \in BOOLEAN
  BY <1>1 DEF KeepAlives
<1>3. ASSUME NEW lost \in Lost, Report(r, lost)
      PROVE  \E k \in KeepAlives : /\ keepAlive' = [keepAlive EXCEPT ![r] = k]
                                   /\ k.step = "store" /\ keepAlive[r].step = "none"
  <2>1. [keepAlive[r] EXCEPT !.step = "store", !.bytes = setting, !.lost = lost] \in KeepAlives
    BY <1>1, StatusAssumption DEF KeepAlives, Steps
  <2>. QED
    BY <1>1, <1>3, <2>1, NoReportIs DEF Report, KeepAlives
<1>4. ASSUME StoreRate(r)
      PROVE  /\ Bitrate' \in Nat /\ Bitrate' = Value(reported') /\ reported' \in Byte \X Byte
             /\ \E k \in KeepAlives : /\ keepAlive' = [keepAlive EXCEPT ![r] = k]
                                      /\ k.step = "is33" /\ k.rate = Bitrate'
  <2>1. reported' = keepAlive[r].bytes /\ Bitrate' = Value(reported')
    BY <1>2, <1>4, ValueRange DEF StoreRate
  <2>2. Bitrate' \in Nat /\ reported' \in Byte \X Byte
    BY <1>2, <2>1, ValueRange, SMT
  <2>3. [keepAlive[r] EXCEPT !.step = "is33", !.rate = Bitrate'] \in KeepAlives
    BY <1>1, <2>2 DEF KeepAlives, Steps
  <2>. QED
    BY <1>1, <1>4, <2>1, <2>2, <2>3 DEF StoreRate, KeepAlives
<1>5. ASSUME CompareRate(r)
      PROVE  \E seen \in {Bitrate, keepAlive[r].rate}, k \in KeepAlives :
                /\ keepAlive' = [keepAlive EXCEPT ![r] = k]
                /\ k.rate = seen
                /\ \/ /\ keepAlive[r].step = "is33" /\ k.short = (seen = 33)
                      /\ k.step = IF seen = 33 THEN "times" ELSE "is83"
                   \/ keepAlive[r].step = "is83" /\ k.short = (seen = 83) /\ k.step = "times"
  <2>1. PICK seen \in {Bitrate, keepAlive[r].rate} :
       \/ /\ keepAlive[r].step = "is33"
          /\ keepAlive' = [keepAlive EXCEPT ![r].step = IF seen = 33 THEN "times" ELSE "is83",
                                            ![r].rate = seen, ![r].short = (seen = 33)]
       \/ /\ keepAlive[r].step = "is83"
          /\ keepAlive' = [keepAlive EXCEPT ![r].step = "times",
                                            ![r].rate = seen, ![r].short = (seen = 83)]
    BY <1>5 DEF CompareRate
  <2>2. seen \in Nat
    BY <1>1, <1>2
  <2>3. CASE keepAlive[r].step = "is33"
    <3>1. PICK k : k = [keepAlive[r] EXCEPT !.step = IF seen = 33 THEN "times" ELSE "is83",
                                            !.rate = seen, !.short = (seen = 33)]
      OBVIOUS
    <3>2. k \in KeepAlives
      <4>1. PICK step \in Steps : step = IF seen = 33 THEN "times" ELSE "is83"
        BY DEF Steps
      <4>2. k = [keepAlive[r] EXCEPT !.step = step, !.rate = seen, !.short = (seen = 33)]
        BY <3>1, <4>1
      <4>3. keepAlive[r] \in KeepAlives /\ (seen = 33) \in BOOLEAN
        BY <1>1
      <4>. QED
        BY <2>2, <4>2, <4>3 DEF KeepAlives
    <3>3. k.rate = seen /\ k.short = (seen = 33) /\ k.step = IF seen = 33 THEN "times" ELSE "is83"
      BY <1>1, <3>1 DEF KeepAlives
    <3>4. keepAlive' = [keepAlive EXCEPT ![r] = k]
      BY <1>1, <2>1, <2>3, <3>1
    <3>. QED
      BY <2>3, <3>2, <3>3, <3>4
  <2>4. CASE keepAlive[r].step = "is83"
    <3>1. PICK k : k = [keepAlive[r] EXCEPT !.step = "times", !.rate = seen, !.short = (seen = 83)]
      OBVIOUS
    <3>2. k \in KeepAlives
      <4>1. "times" \in Steps
        BY DEF Steps
      <4>2. keepAlive[r] \in KeepAlives /\ (seen = 83) \in BOOLEAN
        BY <1>1
      <4>. QED
        BY <2>2, <3>1, <4>1, <4>2 DEF KeepAlives
    <3>3. k.rate = seen /\ k.short = (seen = 83) /\ k.step = "times"
      BY <1>1, <3>1 DEF KeepAlives
    <3>4. keepAlive' = [keepAlive EXCEPT ![r] = k]
      BY <1>1, <2>1, <2>4, <3>1
    <3>. QED
      BY <2>4, <3>2, <3>3, <3>4
  <2>. QED
    BY <2>1, <2>3, <2>4
<1>6. ASSUME ScaleRate(r)
      PROVE  \E seen \in {Bitrate, keepAlive[r].rate}, k \in KeepAlives :
                /\ keepAlive' = [keepAlive EXCEPT ![r] = k]
                /\ k.step = "scaled" /\ k.rate = Scaled(seen, keepAlive[r].short)
  <2>1. PICK seen \in {Bitrate, keepAlive[r].rate} :
          keepAlive' = [keepAlive EXCEPT ![r].step = "scaled",
                                         ![r].rate = Scaled(seen, keepAlive[r].short)]
    BY <1>6 DEF ScaleRate
  <2>2. PICK v \in Nat : v = Scaled(seen, keepAlive[r].short)
    BY <1>1, <1>2, ScaledNat
  <2>3. PICK k : k = [keepAlive[r] EXCEPT !.step = "scaled", !.rate = v]
    OBVIOUS
  <2>4. k \in KeepAlives /\ k.step = "scaled" /\ k.rate = v
    BY <1>1, <2>3 DEF KeepAlives, Steps
  <2>5. keepAlive' = [keepAlive EXCEPT ![r] = k]
    BY <1>1, <2>1, <2>2, <2>3
  <2>. QED
    BY <2>2, <2>4, <2>5
<1>7. ASSUME StoreScaled(r)
      PROVE  /\ Bitrate' \in Nat
             /\ \E k \in KeepAlives : keepAlive' = [keepAlive EXCEPT ![r] = k] /\ k.step = "load"
  <2>1. PICK k : k = [NoReport EXCEPT !.step = "load", !.lost = keepAlive[r].lost]
    OBVIOUS
  <2>2. k \in KeepAlives /\ k.step = "load"
    BY <1>2, <2>1, NoReportIs DEF KeepAlives, Steps
  <2>. QED
    BY <1>2, <1>7, <2>1, <2>2 DEF StoreScaled
<1>8. ASSUME AddStats(r)
      PROVE  /\ RxLost' = keepAlive[r].sum + Meant(keepAlive[r].lost)
             /\ Meant(keepAlive[r].lost) \in Nat /\ keepAlive[r].sum \in Nat
             /\ keepAlive' = [keepAlive EXCEPT ![r] = NoReport]
  BY <1>2, <1>8, LossesRead DEF AddStats
<1>. QED
  BY <1>3, <1>4, <1>5, <1>6, <1>7, <1>8

\* What the load of the sum does to all readers: the one that loads has it, those it
\* meets know, and no other changes.
LEMMA Loaded ==
  ASSUME StatusTypeOK, NEW r \in Readers, LoadStats(r)
  PROVE  /\ keepAlive' \in [Readers -> KeepAlives]
         /\ keepAlive'[r].step = "add" /\ keepAlive'[r].sum = RxLost
         /\ keepAlive'[r].met = (\E q \in Others(r) : Adding(q))
         /\ \A q \in Others(r) :
              \/ keepAlive'[q] = keepAlive[q] /\ ~Adding(q)
              \/ Adding(q) /\ keepAlive'[q] = [keepAlive[q] EXCEPT !.met = TRUE]
<1>1. keepAlive \in [Readers -> KeepAlives] /\ RxLost \in Nat
  BY Zenon DEF StatusTypeOK, KeepAlives, Steps
<1>2. PICK met \in BOOLEAN : met = (\E q \in Others(r) : Adding(q))
  OBVIOUS
<1>3. keepAlive' = [q \in Readers |->
        IF q = r THEN [keepAlive[r] EXCEPT !.step = "add", !.sum = RxLost, !.met = met]
        ELSE IF Adding(q) THEN [keepAlive[q] EXCEPT !.met = TRUE] ELSE keepAlive[q]]
  BY <1>2 DEF LoadStats
<1>4. PICK k : k = [keepAlive[r] EXCEPT !.step = "add", !.sum = RxLost, !.met = met]
  OBVIOUS
<1>5. k \in KeepAlives /\ k.step = "add" /\ k.sum = RxLost /\ k.met = met
  BY <1>1, <1>4 DEF KeepAlives, Steps
<1>6. \A q \in Readers : [keepAlive[q] EXCEPT !.met = TRUE] \in KeepAlives
  BY <1>1 DEF KeepAlives
<1>7. keepAlive'[r] = k
  BY <1>3, <1>4
<1>8. keepAlive' \in [Readers -> KeepAlives]
  BY <1>1, <1>3, <1>4, <1>5, <1>6
<1>9. \A q \in Others(r) :
        \/ keepAlive'[q] = keepAlive[q] /\ ~Adding(q)
        \/ Adding(q) /\ keepAlive'[q] = [keepAlive[q] EXCEPT !.met = TRUE]
  BY <1>3 DEF Others
<1>. QED
  BY <1>2, <1>5, <1>7, <1>8, <1>9

\* ... and every step of the device and the driver keeps them.
LEMMA StatusTypeNext == StatusTypeOK /\ StatusNext => StatusTypeOK'
<1>. SUFFICES ASSUME StatusTypeOK, StatusNext PROVE StatusTypeOK'
  OBVIOUS
<1>1. /\ keepAlive \in [Readers -> KeepAlives]
      /\ asked \in Bitrates /\ setting \in Byte \X Byte /\ reports \in 0..MaxReports
      /\ Bitrate \in Nat /\ RxLost \in Nat /\ Termination \in BOOLEAN
      /\ reported \in Byte \X Byte /\ rateRaced \in BOOLEAN /\ certain \in Nat /\ losses \in Nat
  BY Zenon DEF StatusTypeOK, KeepAlives, Steps
<1>3. ASSUME NEW rate \in Requested, BitrateSet(rate) PROVE StatusTypeOK'
  <2>1. setting' \in Byte \X Byte /\ asked' \in Bitrates
    BY <1>3, RateComesBack, StatusAssumption DEF BitrateSet
  <2>. QED
    BY <1>1, <1>3, <2>1, Zenon DEF BitrateSet, rateVars, statsVars, StatusTypeOK, KeepAlives, Steps
<1>4. ASSUME StatsClear PROVE StatusTypeOK'
  <2>1. RxLost' \in Nat /\ certain' \in Nat /\ losses' \in Nat
    BY <1>1, <1>4 DEF StatsClear
  <2>. QED
    BY <1>1, <1>4, <2>1, Zenon DEF StatsClear, bitrateVars, rateVars, StatusTypeOK, KeepAlives, Steps
<1>5. ASSUME NEW r \in Readers, NEW lost \in Lost, Report(r, lost) PROVE StatusTypeOK'
  <2>1. PICK k \in KeepAlives : keepAlive' = [keepAlive EXCEPT ![r] = k]
    BY <1>5, ReaderSteps
  <2>2. keepAlive' \in [Readers -> KeepAlives]
    BY <1>1, <2>1, Updated
  <2>3. reports' \in 0..MaxReports
    BY <1>1, <1>5, StatusAssumption, SMT DEF Report
  <2>. QED
    BY <1>1, <1>5, <2>2, <2>3, Zenon
       DEF Report, bitrateVars, rateVars, statsVars, StatusTypeOK, KeepAlives, Steps
<1>6. ASSUME NEW r \in Readers, StoreRate(r) PROVE StatusTypeOK'
  <2>1. PICK k \in KeepAlives : keepAlive' = [keepAlive EXCEPT ![r] = k]
    BY <1>6, ReaderSteps
  <2>2. keepAlive' \in [Readers -> KeepAlives]
    BY <1>1, <2>1, Updated
  <2>3. Bitrate' \in Nat /\ reported' \in Byte \X Byte
    BY <1>6, ReaderSteps
  <2>4. rateRaced' \in BOOLEAN
    BY <1>6, Zenon DEF StoreRate
  <2>. QED
    BY <1>1, <1>6, <2>2, <2>3, <2>4, Zenon
       DEF StoreRate, bitrateVars, statsVars, StatusTypeOK, KeepAlives, Steps
<1>7. ASSUME NEW r \in Readers, CompareRate(r) \/ ScaleRate(r) PROVE StatusTypeOK'
  <2>1. PICK k \in KeepAlives : keepAlive' = [keepAlive EXCEPT ![r] = k]
    BY <1>7, ReaderSteps
  <2>2. keepAlive' \in [Readers -> KeepAlives]
    BY <1>1, <2>1, Updated
  <2>. QED
    BY <1>1, <1>7, <2>2, Zenon DEF CompareRate, ScaleRate, bitrateVars, rateVars, statsVars,
       StatusTypeOK, KeepAlives, Steps
<1>8. ASSUME NEW r \in Readers, StoreScaled(r) PROVE StatusTypeOK'
  <2>1. PICK k \in KeepAlives : keepAlive' = [keepAlive EXCEPT ![r] = k]
    BY <1>8, ReaderSteps
  <2>2. keepAlive' \in [Readers -> KeepAlives] /\ Bitrate' \in Nat
    BY <1>1, <1>8, <2>1, Updated, ReaderSteps
  <2>. QED
    BY <1>1, <1>8, <2>2, Zenon
       DEF StoreScaled, bitrateVars, statsVars, StatusTypeOK, KeepAlives, Steps
<1>9. ASSUME NEW r \in Readers, LoadStats(r) PROVE StatusTypeOK'
  <2>1. keepAlive' \in [Readers -> KeepAlives]
    BY <1>9, Loaded
  <2>. QED
    BY <1>1, <1>9, <2>1, Zenon
       DEF LoadStats, bitrateVars, rateVars, statsVars, StatusTypeOK, KeepAlives, Steps
<1>10. ASSUME NEW r \in Readers, AddStats(r) PROVE StatusTypeOK'
  <2>1. keepAlive' \in [Readers -> KeepAlives]
    BY <1>1, <1>10, NoReportIs, Updated, ReaderSteps
  <2>2. PICK m \in Nat : m = Meant(keepAlive[r].lost)
    BY <1>10, ReaderSteps
  <2>3. RxLost' \in Nat
    BY <1>10, <2>2, ReaderSteps
  <2>4. /\ certain' = IF keepAlive[r].met THEN certain ELSE certain + m
        /\ losses' = losses + m
    BY <1>10, <2>2 DEF AddStats
  <2>5. certain' \in Nat /\ losses' \in Nat
    BY <1>1, <2>4
  <2>. QED
    BY <1>1, <1>10, <2>1, <2>3, <2>5, Zenon
       DEF AddStats, bitrateVars, rateVars, StatusTypeOK, KeepAlives, Steps
<1>11. ASSUME NEW state \in BOOLEAN, KeepAliveUsb(state) PROVE StatusTypeOK'
  BY <1>1, <1>11, Zenon
     DEF KeepAliveUsb, bitrateVars, rateVars, statsVars, StatusTypeOK, KeepAlives, Steps
<1>. QED
  BY <1>3, <1>4, <1>5, <1>6, <1>7, <1>8, <1>9, <1>10, <1>11, Zenon DEF StatusNext

-----------------------------------------------------------------------------
(* The invariant of the status. *)

\* What a reader that is alone on the rate has in its register and in memory.
OnRate(r) ==
  /\ keepAlive[r].step \in {"is33", "is83", "times"} =>
       Bitrate = Value(reported) /\ keepAlive[r].rate = Value(reported)
  /\ keepAlive[r].step = "is83" => Value(reported) # 33
  /\ keepAlive[r].step = "times" => keepAlive[r].short = (Value(reported) \in {33, 83})
  /\ keepAlive[r].step = "scaled" => keepAlive[r].rate = ScaledRate(Value(reported))

\* Unless readers have met there is at most one on the rate, and the rate is what the
\* device reported when there is none.
RateInv ==
  /\ ScaledRate(Value(setting)) = asked
  /\ ~rateRaced =>
       /\ \A r, q \in Readers : Rating(r) /\ Rating(q) => r = q
       /\ \A r \in Readers : OnRate(r)
       /\ (\A r \in Readers : ~Rating(r)) => Bitrate = ScaledRate(Value(reported))

\* What is in the sum, and in what a reader has loaded of it, lies between the bounds;
\* of two readers between load and store each knows that it is not alone.
StatsInv ==
  /\ certain <= RxLost /\ RxLost <= losses
  /\ \A r \in Readers : Adding(r) => certain <= keepAlive[r].sum /\ keepAlive[r].sum <= losses
  /\ \A r, q \in Readers : Adding(r) /\ Adding(q) /\ r # q => keepAlive[r].met

StatusInv == StatusTypeOK /\ RateInv /\ StatsInv

\* It holds before the first message.
LEMMA StatusInvInit == StatusInit => RateInv /\ StatsInv
<1>. SUFFICES ASSUME StatusInit PROVE RateInv /\ StatsInv
  OBVIOUS
<1>1. \A r \in Readers : keepAlive[r].step = "none"
  BY NoReportIs DEF StatusInit
<1>2. ScaledRate(Value(setting)) = asked
  BY RateComesBack DEF StatusInit
<1>3. ScaledRate(Value(<<0, 0>>)) = 0
  BY Powers, SMT DEF ScaledRate, Scaled, Value, Word
<1>4. RateInv
  BY <1>1, <1>2, <1>3 DEF StatusInit, RateInv, OnRate, Rating
<1>5. StatsInv
  BY <1>1, SMT DEF StatusInit, StatsInv, Adding
<1>. QED
  BY <1>4, <1>5

\* Steps that touch neither the rate nor a reader on it keep what is known of it, ...
LEMMA RateUntouched ==
  ASSUME RateInv, UNCHANGED <<setting, asked, Bitrate, reported, rateRaced>>,
         \A q \in Readers :
           \/ ~Rating(q)'  /\ ~Rating(q)
           \/ /\ keepAlive'[q].step = keepAlive[q].step /\ keepAlive'[q].rate = keepAlive[q].rate
              /\ keepAlive'[q].short = keepAlive[q].short
  PROVE  RateInv'
BY DEF RateInv, OnRate, Rating

\* ... and so it is with the statistics.
LEMMA StatsUntouched ==
  ASSUME StatsInv, UNCHANGED <<RxLost, certain, losses>>,
         \A q \in Readers : ~Adding(q)' \/ keepAlive'[q] = keepAlive[q]
  PROVE  StatsInv'
BY DEF StatsInv, Adding

\* A step of the one reader on the rate, with nobody else on it, leaves what it should.
LEMMA AloneOnRate ==
  ASSUME StatusTypeOK, RateInv, NEW r \in Readers, NEW k \in KeepAlives,
         keepAlive' = [keepAlive EXCEPT ![r] = k], UNCHANGED <<setting, asked>>,
         \/ Rating(r) /\ UNCHANGED <<reported, rateRaced>>
         \/ rateRaced' = (\E q \in Others(r) : Rating(q)),
         ~rateRaced' => OnRate(r)' /\ (~Rating(r)' => Bitrate' = ScaledRate(Value(reported')))
  PROVE  RateInv'
<1>1. keepAlive \in [Readers -> KeepAlives]
  BY Zenon DEF StatusTypeOK, KeepAlives, Steps
<1>2. \A q \in Others(r) : keepAlive'[q] = keepAlive[q]
  BY <1>1, Updated DEF Others
<1>3. ScaledRate(Value(setting'))  = asked'
  BY DEF RateInv
<1>4. ASSUME ~rateRaced' PROVE \A q \in Others(r) : ~Rating(q)
  <2>1. CASE Rating(r) /\ UNCHANGED <<reported, rateRaced>>
    BY <1>4, <2>1 DEF RateInv, Others
  <2>2. CASE rateRaced' = (\E q \in Others(r) : Rating(q))
    BY <1>4, <2>2
  <2>. QED
    BY <2>1, <2>2
<1>5. ASSUME ~rateRaced' PROVE \A q \in Others(r) : ~Rating(q)' /\ OnRate(q)'
  BY <1>2, <1>4, <1>5 DEF Rating, OnRate
<1>6. ASSUME ~rateRaced'
      PROVE  /\ \A p, q \in Readers : Rating(p)' /\ Rating(q)' => p = q
             /\ \A q \in Readers : OnRate(q)'
             /\ (\A q \in Readers : ~Rating(q)') => Bitrate' = ScaledRate(Value(reported'))
  BY <1>5, <1>6 DEF Others
<1>. QED
  BY <1>3, <1>6 DEF RateInv

\* Readers that take their turns on the rate leave it as the device reported it.
LEMMA RateNext == StatusTypeOK /\ RateInv /\ StatusNext => RateInv'
<1>. SUFFICES ASSUME StatusTypeOK, RateInv, StatusNext PROVE RateInv'
  OBVIOUS
<1>1. keepAlive \in [Readers -> KeepAlives]
  BY Zenon DEF StatusTypeOK, KeepAlives, Steps
<1>2. ASSUME NEW rate \in Requested, BitrateSet(rate) PROVE RateInv'
  <2>1. ScaledRate(Value(setting')) = asked'
    BY <1>2, RateComesBack, StatusAssumption DEF BitrateSet
  <2>. QED
    BY <1>2, <2>1 DEF BitrateSet, rateVars, RateInv, OnRate, Rating
<1>3. ASSUME StatsClear PROVE RateInv'
  BY <1>3, RateUntouched DEF StatsClear, bitrateVars, rateVars, Rating
<1>4. ASSUME NEW r \in Readers, NEW lost \in Lost, Report(r, lost) PROVE RateInv'
  <2>1. PICK k \in KeepAlives : /\ keepAlive' = [keepAlive EXCEPT ![r] = k]
                                /\ k.step = "store" /\ keepAlive[r].step = "none"
    BY <1>4, ReaderSteps
  <2>2. keepAlive'[r] = k /\ \A q \in Readers \ {r} : keepAlive'[q] = keepAlive[q]
    BY <1>1, <2>1, Updated
  <2>. QED
    BY <1>4, <2>1, <2>2, RateUntouched DEF Report, bitrateVars, rateVars, Rating
<1>5. ASSUME NEW r \in Readers, StoreRate(r) PROVE RateInv'
  <2>1. PICK k \in KeepAlives : /\ keepAlive' = [keepAlive EXCEPT ![r] = k]
                                /\ k.step = "is33" /\ k.rate = Bitrate'
    BY <1>5, ReaderSteps
  <2>2. keepAlive'[r] = k
    BY <1>1, <2>1, Updated
  <2>3. Bitrate' = Value(reported')
    BY <1>5, ReaderSteps
  <2>4. OnRate(r)' /\ Rating(r)'
    BY <2>1, <2>2, <2>3 DEF OnRate, Rating
  <2>5. UNCHANGED <<setting, asked>> /\ rateRaced' = (\E q \in Others(r) : Rating(q))
    BY <1>5 DEF StoreRate, bitrateVars
  <2>. QED
    BY <2>1, <2>4, <2>5, AloneOnRate
<1>6. ASSUME NEW r \in Readers, CompareRate(r) PROVE RateInv'
  <2>1. PICK seen \in {Bitrate, keepAlive[r].rate}, k \in KeepAlives :
          /\ keepAlive' = [keepAlive EXCEPT ![r] = k]
          /\ k.rate = seen
          /\ \/ /\ keepAlive[r].step = "is33" /\ k.short = (seen = 33)
                /\ k.step = IF seen = 33 THEN "times" ELSE "is83"
             \/ keepAlive[r].step = "is83" /\ k.short = (seen = 83) /\ k.step = "times"
    BY <1>6, ReaderSteps
  <2>2. keepAlive'[r] = k
    BY <1>1, <2>1, Updated
  <2>3. Rating(r) /\ Rating(r)'
    BY <2>1, <2>2 DEF Rating
  <2>4. UNCHANGED <<setting, asked, Bitrate, reported, rateRaced>>
    BY <1>6 DEF CompareRate, bitrateVars, rateVars
  <2>5. ASSUME ~rateRaced' PROVE OnRate(r)'
    <3>1. OnRate(r)
      BY <2>4, <2>5 DEF RateInv
    <3>2. seen = Value(reported) /\ Bitrate = Value(reported)
      BY <2>1, <3>1 DEF OnRate
    <3>3. CASE keepAlive[r].step = "is33"
      <4>1. k.short = (seen = 33) /\ k.step = IF seen = 33 THEN "times" ELSE "is83"
        BY <2>1, <3>3
      <4>. QED
        BY <2>1, <2>2, <2>4, <3>2, <4>1 DEF OnRate
    <3>4. CASE keepAlive[r].step = "is83"
      <4>1. k.short = (seen = 83) /\ k.step = "times" /\ seen # 33
        BY <2>1, <3>1, <3>2, <3>4 DEF OnRate
      <4>. QED
        BY <2>1, <2>2, <2>4, <3>2, <4>1 DEF OnRate
    <3>. QED
      BY <2>1, <3>3, <3>4
  <2>. QED
    BY <2>1, <2>3, <2>4, <2>5, AloneOnRate
<1>7. ASSUME NEW r \in Readers, ScaleRate(r) PROVE RateInv'
  <2>1. PICK seen \in {Bitrate, keepAlive[r].rate}, k \in KeepAlives :
          /\ keepAlive' = [keepAlive EXCEPT ![r] = k]
          /\ k.step = "scaled" /\ k.rate = Scaled(seen, keepAlive[r].short)
    BY <1>7, ReaderSteps
  <2>2. keepAlive'[r] = k
    BY <1>1, <2>1, Updated
  <2>3. keepAlive[r].step = "times" /\ UNCHANGED <<setting, asked, Bitrate, reported, rateRaced>>
    BY <1>7 DEF ScaleRate, bitrateVars, rateVars
  <2>4. Rating(r) /\ Rating(r)'
    BY <2>1, <2>2, <2>3 DEF Rating
  <2>5. ASSUME ~rateRaced' PROVE OnRate(r)'
    <3>1. OnRate(r)
      BY <2>3, <2>5 DEF RateInv
    <3>2. seen = Value(reported) /\ keepAlive[r].short = (Value(reported) \in {33, 83})
      BY <2>1, <2>3, <3>1 DEF OnRate
    <3>3. k.rate = ScaledRate(Value(reported))
      BY <2>1, <3>2 DEF ScaledRate
    <3>. QED
      BY <2>1, <2>2, <2>3, <3>3 DEF OnRate
  <2>. QED
    BY <2>1, <2>3, <2>4, <2>5, AloneOnRate
<1>8. ASSUME NEW r \in Readers, StoreScaled(r) PROVE RateInv'
  <2>1. PICK k \in KeepAlives : keepAlive' = [keepAlive EXCEPT ![r] = k] /\ k.step = "load"
    BY <1>8, ReaderSteps
  <2>2. keepAlive'[r] = k
    BY <1>1, <2>1, Updated
  <2>3. /\ keepAlive[r].step = "scaled" /\ Bitrate' = keepAlive[r].rate
        /\ UNCHANGED <<setting, asked, reported, rateRaced>>
    BY <1>8 DEF StoreScaled, bitrateVars
  <2>4. Rating(r) /\ ~Rating(r)' /\ OnRate(r)'
    BY <2>1, <2>2, <2>3 DEF Rating, OnRate
  <2>5. ASSUME ~rateRaced' PROVE Bitrate' = ScaledRate(Value(reported'))
    BY <2>3, <2>5 DEF RateInv, OnRate
  <2>. QED
    BY <2>1, <2>3, <2>4, <2>5, AloneOnRate
<1>9. ASSUME NEW r \in Readers, LoadStats(r) PROVE RateInv'
  <2>1. /\ keepAlive[r].step = "load"
        /\ UNCHANGED <<setting, asked, Bitrate, reported, rateRaced>>
    BY <1>9 DEF LoadStats, bitrateVars, rateVars
  <2>2. \A q \in Readers : (~Rating(q)' /\ ~Rating(q)) \/ keepAlive'[q] = keepAlive[q]
    <3>1. ~Rating(r)' /\ ~Rating(r)
      BY <1>9, <2>1, Loaded DEF Rating
    <3>2. ASSUME NEW q \in Others(r), Adding(q),
                 keepAlive'[q] = [keepAlive[q] EXCEPT !.met = TRUE]
          PROVE  ~Rating(q)' /\ ~Rating(q)
      <4>1. keepAlive[q] \in KeepAlives
        BY <1>1 DEF Others
      <4>. QED
        BY <3>2, <4>1 DEF Rating, Adding, KeepAlives
    <3>. QED
      BY <1>9, <3>1, <3>2, Loaded DEF Others
  <2>. QED
    BY <2>1, <2>2, RateUntouched
<1>10. ASSUME NEW r \in Readers, AddStats(r) PROVE RateInv'
  <2>1. /\ keepAlive[r].step = "add" /\ keepAlive' = [keepAlive EXCEPT ![r] = NoReport]
        /\ UNCHANGED <<setting, asked, Bitrate, reported, rateRaced>>
    BY <1>10 DEF AddStats, bitrateVars, rateVars
  <2>2. keepAlive'[r] = NoReport /\ \A q \in Readers \ {r} : keepAlive'[q] = keepAlive[q]
    BY <1>1, <2>1, NoReportIs, Updated
  <2>. QED
    BY <2>1, <2>2, NoReportIs, RateUntouched DEF Rating
<1>11. ASSUME NEW state \in BOOLEAN, KeepAliveUsb(state) PROVE RateInv'
  BY <1>11, RateUntouched DEF KeepAliveUsb, bitrateVars, rateVars, Rating
<1>. QED
  BY <1>2, <1>3, <1>4, <1>5, <1>6, <1>7, <1>8, <1>9, <1>10, <1>11, Zenon DEF StatusNext

\* However readers and clears meet, the sum stays between its bounds.
LEMMA StatsNext == StatusTypeOK /\ StatsInv /\ StatusNext => StatsInv'
<1>. SUFFICES ASSUME StatusTypeOK, StatsInv, StatusNext PROVE StatsInv'
  OBVIOUS
<1>1. /\ keepAlive \in [Readers -> KeepAlives]
      /\ RxLost \in Nat /\ certain \in Nat /\ losses \in Nat
  BY Zenon DEF StatusTypeOK, KeepAlives, Steps
<1>2. \A q \in Readers : keepAlive[q].sum \in Nat /\ keepAlive[q].met \in BOOLEAN
  BY <1>1 DEF KeepAlives
<1>3. ASSUME NEW r \in Readers, NEW k \in KeepAlives, keepAlive' = [keepAlive EXCEPT ![r] = k],
             k.step # "add", UNCHANGED <<RxLost, certain, losses>>
      PROVE  StatsInv'
  <2>1. keepAlive'[r] = k /\ \A q \in Readers \ {r} : keepAlive'[q] = keepAlive[q]
    BY <1>1, <1>3, Updated
  <2>. QED
    BY <1>3, <2>1, StatsUntouched DEF Adding
<1>4. ASSUME NEW rate \in Requested, BitrateSet(rate) PROVE StatsInv'
  BY <1>4, StatsUntouched DEF BitrateSet, statsVars, Adding
<1>5. ASSUME StatsClear PROVE StatsInv'
  <2>1. RxLost' = 0 /\ certain' = 0 /\ keepAlive' = keepAlive
    BY <1>5 DEF StatsClear
  <2>2. losses' = IF \E r \in Readers : Adding(r) THEN losses ELSE 0
    BY <1>5 DEF StatsClear
  <2>3. CASE \E r \in Readers : Adding(r)
    BY <1>1, <1>2, <2>1, <2>2, <2>3 DEF StatsInv, Adding
  <2>4. CASE ~\E r \in Readers : Adding(r)
    BY <1>1, <1>2, <2>1, <2>2, <2>4 DEF StatsInv, Adding
  <2>. QED
    BY <2>3, <2>4
<1>6. ASSUME NEW r \in Readers, NEW lost \in Lost, Report(r, lost) PROVE StatsInv'
  <2>1. UNCHANGED <<RxLost, certain, losses>>
    BY <1>6 DEF Report, statsVars
  <2>. QED
    BY <1>3, <1>6, <2>1, ReaderSteps
<1>7. ASSUME NEW r \in Readers, StoreRate(r) PROVE StatsInv'
  <2>1. UNCHANGED <<RxLost, certain, losses>>
    BY <1>7 DEF StoreRate, statsVars
  <2>2. PICK k \in KeepAlives : keepAlive' = [keepAlive EXCEPT ![r] = k] /\ k.step = "is33"
    BY <1>7, ReaderSteps
  <2>. QED
    BY <1>3, <2>1, <2>2
<1>8. ASSUME NEW r \in Readers, CompareRate(r) PROVE StatsInv'
  <2>1. UNCHANGED <<RxLost, certain, losses>>
    BY <1>8 DEF CompareRate, statsVars
  <2>2. PICK k \in KeepAlives : keepAlive' = [keepAlive EXCEPT ![r] = k] /\ k.step # "add"
    BY <1>8, ReaderSteps
  <2>. QED
    BY <1>3, <2>1, <2>2
<1>9. ASSUME NEW r \in Readers, ScaleRate(r) PROVE StatsInv'
  <2>1. UNCHANGED <<RxLost, certain, losses>>
    BY <1>9 DEF ScaleRate, statsVars
  <2>2. PICK k \in KeepAlives : keepAlive' = [keepAlive EXCEPT ![r] = k] /\ k.step = "scaled"
    BY <1>9, ReaderSteps
  <2>. QED
    BY <1>3, <2>1, <2>2
<1>10. ASSUME NEW r \in Readers, StoreScaled(r) PROVE StatsInv'
  <2>1. UNCHANGED <<RxLost, certain, losses>>
    BY <1>10 DEF StoreScaled, statsVars
  <2>2. PICK k \in KeepAlives : keepAlive' = [keepAlive EXCEPT ![r] = k] /\ k.step = "load"
    BY <1>10, ReaderSteps
  <2>. QED
    BY <1>3, <2>1, <2>2
<1>11. ASSUME NEW r \in Readers, LoadStats(r) PROVE StatsInv'
  <2>1. UNCHANGED <<RxLost, certain, losses>>
    BY <1>11 DEF LoadStats, statsVars
  <2>2. /\ keepAlive'[r].sum = RxLost
        /\ keepAlive'[r].met = (\E q \in Others(r) : Adding(q))
    BY <1>11, Loaded
  <2>3. ASSUME NEW q \in Others(r), Adding(q)'
        PROVE  Adding(q) /\ keepAlive'[q].met /\ keepAlive'[q].sum = keepAlive[q].sum
    <3>1. keepAlive[q] \in KeepAlives
      BY <1>1 DEF Others
    <3>2. Adding(q)
      BY <1>11, <2>3, Loaded DEF Adding
    <3>3. keepAlive'[q] = [keepAlive[q] EXCEPT !.met = TRUE]
      BY <1>11, <3>2, Loaded
    <3>. QED
      BY <3>1, <3>2, <3>3 DEF KeepAlives
  <2>4. \A q \in Readers : Adding(q)' => certain <= keepAlive'[q].sum /\ keepAlive'[q].sum <= losses
    BY <2>2, <2>3 DEF StatsInv, Others
  <2>5. \A p, q \in Readers : Adding(p)' /\ Adding(q)' /\ p # q => keepAlive'[p].met
    BY <2>2, <2>3 DEF Others
  <2>. QED
    BY <2>1, <2>4, <2>5 DEF StatsInv
<1>12. ASSUME NEW r \in Readers, AddStats(r) PROVE StatsInv'
  <2>1. PICK m \in Nat : m = Meant(keepAlive[r].lost)
    BY <1>12, ReaderSteps
  <2>2. /\ RxLost' = keepAlive[r].sum + m
        /\ keepAlive' = [keepAlive EXCEPT ![r] = NoReport]
    BY <1>12, <2>1, ReaderSteps
  <2>3. /\ Adding(r)
        /\ certain' = IF keepAlive[r].met THEN certain ELSE certain + m
        /\ losses' = losses + m
    BY <1>12, <2>1 DEF AddStats, Adding
  <2>4. ~Adding(r)' /\ \A q \in Readers \ {r} : keepAlive'[q] = keepAlive[q]
    BY <1>1, <2>2, NoReportIs, Updated DEF Adding
  <2>5. certain <= keepAlive[r].sum /\ keepAlive[r].sum <= losses
    BY <2>3 DEF StatsInv
  <2>6. certain' <= RxLost' /\ RxLost' <= losses' /\ losses <= losses'
    BY <1>1, <1>2, <2>2, <2>3, <2>5
  <2>7. ASSUME NEW q \in Readers \ {r}, Adding(q)
        PROVE  certain' = certain
    BY <2>3, <2>7 DEF StatsInv
  <2>8. \A q \in Readers : Adding(q)' =>
          certain' <= keepAlive'[q].sum /\ keepAlive'[q].sum <= losses'
    <3>. SUFFICES ASSUME NEW q \in Readers, Adding(q)'
                  PROVE  certain' <= keepAlive'[q].sum /\ keepAlive'[q].sum <= losses'
      OBVIOUS
    <3>1. q # r /\ keepAlive'[q] = keepAlive[q] /\ Adding(q)
      BY <2>4 DEF Adding
    <3>2. certain <= keepAlive[q].sum /\ keepAlive[q].sum <= losses
      BY <3>1 DEF StatsInv
    <3>3. certain' = certain
      BY <2>7, <3>1
    <3>4. losses' \in Nat
      BY <1>1, <2>1, <2>3
    <3>. QED
      BY <1>1, <1>2, <2>6, <3>1, <3>2, <3>3, <3>4
  <2>9. \A p, q \in Readers : Adding(p)' /\ Adding(q)' /\ p # q => keepAlive'[p].met
    BY <2>4 DEF StatsInv, Adding
  <2>. QED
    BY <2>6, <2>8, <2>9 DEF StatsInv
<1>13. ASSUME NEW state \in BOOLEAN, KeepAliveUsb(state) PROVE StatsInv'
  BY <1>13, StatsUntouched DEF KeepAliveUsb, statsVars, Adding
<1>. QED
  BY <1>4, <1>5, <1>6, <1>7, <1>8, <1>9, <1>10, <1>11, <1>12, <1>13, Zenon DEF StatusNext

-----------------------------------------------------------------------------
(* Theorems about the status. *)

\* The inductive invariant of the device's status holds in every reachable state, for any
\* set of readers and however many messages they handle at once (Device.c 1171-1211).
THEOREM StatusInvariant == LoopbackSpec => []StatusInv
<1>1. LoopbackInit => StatusInv
  BY StatusTypeInit, StatusInvInit, Zenon DEF LoopbackInit, StatusInv
<1>2. StatusInv /\ [LoopbackNext]_loopbackVars => StatusInv'
  <2>. SUFFICES ASSUME StatusInv, [LoopbackNext]_loopbackVars PROVE StatusInv'
    OBVIOUS
  <2>1. CASE StatusNext
    BY <2>1, StatusTypeNext, RateNext, StatsNext, Zenon DEF StatusInv
  <2>2. CASE UNCHANGED statusVars
    <3>1. UNCHANGED <<setting, asked, reports, Bitrate, reported, rateRaced,
                      RxLost, certain, losses, Termination, keepAlive>>
      BY <2>2 DEF statusVars, bitrateVars, rateVars, statsVars
    <3>. QED
      BY <3>1, Zenon DEF StatusInv, StatusTypeOK, RateInv, StatsInv, OnRate, Rating, Adding
  <2>. QED
    BY <2>1, <2>2, Zenon DEF LoopbackNext, Write, Receive, loopbackVars
<1>. QED
  BY <1>1, <1>2, PTL DEF LoopbackSpec

\* Types: whatever a program asks for stays within the bytes of a message (Device.c
\* 1374-1419), and what keep-alive messages leave behind is a rate and a sum.
THEOREM LoopbackTypeCorrect == LoopbackSpec => []LoopbackTypeOK
<1>1. FrameInv /\ StatusInv => LoopbackTypeOK
  BY Zenon DEF FrameInv, StatusInv, LoopbackTypeOK
<1>. QED
  BY <1>1, FrameInvariant, StatusInvariant, PTL

\* A program that asks for the bit rate gets the one that was set, once the device has
\* reported it and unless two readers have met on it since (Device.c 1180-1188).
THEOREM BitrateAlwaysComesBack == LoopbackSpec => []BitrateComesBack
<1>1. StatusInv => BitrateComesBack
  BY Zenon DEF StatusInv, RateInv, BitrateComesBack
<1>. QED
  BY <1>1, StatusInvariant, PTL

\* However readers and clears meet, the statistics hold what readers that met nobody have
\* added since the last clear, and never more than was reported since a clear that met no
\* reader, in either byte order of the host (Device.c 1190-1195, Queue.c 371-375).
THEOREM StatsAlwaysBounded == LoopbackSpec => []StatsBounded
<1>1. StatusInv => StatsBounded
  BY Zenon DEF StatusInv, StatsInv, StatsBounded
<1>. QED
  BY <1>1, StatusInvariant, PTL
=============================================================================
