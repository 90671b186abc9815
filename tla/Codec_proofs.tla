----------------------------- MODULE Codec_proofs ------------------------------
(***************************************************************************)
(* What is written is read back, and no bit of a frame is lost or used      *)
(* twice.                                                                   *)
(***************************************************************************)
EXTENDS Codec, WellFoundedInduction, TLAPS

(* What is stored is at its place, and nothing else has changed.            *)
LEMMA Stored ==
    ASSUME NEW buf \in Buffer, NEW offset \in Nat, NEW bytes \in Buffer, offset + Len(bytes) <= Len(buf)
    PROVE  /\ Store(bytes, buf, offset) \in Buffer
           /\ Len(Store(bytes, buf, offset)) = Len(buf)
           /\ \A k \in 1 .. Len(bytes) : Store(bytes, buf, offset)[offset + k] = bytes[k]
           /\ \A k \in 1 .. Len(buf) :
                 k \notin offset + 1 .. offset + Len(bytes) => Store(bytes, buf, offset)[k] = buf[k]
<1> DEFINE new == [k \in 1 .. Len(buf) |->
                     IF k - offset \in 1 .. Len(bytes) THEN bytes[k - offset] ELSE buf[k]]
<1>1. Store(bytes, buf, offset) = new
  BY DEF Store
<1>2. \A k \in 1 .. Len(buf) : new[k] \in Byte
  BY DEF Buffer
<1>3. new \in Buffer /\ Len(new) = Len(buf)
  <2>1. Len(buf) \in Nat
    BY DEF Buffer
  <2>2. new \in [1 .. Len(buf) -> Byte]
    BY <1>2
  <2>. QED
    BY <2>1, <2>2 DEF Buffer
<1>4. \A k \in 1 .. Len(bytes) : new[offset + k] = bytes[k]
  BY DEF Buffer
<1>5. \A k \in 1 .. Len(buf) : k \notin offset + 1 .. offset + Len(bytes) => new[k] = buf[k]
  BY DEF Buffer
<1>. QED
  BY <1>1, <1>3, <1>4, <1>5

(* The bytes of an integer are bytes, and add up to it.                     *)
LEMMA Digits16 ==
    ASSUME NEW v \in UInt16
    PROVE  /\ uint16_bytes(v) \in Buffer /\ Len(uint16_bytes(v)) = 2
           /\ uint16_bytes(v)[1] + 256 * uint16_bytes(v)[2] = v
<1> DEFINE low == v % 256  high == v \div 256
<1>1. v \in Nat /\ v < 65536
  BY SMT DEF UInt16
<1>2. v = low + 256 * high /\ low \in 0 .. 255 /\ high \in Nat
  BY SMT, <1>1
<1>3. high \in 0 .. 255
  BY SMT, <1>1, <1>2
<1>. QED
  BY SMT, <1>2, <1>3 DEF uint16_bytes, Buffer, Byte

LEMMA Digits32 ==
    ASSUME NEW v \in UInt32
    PROVE  /\ uint32_bytes(v) \in Buffer /\ Len(uint32_bytes(v)) = 4
           /\ uint32_bytes(v)[1] + 256 * uint32_bytes(v)[2] + 65536 * uint32_bytes(v)[3]
              + 16777216 * uint32_bytes(v)[4] = v
<1> DEFINE h == v \div 256  g == v \div 65536  f == v \div 16777216
           a == v % 256  b == h % 256  c == g % 256  d == f % 256
<1>1. v \in Nat /\ v < 4294967296
  BY SMT DEF UInt32
<1>2. v = a + 256 * h /\ a \in 0 .. 255 /\ h \in Nat
  BY SMT, <1>1
<1>3. h = b + 256 * g /\ b \in 0 .. 255 /\ g \in Nat
  <2>1. h = b + 256 * (h \div 256) /\ b \in 0 .. 255 /\ h \div 256 \in Nat
    <3> HIDE DEF h
    <3>. QED
      BY SMT, <1>2
  <2>2. g = h \div 256
    BY SMT, <1>1
  <2>. QED
    BY SMT, <2>1, <2>2
<1>4. g = c + 256 * f /\ c \in 0 .. 255 /\ f \in Nat
  <2>1. g = c + 256 * (g \div 256) /\ c \in 0 .. 255 /\ g \div 256 \in Nat
    <3> HIDE DEF g
    <3>. QED
      BY SMT, <1>3
  <2>2. f = g \div 256
    BY SMT, <1>1
  <2>. QED
    BY SMT, <2>1, <2>2
<1>5. f = d /\ d \in 0 .. 255
  <2>1. f < 256
    <3> HIDE DEF h, g, f, a, b, c
    <3>. QED
      BY SMT, <1>1, <1>2, <1>3, <1>4
  <2>. QED
    BY SMT, <2>1, <1>4
<1>6. a + 256 * b + 65536 * c + 16777216 * d = v
  <2> HIDE DEF h, g, f, a, b, c, d
  <2>. QED
    BY SMT, <1>2, <1>3, <1>4, <1>5
<1>7. uint32_bytes(v) = << a, b, c, d >>
  BY DEF uint32_bytes
<1>. QED
  <2> HIDE DEF a, b, c, d
  <2>. QED
    BY SMT, <1>2, <1>3, <1>4, <1>5, <1>6, <1>7 DEF Buffer, Byte

(* Writing an integer leaves every byte outside its own two or four as it   *)
(* was, and the buffer as long (write_uint16, write_uint32 of io_utils.cpp).*)
THEOREM NeighboursKept ==
    ASSUME NEW buf \in Buffer, NEW offset \in Nat
    PROVE  /\ \A v \in UInt16 :
                 offset + 2 <= Len(buf) =>
                   /\ Len(write_uint16(v, buf, offset)) = Len(buf)
                   /\ \A k \in 1 .. Len(buf) : k \notin offset + 1 .. offset + 2 =>
                         write_uint16(v, buf, offset)[k] = buf[k]
           /\ \A v \in UInt32 :
                 offset + 4 <= Len(buf) =>
                   /\ Len(write_uint32(v, buf, offset)) = Len(buf)
                   /\ \A k \in 1 .. Len(buf) : k \notin offset + 1 .. offset + 4 =>
                         write_uint32(v, buf, offset)[k] = buf[k]
<1>1. ASSUME NEW v \in UInt16, offset + 2 <= Len(buf)
      PROVE  /\ Len(write_uint16(v, buf, offset)) = Len(buf)
             /\ \A k \in 1 .. Len(buf) : k \notin offset + 1 .. offset + 2 =>
                   write_uint16(v, buf, offset)[k] = buf[k]
  <2> DEFINE bytes == uint16_bytes(v)
  <2>1. bytes \in Buffer /\ Len(bytes) = 2
    BY SMT, Digits16
  <2> HIDE DEF bytes
  <2>2. /\ Len(Store(bytes, buf, offset)) = Len(buf)
        /\ \A k \in 1 .. Len(buf) : k \notin offset + 1 .. offset + 2 =>
              Store(bytes, buf, offset)[k] = buf[k]
    BY <1>1, <2>1, Stored
  <2>. QED
    BY <2>2 DEF write_uint16, bytes
<1>2. ASSUME NEW v \in UInt32, offset + 4 <= Len(buf)
      PROVE  /\ Len(write_uint32(v, buf, offset)) = Len(buf)
             /\ \A k \in 1 .. Len(buf) : k \notin offset + 1 .. offset + 4 =>
                   write_uint32(v, buf, offset)[k] = buf[k]
  <2> DEFINE bytes == uint32_bytes(v)
  <2>1. bytes \in Buffer /\ Len(bytes) = 4
    BY SMT, Digits32
  <2> HIDE DEF bytes
  <2>2. /\ Len(Store(bytes, buf, offset)) = Len(buf)
        /\ \A k \in 1 .. Len(buf) : k \notin offset + 1 .. offset + 4 =>
              Store(bytes, buf, offset)[k] = buf[k]
    BY <1>2, <2>1, Stored
  <2>. QED
    BY <2>2 DEF write_uint32, bytes
<1>. QED
  BY <1>1, <1>2

(* An unsigned integer is read back as it was written, wherever it is in    *)
(* the buffer (write_uint16, write_uint32, read_uint16, read_uint32 of      *)
(* io_utils.cpp).                                                           *)
THEOREM UnsignedReadBack ==
    ASSUME NEW buf \in Buffer, NEW offset \in Nat
    PROVE  /\ \A v \in UInt16 :
                 offset + 2 <= Len(buf) => read_uint16(write_uint16(v, buf, offset), offset) = v
           /\ \A v \in UInt32 :
                 offset + 4 <= Len(buf) => read_uint32(write_uint32(v, buf, offset), offset) = v
<1>1. ASSUME NEW v \in UInt16, offset + 2 <= Len(buf)
      PROVE  read_uint16(write_uint16(v, buf, offset), offset) = v
  <2> DEFINE bytes == uint16_bytes(v)  new == Store(bytes, buf, offset)
  <2>1. bytes \in Buffer /\ Len(bytes) = 2 /\ bytes[1] + 256 * bytes[2] = v
    BY SMT, Digits16
  <2>2. \A k \in 1 .. Len(bytes) : new[offset + k] = bytes[k]
    <3>1. offset + Len(bytes) <= Len(buf)
      BY <1>1, <2>1
    <3>2. bytes \in Buffer
      BY <2>1
    <3> HIDE DEF bytes
    <3>. QED
      BY <3>1, <3>2, Stored
  <2> HIDE DEF bytes, new
  <2>3. /\ new[offset + 1] = bytes[1]
        /\ new[offset + 2] = bytes[2]
    BY SMT, <2>1, <2>2
  <2>4. read_uint16(new, offset) = v
    BY <2>1, <2>3 DEF read_uint16
  <2>. QED
    BY <2>4 DEF new, bytes, write_uint16
<1>2. ASSUME NEW v \in UInt32, offset + 4 <= Len(buf)
      PROVE  read_uint32(write_uint32(v, buf, offset), offset) = v
  <2> DEFINE bytes == uint32_bytes(v)  new == Store(bytes, buf, offset)
  <2>1. /\ bytes \in Buffer /\ Len(bytes) = 4
        /\ bytes[1] + 256 * bytes[2] + 65536 * bytes[3] + 16777216 * bytes[4] = v
    BY SMT, Digits32
  <2>2. \A k \in 1 .. Len(bytes) : new[offset + k] = bytes[k]
    <3>1. offset + Len(bytes) <= Len(buf)
      BY <1>2, <2>1
    <3>2. bytes \in Buffer
      BY <2>1
    <3> HIDE DEF bytes
    <3>. QED
      BY <3>1, <3>2, Stored
  <2> HIDE DEF bytes, new
  <2>3. /\ new[offset + 1] = bytes[1]
        /\ new[offset + 2] = bytes[2]
        /\ new[offset + 3] = bytes[3]
        /\ new[offset + 4] = bytes[4]
    BY SMT, <2>1, <2>2
  <2>4. read_uint32(new, offset) = v
    BY <2>1, <2>3 DEF read_uint32
  <2>. QED
    BY <2>4 DEF new, bytes, write_uint32
<1>. QED
  BY SMT, <1>1, <1>2

(* The same for signed integers, whose sign is lost in write_int16() and    *)
(* write_int32() and comes back in read_int16() and read_int32().           *)
THEOREM SignedReadBack ==
    ASSUME NEW buf \in Buffer, NEW offset \in Nat
    PROVE  /\ \A v \in Int16 :
                 offset + 2 <= Len(buf) => read_int16(write_int16(v, buf, offset), offset) = v
           /\ \A v \in Int32 :
                 offset + 4 <= Len(buf) => read_int32(write_int32(v, buf, offset), offset) = v
<1>1. ASSUME NEW v \in Int16, offset + 2 <= Len(buf)
      PROVE  read_int16(write_int16(v, buf, offset), offset) = v
  <2> DEFINE u == v % 65536
  <2>0. v \in Int /\ -32768 <= v /\ v < 32768
    BY SMT DEF Int16
  <2>1. /\ u \in UInt16 /\ u \in Nat
        /\ v >= 0 => u = v
        /\ v < 0 => u = v + 65536
    <3>1. u \in Nat /\ u < 65536
      BY SMT, <2>0
    <3>2. v >= 0 => u = v
      BY SMT, <2>0
    <3>3. v < 0 => u = v + 65536
      BY SMT, <2>0
    <3>. QED
      <4> HIDE DEF u
      <4>. QED
        BY SMT, <3>1, <3>2, <3>3 DEF UInt16
  <2>2. read_uint16(write_int16(v, buf, offset), offset) = u
    <3>1. write_int16(v, buf, offset) = write_uint16(u, buf, offset)
      BY DEF write_int16
    <3> HIDE DEF u
    <3>. QED
      BY <1>1, <2>1, <3>1, UnsignedReadBack
  <2> HIDE DEF u
  <2>. QED
    BY SMT, <2>0, <2>1, <2>2 DEF read_int16
<1>2. ASSUME NEW v \in Int32, offset + 4 <= Len(buf)
      PROVE  read_int32(write_int32(v, buf, offset), offset) = v
  <2> DEFINE u == v % 4294967296
  <2>0. v \in Int /\ -2147483648 <= v /\ v < 2147483648
    BY SMT DEF Int32
  <2>1. /\ u \in UInt32 /\ u \in Nat
        /\ v >= 0 => u = v
        /\ v < 0 => u = v + 4294967296
    <3>1. u \in Nat /\ u < 4294967296
      BY SMT, <2>0
    <3>2. v >= 0 => u = v
      BY SMT, <2>0
    <3>3. v < 0 => u = v + 4294967296
      BY SMT, <2>0
    <3>. QED
      <4> HIDE DEF u
      <4>. QED
        BY SMT, <3>1, <3>2, <3>3 DEF UInt32
  <2>2. read_uint32(write_int32(v, buf, offset), offset) = u
    <3>1. write_int32(v, buf, offset) = write_uint32(u, buf, offset)
      BY DEF write_int32
    <3> HIDE DEF u
    <3>. QED
      BY <1>2, <2>1, <3>1, UnsignedReadBack
  <2> HIDE DEF u
  <2>. QED
    BY SMT, <2>0, <2>1, <2>2 DEF read_int32
<1>. QED
  BY SMT, <1>1, <1>2

-----------------------------------------------------------------------------
(* A channel that begins in the middle of a byte, with the rest of it in    *)
(* one or two more.                                                         *)
LEMMA OneMore ==
    ASSUME NEW x \in Byte, NEW y \in Byte
    PROVE  /\ (x + 256 * y) % 2048 = x + 256 * (y % 8)
           /\ (x \div 8 + 32 * y) % 2048 = x \div 8 + 32 * (y % 64)
           /\ (x \div 2 + 128 * y) % 2048 = x \div 2 + 128 * (y % 16)
           /\ (x \div 16 + 16 * y) % 2048 = x \div 16 + 16 * (y % 128)
           /\ (x \div 4 + 64 * y) % 2048 = x \div 4 + 64 * (y % 32)
           /\ (x \div 32 + 8 * y) % 2048 = x \div 32 + 8 * y
<1> x \in 0 .. 255 /\ y \in 0 .. 255
  BY DEF Byte
<1>1. (x + 256 * y) % 2048 = x + 256 * (y % 8)
  BY SMT
<1>2. (x \div 8 + 32 * y) % 2048 = x \div 8 + 32 * (y % 64)
  BY SMT
<1>3. (x \div 2 + 128 * y) % 2048 = x \div 2 + 128 * (y % 16)
  BY SMT
<1>4. (x \div 16 + 16 * y) % 2048 = x \div 16 + 16 * (y % 128)
  BY SMT
<1>5. (x \div 4 + 64 * y) % 2048 = x \div 4 + 64 * (y % 32)
  BY SMT
<1>6. (x \div 32 + 8 * y) % 2048 = x \div 32 + 8 * y
  BY SMT
<1>. QED
  BY <1>1, <1>2, <1>3, <1>4, <1>5, <1>6

LEMMA TwoMore ==
    ASSUME NEW x \in Byte, NEW y \in Byte, NEW z \in Byte
    PROVE  /\ (x \div 64 + 4 * y + 1024 * z) % 2048 = x \div 64 + 4 * y + 1024 * (z % 2)
           /\ (x \div 128 + 2 * y + 512 * z) % 2048 = x \div 128 + 2 * y + 512 * (z % 4)
<1> x \in 0 .. 255 /\ y \in 0 .. 255 /\ z \in 0 .. 255
  BY DEF Byte
<1>1. (x \div 64 + 4 * y + 1024 * z) % 2048 = x \div 64 + 4 * y + 1024 * (z % 2)
  BY SMT
<1>2. (x \div 128 + 2 * y + 512 * z) % 2048 = x \div 128 + 2 * y + 512 * (z % 4)
  BY SMT
<1>. QED
  BY <1>1, <1>2

(* What is in a buffer is a byte.                                           *)
LEMMA ByteOf ==
    ASSUME NEW buf \in Buffer, NEW k \in Nat, 1 <= k, k <= Len(buf)
    PROVE  buf[k] \in Byte
  BY DEF Buffer

(* The number whose digits, the lowest first, are the eight channels, to    *)
(* base 2048; and the one whose digits are the eleven bytes, to base 256.   *)
ChannelNumber(c) ==
    c[1] + 2048 * (c[2] + 2048 * (c[3] + 2048 * (c[4] + 2048 *
    (c[5] + 2048 * (c[6] + 2048 * (c[7] + 2048 * c[8]))))))
ByteNumber(buf, at) ==
    buf[at + 1] + 256 * (buf[at + 2] + 256 * (buf[at + 3] + 256 * (buf[at + 4] + 256 *
    (buf[at + 5] + 256 * (buf[at + 6] + 256 * (buf[at + 7] + 256 * (buf[at + 8] + 256 *
    (buf[at + 9] + 256 * (buf[at + 10] + 256 * buf[at + 11])))))))))

(* What is masked with 0x07FF has eleven bits.                              *)
LEMMA ElevenBits ==
    ASSUME NEW x \in Nat
    PROVE  x % 2048 \in UInt11
  BY SMT DEF UInt11

(* The eight channels are the eleven bytes: a number written with the       *)
(* bytes as its digits to base 256 has the channels as its digits to base   *)
(* 2048, so every bit is in exactly one channel, at its place               *)
(* (SBUS_RC::read, with shifts, masks and offsets that differ for every     *)
(* channel; channels 8 to 15 are the same eleven bytes further on).         *)
THEOREM ChannelsAreTheBytes ==
    ASSUME NEW buf \in Buffer, NEW at \in Nat, at + 11 <= Len(buf)
    PROVE  /\ ChannelNumber(Channels(buf, at)) = ByteNumber(buf, at)
           /\ \A n \in 1 .. 8 : Channels(buf, at)[n] \in UInt11
<1> DEFINE b0 == buf[at + 1]  b1 == buf[at + 2]  b2 == buf[at + 3]  b3 == buf[at + 4]
           b4 == buf[at + 5]  b5 == buf[at + 6]  b6 == buf[at + 7]  b7 == buf[at + 8]
           b8 == buf[at + 9]  b9 == buf[at + 10]  b10 == buf[at + 11]
           c == Channels(buf, at)
<1> DEFINE x1 == b1 % 8  y1 == b1 \div 8  x2 == b2 % 64  y2 == b2 \div 64
           x4 == b4 % 2  y4 == b4 \div 2  x5 == b5 % 16  y5 == b5 \div 16
           x6 == b6 % 128  y6 == b6 \div 128  x8 == b8 % 4  y8 == b8 \div 4
           x9 == b9 % 32  y9 == b9 \div 32
<1>1. /\ b0 \in Byte /\ b1 \in Byte /\ b2 \in Byte /\ b3 \in Byte /\ b4 \in Byte /\ b5 \in Byte
      /\ b6 \in Byte /\ b7 \in Byte /\ b8 \in Byte /\ b9 \in Byte /\ b10 \in Byte
  BY ByteOf
<1>2. c = << (b0 + 256 * b1) % 2048,
             (b1 \div 8 + 32 * b2) % 2048,
             (b2 \div 64 + 4 * b3 + 1024 * b4) % 2048,
             (b4 \div 2 + 128 * b5) % 2048,
             (b5 \div 16 + 16 * b6) % 2048,
             (b6 \div 128 + 2 * b7 + 512 * b8) % 2048,
             (b8 \div 4 + 64 * b9) % 2048,
             (b9 \div 32 + 8 * b10) % 2048 >>
  BY SMT DEF Channels
<1> HIDE DEF b0, b1, b2, b3, b4, b5, b6, b7, b8, b9, b10, c
<1>3. /\ c[1] = (b0 + 256 * b1) % 2048
      /\ c[2] = (b1 \div 8 + 32 * b2) % 2048
      /\ c[3] = (b2 \div 64 + 4 * b3 + 1024 * b4) % 2048
      /\ c[4] = (b4 \div 2 + 128 * b5) % 2048
      /\ c[5] = (b5 \div 16 + 16 * b6) % 2048
      /\ c[6] = (b6 \div 128 + 2 * b7 + 512 * b8) % 2048
      /\ c[7] = (b8 \div 4 + 64 * b9) % 2048
      /\ c[8] = (b9 \div 32 + 8 * b10) % 2048
  BY SMT, <1>2
<1>4. /\ c[1] = b0 + 256 * x1
      /\ c[2] = y1 + 32 * x2
      /\ c[3] = y2 + 4 * b3 + 1024 * x4
      /\ c[4] = y4 + 128 * x5
      /\ c[5] = y5 + 16 * x6
      /\ c[6] = y6 + 2 * b7 + 512 * x8
      /\ c[7] = y8 + 64 * x9
      /\ c[8] = y9 + 8 * b10
  BY <1>1, <1>3, OneMore, TwoMore
<1> USE DEF Byte
<1>5. b1 = x1 + 8 * y1 /\ x1 \in 0 .. 7 /\ y1 \in 0 .. 31
  BY SMT, <1>1
<1>6. b2 = x2 + 64 * y2 /\ x2 \in 0 .. 63 /\ y2 \in 0 .. 3
  BY SMT, <1>1
<1>7. b4 = x4 + 2 * y4 /\ x4 \in 0 .. 1 /\ y4 \in 0 .. 127
  BY SMT, <1>1
<1>8. b5 = x5 + 16 * y5 /\ x5 \in 0 .. 15 /\ y5 \in 0 .. 15
  BY SMT, <1>1
<1>9. b6 = x6 + 128 * y6 /\ x6 \in 0 .. 127 /\ y6 \in 0 .. 1
  BY SMT, <1>1
<1>10. b8 = x8 + 4 * y8 /\ x8 \in 0 .. 3 /\ y8 \in 0 .. 63
  BY SMT, <1>1
<1>11. b9 = x9 + 32 * y9 /\ x9 \in 0 .. 31 /\ y9 \in 0 .. 7
  BY SMT, <1>1
<1> HIDE DEF x1, y1, x2, y2, x4, y4, x5, y5, x6, y6, x8, y8, x9, y9
<1>12. c[1] + 2048 * (c[2] + 2048 * (c[3] + 2048 * (c[4] + 2048 *
         (c[5] + 2048 * (c[6] + 2048 * (c[7] + 2048 * c[8]))))))
       = b0 + 256 * (b1 + 256 * (b2 + 256 * (b3 + 256 * (b4 + 256 * (b5 + 256 *
         (b6 + 256 * (b7 + 256 * (b8 + 256 * (b9 + 256 * b10)))))))))
  BY SMT, <1>1, <1>4, <1>5, <1>6, <1>7, <1>8, <1>9, <1>10, <1>11
<1>13. ChannelNumber(c) = ByteNumber(buf, at)
  BY SMT, <1>12 DEF ChannelNumber, ByteNumber, b0, b1, b2, b3, b4, b5, b6, b7, b8, b9, b10
<1>14. \A n \in 1 .. 8 : c[n] \in UInt11
  <2> DEFINE e1 == b0 + 256 * b1
             e2 == b1 \div 8 + 32 * b2
             e3 == b2 \div 64 + 4 * b3 + 1024 * b4
             e4 == b4 \div 2 + 128 * b5
             e5 == b5 \div 16 + 16 * b6
             e6 == b6 \div 128 + 2 * b7 + 512 * b8
             e7 == b8 \div 4 + 64 * b9
             e8 == b9 \div 32 + 8 * b10
  <2>1. e1 \in Nat /\ e2 \in Nat /\ e4 \in Nat /\ e5 \in Nat
    BY SMT, <1>1
  <2>2. e3 \in Nat /\ e6 \in Nat
    BY SMT, <1>1
  <2>3. e7 \in Nat /\ e8 \in Nat
    BY SMT, <1>1
  <2>4. /\ c[1] = e1 % 2048 /\ c[2] = e2 % 2048 /\ c[3] = e3 % 2048 /\ c[4] = e4 % 2048
        /\ c[5] = e5 % 2048 /\ c[6] = e6 % 2048 /\ c[7] = e7 % 2048 /\ c[8] = e8 % 2048
    BY <1>3
  <2> HIDE DEF c, e1, e2, e3, e4, e5, e6, e7, e8
  <2>5. /\ c[1] \in UInt11 /\ c[2] \in UInt11 /\ c[3] \in UInt11 /\ c[4] \in UInt11
        /\ c[5] \in UInt11 /\ c[6] \in UInt11 /\ c[7] \in UInt11 /\ c[8] \in UInt11
    BY <2>1, <2>2, <2>3, <2>4, ElevenBits
  <2>. QED
    BY SMT, <2>5
<1>. QED
  BY <1>13, <1>14 DEF c

(* The four sticks and the two switches of a DBUS receiver are its first    *)
(* six bytes (DBUS_RC::read).                                               *)
THEOREM SticksAreTheBytes ==
    ASSUME NEW buf \in Buffer, NEW at \in Nat, at + 11 <= Len(buf)
    PROVE  LET c == DBUS_sticks(buf, at)
           IN c[1] + 2048 * (c[2] + 2048 * (c[3] + 2048 * (c[4] + 2048 *
                (right_switch(buf, at) + 4 * left_switch(buf, at)))))
              = buf[at + 1] + 256 * (buf[at + 2] + 256 * (buf[at + 3] + 256 * (buf[at + 4] + 256 *
                (buf[at + 5] + 256 * buf[at + 6]))))
<1> DEFINE b0 == buf[at + 1]  b1 == buf[at + 2]  b2 == buf[at + 3]  b3 == buf[at + 4]
           b4 == buf[at + 5]  b5 == buf[at + 6]
           d == Channels(buf, at)  c == DBUS_sticks(buf, at)
<1> DEFINE x1 == b1 % 8  y1 == b1 \div 8  x2 == b2 % 64  y2 == b2 \div 64
           x4 == b4 % 2  y4 == b4 \div 2
           x5 == b5 % 16  r == (b5 \div 16) % 4  l == (b5 \div 64) % 4
<1>1. /\ b0 \in Byte /\ b1 \in Byte /\ b2 \in Byte /\ b3 \in Byte /\ b4 \in Byte /\ b5 \in Byte
  BY ByteOf
<1>2. c = [n \in 1 .. 4 |-> d[n]]
  BY DEF DBUS_sticks
<1>3. /\ d[1] = (b0 + 256 * b1) % 2048
      /\ d[2] = (b1 \div 8 + 32 * b2) % 2048
      /\ d[3] = (b2 \div 64 + 4 * b3 + 1024 * b4) % 2048
      /\ d[4] = (b4 \div 2 + 128 * b5) % 2048
  BY SMT DEF Channels
<1>4. right_switch(buf, at) = r /\ left_switch(buf, at) = l
  BY DEF right_switch, left_switch
<1> HIDE DEF b0, b1, b2, b3, b4, b5, c, d
<1>5. c[1] = d[1] /\ c[2] = d[2] /\ c[3] = d[3] /\ c[4] = d[4]
  BY SMT, <1>2
<1>6. /\ c[1] = b0 + 256 * x1
      /\ c[2] = y1 + 32 * x2
      /\ c[3] = y2 + 4 * b3 + 1024 * x4
      /\ c[4] = y4 + 128 * x5
  BY <1>1, <1>3, <1>5, OneMore, TwoMore
<1> USE DEF Byte
<1>7. b1 = x1 + 8 * y1 /\ x1 \in 0 .. 7 /\ y1 \in 0 .. 31
  BY SMT, <1>1
<1>8. b2 = x2 + 64 * y2 /\ x2 \in 0 .. 63 /\ y2 \in 0 .. 3
  BY SMT, <1>1
<1>9. b4 = x4 + 2 * y4 /\ x4 \in 0 .. 1 /\ y4 \in 0 .. 127
  BY SMT, <1>1
<1>10. b5 = x5 + 16 * r + 64 * l /\ x5 \in 0 .. 15 /\ r \in 0 .. 3 /\ l \in 0 .. 3
  <2>1. b5 = x5 + 16 * r + 64 * l
    BY SMT, <1>1
  <2>2. x5 \in 0 .. 15
    BY SMT, <1>1
  <2>3. r \in 0 .. 3
    BY SMT, <1>1
  <2>4. l \in 0 .. 3
    BY SMT, <1>1
  <2>. QED
    BY <2>1, <2>2, <2>3, <2>4
<1> HIDE DEF x1, y1, x2, y2, x4, y4, x5, r, l
<1>11. c[1] + 2048 * (c[2] + 2048 * (c[3] + 2048 * (c[4] + 2048 * (r + 4 * l))))
       = b0 + 256 * (b1 + 256 * (b2 + 256 * (b3 + 256 * (b4 + 256 * b5))))
  BY SMT, <1>1, <1>6, <1>7, <1>8, <1>9, <1>10
<1>. QED
  BY <1>4, <1>11 DEF b0, b1, b2, b3, b4, b5, c

-----------------------------------------------------------------------------
(* Induction over the natural numbers, for a set in place of a predicate.   *)
LEMMA SetHoldsAll ==
    ASSUME NEW T, 0 \in T, \A n \in Nat : n \in T => n + 1 \in T
    PROVE  \A n \in Nat : n \in T
<1> DEFINE less == OpToRel(<, Nat)
           rest == {n \in Nat : n \notin T}
<1> SUFFICES ASSUME rest # {}
             PROVE  FALSE
  OBVIOUS
<1>1. IsWellFoundedOn(less, Nat) /\ rest \subseteq Nat
  BY NatLessThanWellFounded
<1>2. PICK n \in rest : \A m \in rest : ~(<< m, n >> \in less)
  <2> HIDE DEF less, rest
  <2>. QED
    BY <1>1, WFMin, Zenon
<1>3. n \in Nat /\ n # 0
  OBVIOUS
<1>4. n - 1 \in Nat /\ n - 1 < n /\ (n - 1) + 1 = n
  BY SMT, <1>3
<1>5. << n - 1, n >> \in less
  BY <1>3, <1>4 DEF OpToRel
<1>6. n - 1 \in T
  BY <1>2, <1>4, <1>5
<1>. QED
  BY <1>4, <1>6

-----------------------------------------------------------------------------
(* pow2: the recursive definition has a solution, and what it says.         *)
ArePowers(f, n) == f = [e \in 0 .. n |-> IF e = 0 THEN 1 ELSE 2 * f[e - 1]]

LEMMA OnePowerMore ==
    ASSUME NEW n \in Nat, NEW f, ArePowers(f, n)
    PROVE  \E g : ArePowers(g, n + 1)
<1> DEFINE g == [e \in 0 .. n + 1 |-> IF e = n + 1 THEN 2 * f[n] ELSE f[e]]
<1>1. ASSUME NEW e \in 0 .. n + 1
      PROVE  g[e] = IF e = 0 THEN 1 ELSE 2 * g[e - 1]
  <2>1. CASE e = n + 1
    <3>1. e # 0 /\ e - 1 = n /\ n \in 0 .. n + 1 /\ n # n + 1
      BY SMT, <2>1
    <3>2. g[e] = 2 * f[n] /\ g[n] = f[n]
      BY <2>1, <3>1
    <3>. QED
      BY <3>1, <3>2
  <2>2. CASE e # n + 1
    <3>1. e \in 0 .. n
      BY SMT, <2>2
    <3>2. g[e] = f[e]
      BY <2>2
    <3>3. f[e] = IF e = 0 THEN 1 ELSE 2 * f[e - 1]
      BY <3>1 DEF ArePowers
    <3>4. CASE e = 0
      BY <3>2, <3>3, <3>4
    <3>5. CASE e # 0
      <4>1. e - 1 \in 0 .. n + 1 /\ e - 1 # n + 1
        BY SMT, <3>1, <3>5
      <4>2. g[e - 1] = f[e - 1]
        BY <4>1
      <4>. QED
        BY <3>2, <3>3, <3>5, <4>2
    <3>. QED
      BY <3>4, <3>5
  <2>. QED
    BY <2>1, <2>2
<1>2. g = [e \in 0 .. n + 1 |-> g[e]]
  OBVIOUS
<1>3. [e \in 0 .. n + 1 |-> g[e]] = [e \in 0 .. n + 1 |-> IF e = 0 THEN 1 ELSE 2 * g[e - 1]]
  <2> HIDE DEF g
  <2>. QED
    BY <1>1, Zenon
<1> HIDE DEF g
<1>. QED
  BY <1>2, <1>3, Zenon DEF ArePowers

LEMMA PowersExist == \E f : ArePowers(f, 300)
<1> DEFINE T == {n \in Nat : \E f : ArePowers(f, n)}
<1>1. 0 \in T
  <2> DEFINE f == [e \in 0 .. 0 |-> 1]
  <2>1. \A e \in 0 .. 0 : e = 0
    BY SMT
  <2>2. f = [e \in 0 .. 0 |-> IF e = 0 THEN 1 ELSE 2 * f[e - 1]]
    BY <2>1
  <2>3. ArePowers(f, 0)
    BY <2>2 DEF ArePowers
  <2>. QED
    BY <2>3
<1>2. \A n \in Nat : n \in T => n + 1 \in T
  BY OnePowerMore
<1> HIDE DEF T
<1>3. 300 \in T
  BY <1>1, <1>2, SetHoldsAll
<1>. QED
  BY <1>3 DEF T

LEMMA PowersAre == pow2[0] = 1 /\ \A e \in 1 .. 300 : pow2[e] = 2 * pow2[e - 1]
<1>1. \E f : f = [e \in 0 .. 300 |-> IF e = 0 THEN 1 ELSE 2 * f[e - 1]]
  BY PowersExist DEF ArePowers
<1>2. pow2 = [e \in 0 .. 300 |-> IF e = 0 THEN 1 ELSE 2 * pow2[e - 1]]
  BY <1>1, Zenon DEF pow2
<1>3. \A e \in 0 .. 300 : pow2[e] = IF e = 0 THEN 1 ELSE 2 * pow2[e - 1]
  BY <1>2, Zenon
<1>4. 0 \in 0 .. 300 /\ \A e \in 1 .. 300 : e \in 0 .. 300 /\ e # 0
  BY SMT
<1>. QED
  BY <1>3, <1>4, Zenon

LEMMA PowersArePositive == \A e \in 0 .. 300 : pow2[e] \in Nat /\ pow2[e] >= 1
<1> DEFINE T == {n \in Nat : n <= 300 => pow2[n] \in Nat /\ pow2[n] >= 1}
<1>1. 0 \in T
  BY PowersAre
<1>2. ASSUME NEW n \in Nat, n \in T
      PROVE  n + 1 \in T
  <2>1. SUFFICES ASSUME n + 1 <= 300
                 PROVE  pow2[n + 1] \in Nat /\ pow2[n + 1] >= 1
    OBVIOUS
  <2>2. pow2[n] \in Nat /\ pow2[n] >= 1
    BY <1>2, <2>1
  <2>3. pow2[n + 1] = 2 * pow2[n]
    BY <2>1, PowersAre
  <2>. QED
    BY <2>2, <2>3
<1> HIDE DEF T
<1>3. \A n \in Nat : n \in T
  BY <1>1, <1>2, SetHoldsAll
<1>. QED
  BY <1>3 DEF T

LEMMA PowersGrow ==
    ASSUME NEW m \in 0 .. 300, NEW n \in 0 .. 300, m <= n
    PROVE  pow2[m] <= pow2[n]
<1> DEFINE T == {k \in Nat : m <= k /\ k <= 300 => pow2[m] <= pow2[k]}
<1>1. 0 \in T
  BY PowersArePositive
<1>2. ASSUME NEW k \in Nat, k \in T
      PROVE  k + 1 \in T
  <2>1. SUFFICES ASSUME m <= k + 1, k + 1 <= 300
                 PROVE  pow2[m] <= pow2[k + 1]
    OBVIOUS
  <2>2. CASE m = k + 1
    BY <2>2, PowersArePositive
  <2>3. CASE m <= k
    <3>1. pow2[m] <= pow2[k]
      BY <1>2, <2>1, <2>3
    <3>2. pow2[k + 1] = 2 * pow2[k]
      BY <2>1, PowersAre
    <3>3. k \in 0 .. 300
      BY <2>1
    <3>4. pow2[m] \in Nat /\ pow2[k] \in Nat
      BY <3>3, PowersArePositive, Zenon
    <3>. QED
      BY <3>1, <3>2, <3>4
  <2>. QED
    BY <2>1, <2>2, <2>3
<1> HIDE DEF T
<1>3. \A k \in Nat : k \in T
  BY <1>1, <1>2, SetHoldsAll
<1>. QED
  BY <1>3 DEF T

LEMMA NextPower ==
    ASSUME NEW k \in 0 .. 299, NEW n \in Int, n = k + 1
    PROVE  pow2[k] \in Nat /\ pow2[n] \in Nat /\ pow2[n] = 2 * pow2[k]
<1>1. k \in 0 .. 300 /\ n \in 0 .. 300 /\ n \in 1 .. 300 /\ n - 1 = k
  BY SMT
<1>. QED
  BY <1>1, PowersAre, PowersArePositive

LEMMA FourPowersOn ==
    ASSUME NEW k \in 0 .. 290, NEW n \in Int, n = k + 4
    PROVE  pow2[k] \in Nat /\ pow2[n] = 16 * pow2[k]
<1>1. k \in 0 .. 299 /\ k + 1 \in 0 .. 299 /\ k + 2 \in 0 .. 299 /\ k + 3 \in 0 .. 299
      /\ k + 2 = (k + 1) + 1 /\ k + 3 = (k + 2) + 1 /\ n = (k + 3) + 1
      /\ k + 1 \in Int /\ k + 2 \in Int /\ k + 3 \in Int
  BY SMT
<1>2. pow2[k] \in Nat /\ pow2[k + 1] = 2 * pow2[k]
  BY <1>1, NextPower, Zenon
<1>3. pow2[k + 2] = 2 * pow2[k + 1]
  BY <1>1, NextPower, Zenon
<1>4. pow2[k + 3] = 2 * pow2[k + 2]
  BY <1>1, NextPower, Zenon
<1>5. pow2[n] = 2 * pow2[k + 3]
  BY <1>1, NextPower, Zenon
<1>. QED
  BY <1>2, <1>3, <1>4, <1>5

LEMMA PowersOnwards ==
    ASSUME NEW e \in 0 .. 253
    PROVE  /\ pow2[e + 7] = 128 * pow2[e]
           /\ pow2[e + 14] = 16384 * pow2[e]
           /\ pow2[e + 16] = 65536 * pow2[e]
<1>1. /\ e \in 0 .. 290 /\ e + 4 \in 0 .. 290 /\ e + 8 \in 0 .. 290 /\ e + 12 \in 0 .. 290
      /\ e + 8 = (e + 4) + 4 /\ e + 12 = (e + 8) + 4 /\ e + 16 = (e + 12) + 4
      /\ e + 4 \in Int /\ e + 8 \in Int /\ e + 12 \in Int /\ e + 16 \in Int
  BY SMT
<1>2. /\ e + 7 \in 0 .. 299 /\ e + 14 \in 0 .. 299 /\ e + 15 \in 0 .. 299
      /\ e + 8 = (e + 7) + 1 /\ e + 15 = (e + 14) + 1 /\ e + 16 = (e + 15) + 1
      /\ e + 8 \in Int /\ e + 15 \in Int /\ e + 16 \in Int
  BY SMT
<1>3. pow2[e] \in Nat /\ pow2[e + 4] = 16 * pow2[e]
  BY <1>1, FourPowersOn, Zenon
<1>4. pow2[e + 8] = 16 * pow2[e + 4]
  BY <1>1, FourPowersOn, Zenon
<1>5. pow2[e + 12] = 16 * pow2[e + 8]
  BY <1>1, FourPowersOn, Zenon
<1>6. pow2[e + 16] = 16 * pow2[e + 12]
  BY <1>1, FourPowersOn, Zenon
<1>7. pow2[e + 7] \in Nat /\ pow2[e + 8] = 2 * pow2[e + 7]
  BY <1>2, NextPower, Zenon
<1>8. pow2[e + 14] \in Nat /\ pow2[e + 15] = 2 * pow2[e + 14]
  BY <1>2, NextPower, Zenon
<1>9. pow2[e + 16] = 2 * pow2[e + 15]
  BY <1>2, NextPower, Zenon
<1>. QED
  BY <1>3, <1>4, <1>5, <1>6, <1>7, <1>8, <1>9

-----------------------------------------------------------------------------
(* The floats that the proofs below compare a rounded value with.           *)
LEMMA UnitIsPositive == Unit \in Nat /\ Unit >= 1
<1>1. 149 \in 0 .. 300
  BY SMT
<1>. QED
  BY <1>1, PowersArePositive, Zenon DEF Unit

LEMMA FloatPowers ==
    ASSUME NEW e \in 0 .. 253
    PROVE  pow2[e] \in Nat /\ pow2[e] >= 1
<1>1. e \in 0 .. 300
  BY SMT
<1>. QED
  BY <1>1, PowersArePositive, Zenon

LEMMA FloatsAreIntegers == Float32 \subseteq Int
BY DEF Float32

LEMMA FloatMember ==
    ASSUME NEW m \in Mantissas, NEW e \in 0 .. 253
    PROVE  m * pow2[e] \in Float32
<1>1. m \in Int
  BY SMT DEF Mantissas
<1>2. m * pow2[e] \in Int
  <2>1. pow2[e] \in Nat
    BY FloatPowers, Zenon
  <2>. QED
    BY SMT, <1>1, <2>1
<1>. QED
  BY <1>2, Zenon DEF Float32

LEMMA FewBitsAreFloats ==
    ASSUME NEW n \in Mantissas
    PROVE  /\ n \in Float32
           /\ n * Unit \in Float32
<1>1. 0 \in 0 .. 253 /\ 149 \in 0 .. 253 /\ n \in Int
  BY SMT DEF Mantissas
<1>2. n * pow2[0] = n
  <2>1. n * 1 = n
    BY SMT, <1>1
  <2>. QED
    BY <2>1, PowersAre, Zenon
<1>3. n * pow2[0] \in Float32 /\ n * pow2[149] \in Float32
  BY <1>1, FloatMember, Zenon
<1>. QED
  BY <1>2, <1>3, Zenon DEF Unit

LEMMA PowersAreFloats ==
    ASSUME NEW e \in 0 .. 253
    PROVE  pow2[e] \in Float32
<1>1. 1 \in Mantissas
  BY SMT DEF Mantissas
<1>2. pow2[e] = 1 * pow2[e]
  <2>1. pow2[e] \in Nat
    BY FloatPowers, Zenon
  <2>. QED
    BY SMT, <2>1
<1>3. 1 * pow2[e] \in Float32
  BY <1>1, FloatMember, Zenon
<1>. QED
  BY <1>2, <1>3, Zenon

(* Closest: no float is nearer to the exact value than its rounding.        *)
LEMMA Closest ==
    ASSUME NEW fl \in Roundings, NEW a \in Int, NEW den \in Nat, den >= 1
    PROVE  /\ fl[<< a, den >>] \in Float32
           /\ fl[<< a, den >>] \in Int
           /\ \A s \in Float32 :
                 LET r == fl[<< a, den >>]
                     d == r * den - a
                     c == s * den - a
                 IN (IF d < 0 THEN -d ELSE d) <= (IF c < 0 THEN -c ELSE c)
<1> DEFINE v == << a, den >>
<1>1. v \in Fractions /\ v[1] = a /\ v[2] = den
  BY DEF Fractions
<1>2. fl[v] \in Nearest(v)
  BY <1>1 DEF Roundings
<1>3. fl[v] \in Float32 /\ \A s \in Float32 : Distance(fl[v], v) <= Distance(s, v)
  BY <1>2 DEF Nearest
<1>4. fl[v] \in Int
  BY <1>3, FloatsAreIntegers
<1>. QED
  BY <1>1, <1>3, <1>4 DEF Distance

LEMMA RoundedIsInteger ==
    ASSUME NEW fl \in Roundings, NEW a \in Int, NEW den \in Nat, den >= 1
    PROVE  fl[<< a, den >>] \in Int
BY Closest

(* A larger number has the larger multiple.                                 *)
LEMMA TimesGrows ==
    ASSUME NEW p \in Int, NEW q \in Int, NEW n \in Nat
    PROVE  /\ p <= q => p * n <= q * n
           /\ p < q /\ n >= 1 => p * n < q * n
BY SMT

LEMMA RoundingGrows ==
    ASSUME NEW fl \in Roundings, NEW den \in Nat, den >= 1,
           NEW a \in Int, NEW b \in Int, a <= b
    PROVE  fl[<< a, den >>] <= fl[<< b, den >>]
<1> DEFINE r == fl[<< a, den >>]  s == fl[<< b, den >>]
<1>1. r \in Float32 /\ s \in Float32 /\ r \in Int /\ s \in Int
  BY Closest
<1>2. CASE a = b
  BY <1>1, <1>2
<1>3. CASE a < b
  <2> DEFINE x == r * den  y == s * den
  <2>1. x \in Int /\ y \in Int
    BY <1>1
  <2>2. (IF x - a < 0 THEN -(x - a) ELSE x - a) <= (IF y - a < 0 THEN -(y - a) ELSE y - a)
    BY <1>1, Closest
  <2>3. (IF y - b < 0 THEN -(y - b) ELSE y - b) <= (IF x - b < 0 THEN -(x - b) ELSE x - b)
    BY <1>1, Closest
  <2>4. s < r => y < x
    BY <1>1, TimesGrows
  <2> HIDE DEF x, y
  <2>5. x <= y
    BY SMT, <1>3, <2>1, <2>2, <2>3
  <2> HIDE DEF r, s
  <2>6. r <= s
    BY <1>1, <2>1, <2>4, <2>5
  <2>. QED
    BY <2>6 DEF r, s
<1>. QED
  BY <1>2, <1>3

(* An exact value that is a float is not changed.                           *)
LEMMA RoundingKeeps ==
    ASSUME NEW fl \in Roundings, NEW den \in Nat, den >= 1, NEW s \in Float32
    PROVE  fl[<< s * den, den >>] = s
<1> DEFINE a == s * den  r == fl[<< a, den >>]  x == r * den
<1>1. s \in Int /\ a \in Int
  BY FloatsAreIntegers
<1>2. r \in Int
  BY <1>1, Closest
<1>3. x \in Int
  BY <1>2
<1>4. (IF x - a < 0 THEN -(x - a) ELSE x - a) <= (IF s * den - a < 0 THEN -(s * den - a) ELSE s * den - a)
  BY <1>1, Closest
<1>5. (r < s => x < a) /\ (s < r => a < x)
  BY <1>1, <1>2, TimesGrows
<1>6. s * den - a = 0
  BY <1>1
<1> HIDE DEF a, x
<1>7. x = a
  BY SMT, <1>1, <1>3, <1>4, <1>6
<1> HIDE DEF r
<1>8. r = s
  BY <1>1, <1>2, <1>3, <1>5, <1>7
<1>. QED
  BY <1>8 DEF r, a

(* Every exact value has a nearest float, so there are roundings.           *)
LEMMA RoundingsExist == Roundings # {}
<1>1. ASSUME NEW v \in Fractions
      PROVE  Nearest(v) # {}
  <2> DEFINE D == {Distance(s, v) : s \in Float32}
             less == OpToRel(<, Nat)
  <2>1. v[1] \in Int /\ v[2] \in Int
    BY DEF Fractions
  <2>2. \A s \in Float32 : Distance(s, v) \in Nat
    BY <2>1, FloatsAreIntegers DEF Distance
  <2>3. 0 \in Float32
    <3>1. 0 \in Mantissas
      BY SMT DEF Mantissas
    <3>. QED
      BY <3>1, FewBitsAreFloats, Zenon
  <2>4. D \subseteq Nat /\ D # {}
    BY <2>2, <2>3
  <2>5. PICK n \in D : \A m \in D : ~(<< m, n >> \in less)
    <3>1. IsWellFoundedOn(less, Nat)
      BY NatLessThanWellFounded
    <3> HIDE DEF less, D
    <3>. QED
      BY <2>4, <3>1, WFMin, Zenon
  <2>6. PICK s \in Float32 : n = Distance(s, v)
    OBVIOUS
  <2>7. ASSUME NEW u \in Float32
        PROVE  Distance(s, v) <= Distance(u, v)
    <3>1. Distance(u, v) \in D /\ Distance(u, v) \in Nat /\ n \in Nat
      BY <2>2, <2>6
    <3>2. ~(<< Distance(u, v), n >> \in less)
      BY <2>5, <3>1
    <3>3. ~(Distance(u, v) < n)
      BY <3>1, <3>2 DEF OpToRel
    <3>. QED
      BY <2>6, <3>1, <3>3
  <2>. QED
    BY <2>7 DEF Nearest
<1> DEFINE fl == [v \in Fractions |-> CHOOSE r \in Float32 : r \in Nearest(v)]
<1>2. \A v \in Fractions : fl[v] \in Float32 /\ fl[v] \in Nearest(v)
  <2>1. \A v \in Fractions : \E r \in Float32 : r \in Nearest(v)
    BY <1>1 DEF Nearest
  <2>. QED
    BY <2>1
<1>3. fl \in [Fractions -> Float32]
  BY <1>2
<1> HIDE DEF fl
<1>. QED
  BY <1>2, <1>3 DEF Roundings

-----------------------------------------------------------------------------
Factors == {1, 128, 16384, 65536}

(* Halfway: beside every product of a positive float and a number of at     *)
(* most 16 bits there is a float less than half of the first factor away,   *)
(* the product without its lowest bits.                                     *)
LEMMA BitsDropped ==
    ASSUME NEW m \in Mantissas, m >= 1, NEW steps \in UInt16, NEW f \in Factors,
           f = 1 => m <= 256,
           f = 128 => 256 < m /\ m <= 32768,
           f = 16384 => 32768 < m /\ m <= 4194304,
           f = 65536 => 4194304 < m
    PROVE  \E j \in Mantissas : /\ j \in Nat
                                 /\ j * f <= m * steps
                                 /\ 2 * (m * steps - j * f) < m
<1>1. m \in Nat /\ m < 16777216 /\ steps \in Nat /\ steps < 65536
  BY SMT DEF Mantissas, UInt16
<1>2. f \in Nat /\ f >= 1
  BY SMT DEF Factors
<1> DEFINE n == m * steps  j == n \div f
<1>3. n \in Nat /\ n <= 65535 * m
  BY SMT, <1>1
<1> HIDE DEF n
<1>4. j \in Nat /\ j * f <= n /\ n < j * f + f /\ (f = 1 => j * f = n)
  BY SMT, <1>2, <1>3
<1> HIDE DEF j
<1>5. j < 16777216 /\ 2 * (n - j * f) < m
  <2>1. CASE f = 1
    BY SMT, <1>1, <1>3, <1>4, <2>1
  <2>2. CASE f = 128
    BY SMT, <1>1, <1>3, <1>4, <2>2
  <2>3. CASE f = 16384
    BY SMT, <1>1, <1>3, <1>4, <2>3
  <2>4. CASE f = 65536
    BY SMT, <1>1, <1>3, <1>4, <2>4
  <2>. QED
    BY SMT, <2>1, <2>2, <2>3, <2>4 DEF Factors
<1>6. j \in Mantissas
  BY SMT, <1>4, <1>5 DEF Mantissas
<1>. QED
  BY SMT, <1>4, <1>5, <1>6 DEF n

(* A smaller power of two has the smaller exponent.                         *)
LEMMA SmallerExponent ==
    ASSUME NEW e \in 0 .. 299, NEW n \in 0 .. 299, pow2[e] <= pow2[n]
    PROVE  e <= n
<1> SUFFICES ASSUME n + 1 <= e
             PROVE  FALSE
  BY SMT
<1>1. n + 1 \in 0 .. 300 /\ e \in 0 .. 300 /\ n \in 0 .. 300 /\ n + 1 \in Int
  BY SMT
<1>2. pow2[n] \in Nat /\ pow2[n] >= 1
  BY <1>1, PowersArePositive, Zenon
<1>3. pow2[n + 1] \in Nat /\ pow2[n + 1] = 2 * pow2[n]
  BY <1>1, NextPower, Zenon
<1>4. pow2[n + 1] <= pow2[e]
  BY <1>1, PowersGrow, Zenon
<1>5. pow2[e] \in Nat
  BY <1>1, PowersArePositive, Zenon
<1>. QED
  BY SMT, <1>2, <1>3, <1>4, <1>5

(* A power of two up to the largest one is one of those floats are made of. *)
LEMMA SmallPower ==
    ASSUME NEW e \in 0 .. 270, pow2[e] <= pow2[253]
    PROVE  e \in 0 .. 253
<1>1. PICK n \in 0 .. 299 : n = 253
  BY SMT
<1>2. e \in 0 .. 299
  BY SMT
<1>3. pow2[e] <= pow2[n]
  BY <1>1
<1>4. e <= n
  BY <1>2, <1>3, SmallerExponent, Zenon
<1>. QED
  BY SMT, <1>1, <1>4

LEMMA FloatNearby ==
    ASSUME NEW span \in Float32, span >= 1, span <= pow2[253],
           NEW steps \in UInt16
    PROVE  \E s \in Float32 : s <= span * steps /\ 2 * (span * steps - s) < span
<1>1. PICK m \in Mantissas, e \in 0 .. 253 : span = m * pow2[e]
  BY Zenon DEF Float32
<1> DEFINE t == pow2[e]
<1>2. t \in Nat /\ t >= 1
  BY FloatPowers
<1>3. m \in Nat /\ m >= 1
  <2>1. m \in Int
    BY SMT DEF Mantissas
  <2>2. m <= 0 => m * t <= 0
    BY SMT, <1>2, <2>1
  <2>. QED
    BY SMT, <1>1, <2>1, <2>2
<1>4. PICK f \in Factors :
         /\ f = 1 => m <= 256
         /\ f = 128 => 256 < m /\ m <= 32768
         /\ f = 16384 => 32768 < m /\ m <= 4194304
         /\ f = 65536 => 4194304 < m
  BY SMT, <1>3 DEF Factors
<1>5. PICK j \in Mantissas : j \in Nat /\ j * f <= m * steps /\ 2 * (m * steps - j * f) < m
  <2>1. \E j \in Mantissas : j \in Nat /\ j * f <= m * steps /\ 2 * (m * steps - j * f) < m
    BY SMT, <1>3, <1>4, BitsDropped
  <2>. QED
    BY <2>1
<1>6. f \in Nat /\ steps \in Nat
  BY SMT DEF Factors, UInt16
<1>7. \E d \in 0 .. 253 : pow2[d] = f * t
  <2>1. f = 1 \/ f <= m
    BY SMT, <1>3, <1>4 DEF Factors
  <2>3. f = 1 \/ f * t <= pow2[253]
    <3>1. f <= m => f * t <= m * t
      BY <1>2, <1>3, <1>6, TimesGrows
    <3>2. f * t \in Int /\ m * t \in Int /\ pow2[253] \in Int
      <4>1. 253 \in 0 .. 253
        BY SMT
      <4>2. pow2[253] \in Nat
        BY <4>1, FloatPowers, Zenon
      <4>. QED
        BY SMT, <1>2, <1>3, <1>6, <4>2
    <3>3. m * t <= pow2[253]
      BY <1>1
    <3> HIDE DEF t
    <3>. QED
      BY SMT, <2>1, <3>1, <3>2, <3>3
  <2>4. CASE f = 1
    BY SMT, <1>2, <2>4
  <2>5. CASE f = 128
    <3>1. pow2[e + 7] = f * t /\ e + 7 \in 0 .. 270
      BY <2>5, PowersOnwards
    <3>. QED
      BY SMT, <2>3, <2>5, <3>1, SmallPower
  <2>6. CASE f = 16384
    <3>1. pow2[e + 14] = f * t /\ e + 14 \in 0 .. 270
      BY <2>6, PowersOnwards
    <3>. QED
      BY SMT, <2>3, <2>6, <3>1, SmallPower
  <2>7. CASE f = 65536
    <3>1. pow2[e + 16] = f * t /\ e + 16 \in 0 .. 270
      BY <2>7, PowersOnwards
    <3>. QED
      BY SMT, <2>3, <2>7, <3>1, SmallPower
  <2>. QED
    BY SMT, <2>4, <2>5, <2>6, <2>7 DEF Factors
<1> DEFINE s == j * (f * t)
<1>8. s \in Float32
  BY <1>7, FloatMember
<1> DEFINE a == j * f  b == m * steps
<1>9. a \in Nat /\ b \in Nat
  BY SMT, <1>3, <1>5, <1>6
<1>10. s = a * t /\ span * steps = b * t
  <2> HIDE DEF t
  <2>1. j * (f * t) = (j * f) * t /\ (m * t) * steps = (m * steps) * t
    BY SMT, <1>2, <1>3, <1>5, <1>6
  <2>. QED
    BY <1>1, <2>1 DEF t
<1>11. a * t <= b * t
  BY <1>2, <1>5, <1>9, TimesGrows
<1>12. (2 * (b - a)) * t < m * t
  <2>1. 2 * (b - a) \in Int /\ 2 * (b - a) < m
    BY <1>5, <1>9
  <2> HIDE DEF a, b, t
  <2>. QED
    BY <1>2, <1>3, <2>1, TimesGrows
<1>13. (2 * (b - a)) * t = 2 * (b * t - a * t)
  <2> HIDE DEF a, b, t
  <2>. QED
    BY SMT, <1>2, <1>9
<1>14. s <= span * steps /\ 2 * (span * steps - s) < span
  <2> HIDE DEF a, b, s, t
  <2>1. span = m * t
    BY <1>1 DEF t
  <2>. QED
    BY <1>10, <1>11, <1>12, <1>13, <2>1
<1>. QED
  BY <1>8, <1>14

(* The product of the span and the steps is rounded by less than half a     *)
(* span, so that the quotient is less than one step from the highest count. *)
LEMMA ProductNearby ==
    ASSUME NEW fl \in Roundings, NEW span \in Float32, span >= 1, span <= pow2[253],
           NEW steps \in UInt16
    PROVE  LET p == fl[<< span * steps, 1 >>]
           IN p \in Int /\ 2 * (p - span * steps) < span /\ 2 * (span * steps - p) < span
<1> DEFINE a == span * steps  p == fl[<< a, 1 >>]
<1>1. span \in Int /\ steps \in Int
  BY SMT, FloatsAreIntegers DEF UInt16
<1>2. a \in Int
  BY SMT, <1>1
<1>3. PICK s \in Float32 : s <= a /\ 2 * (a - s) < span
  BY FloatNearby
<1>4. s \in Int
  BY FloatsAreIntegers
<1> HIDE DEF a
<1>5. p \in Int
  BY <1>2, Closest
<1>6. (IF p * 1 - a < 0 THEN -(p * 1 - a) ELSE p * 1 - a)
      <= (IF s * 1 - a < 0 THEN -(s * 1 - a) ELSE s * 1 - a)
  BY <1>2, Closest
<1> HIDE DEF p
<1>7. 2 * (p - a) < span /\ 2 * (a - p) < span
  BY SMT, <1>1, <1>2, <1>3, <1>4, <1>5, <1>6
<1>. QED
  BY <1>5, <1>7 DEF p, a

LEMMA QuotientNearby ==
    ASSUME NEW fl \in Roundings, NEW span \in Nat, span >= 1, NEW steps \in UInt16, NEW p \in Int,
           2 * (p - span * steps) < span, 2 * (span * steps - p) < span
    PROVE  LET q == fl[<< p * Unit, span >>]
           IN q \in Int /\ (steps - 1) * Unit < q /\ q < (steps + 1) * Unit
<1> DEFINE z == p * Unit  q == fl[<< z, span >>]  x == q * span  w == span * Unit
           y == (steps * Unit) * span
<1>1. steps \in Nat /\ Unit \in Nat /\ Unit >= 1
  BY SMT, UnitIsPositive DEF UInt16
<1>2. z \in Int /\ w \in Nat /\ w >= 1 /\ y \in Int
  BY SMT, <1>1
<1>3. steps * Unit \in Float32
  <2>1. steps \in Mantissas
    BY SMT DEF UInt16, Mantissas
  <2>. QED
    BY <2>1, FewBitsAreFloats
<1>4. q \in Int
  BY <1>2, Closest
<1>5. (IF x - z < 0 THEN -(x - z) ELSE x - z) <= (IF y - z < 0 THEN -(y - z) ELSE y - z)
  BY <1>2, <1>3, Closest
<1> HIDE DEF q
<1>6. x \in Int
  BY SMT, <1>4
<1>7. 2 * (z - y) < w /\ 2 * (y - z) < w
  <2> DEFINE a == span * steps  b == 2 * (p - a)  c == 2 * (a - p)
  <2>1. a \in Int
    BY SMT, <1>1
  <2>2. b \in Int /\ c \in Int /\ b < span /\ c < span
    BY <2>1
  <2>3. b * Unit < span * Unit /\ c * Unit < span * Unit
    <3> HIDE DEF b, c
    <3>. QED
      BY <1>1, <2>2, TimesGrows
  <2>4. y = a * Unit
    BY SMT, <1>1
  <2>5. b * Unit = 2 * (z - a * Unit) /\ c * Unit = 2 * (a * Unit - z)
    <3> HIDE DEF a
    <3>. QED
      BY SMT, <1>1, <2>1
  <2>. QED
    BY <2>3, <2>4, <2>5
<1> HIDE DEF x, y, z, w
<1>8. x - y < w /\ y - x < w
  BY SMT, <1>2, <1>5, <1>6, <1>7
<1>9. y = (steps * Unit) * span /\ x = q * span /\ w = Unit * span
  BY SMT, <1>1 DEF x, y, w
<1> DEFINE hi == (steps + 1) * Unit  lo == (steps - 1) * Unit
<1>10. hi \in Int /\ lo \in Int /\ hi * span = y + w /\ lo * span = y - w
  <2> DEFINE u == steps * Unit
  <2>1. hi = u + Unit /\ lo = u - Unit /\ u \in Int
    BY SMT, <1>1
  <2> HIDE DEF u, hi, lo
  <2>2. (u + Unit) * span = u * span + Unit * span /\ (u - Unit) * span = u * span - Unit * span
    BY SMT, <1>1, <2>1
  <2>3. u * span = y
    BY <1>9 DEF u
  <2>. QED
    BY SMT, <1>1, <1>9, <2>1, <2>2, <2>3
<1> HIDE DEF hi, lo
<1>11. hi <= q => hi * span <= q * span
  BY <1>4, <1>10, TimesGrows
<1>12. q <= lo => q * span <= lo * span
  BY <1>4, <1>10, TimesGrows
<1>13. lo < q /\ q < hi
  BY SMT, <1>2, <1>4, <1>6, <1>8, <1>9, <1>10, <1>11, <1>12
<1>. QED
  BY <1>4, <1>13 DEF q, z, lo, hi

(* What a quotient with a positive divisor is, and that it grows.           *)
LEMMA QuotientGrows ==
    ASSUME NEW x \in Nat, NEW y \in Nat, x <= y, NEW d \in Nat, d >= 1
    PROVE  x \div d \in Nat /\ x \div d <= y \div d
<1> DEFINE p == x \div d  q == y \div d
<1>1. p \in Nat /\ p * d <= x /\ x < p * d + d
  BY SMT
<1>2. q \in Nat /\ q * d <= y /\ y < q * d + d
  BY SMT
<1> HIDE DEF p, q
<1>3. q + 1 <= p => (q + 1) * d <= p * d
  BY <1>1, <1>2, TimesGrows
<1>4. (q + 1) * d = q * d + d /\ q * d \in Int /\ p * d \in Int
  BY SMT, <1>1, <1>2
<1>5. p <= q
  BY SMT, <1>1, <1>2, <1>3, <1>4
<1>. QED
  BY <1>1, <1>5 DEF p, q

LEMMA QuotientBetween ==
    ASSUME NEW x \in Nat, NEW n \in Nat, NEW d \in Nat, d >= 1, (n - 1) * d < x, x < (n + 1) * d
    PROVE  x \div d \in {n - 1, n}
<1> DEFINE p == x \div d
<1>1. p \in Nat /\ p * d <= x /\ x < p * d + d
  BY SMT
<1> HIDE DEF p
<1>2. n + 1 <= p => (n + 1) * d <= p * d
  BY <1>1, TimesGrows
<1>3. p + 1 <= n - 1 => (p + 1) * d <= (n - 1) * d
  BY <1>1, TimesGrows
<1>4. (p + 1) * d = p * d + d /\ p * d \in Int /\ (n - 1) * d \in Int /\ (n + 1) * d \in Int
  BY SMT, <1>1
<1>5. ~(n + 1 <= p) /\ ~(p + 1 <= n - 1)
  <2> HIDE DEF p
  <2>. QED
    BY SMT, <1>1, <1>2, <1>3, <1>4
<1>6. p = n - 1 \/ p = n
  BY SMT, <1>1, <1>5
<1>. QED
  BY <1>6 DEF p

(* The rounded span of a range and the number of its steps.                 *)
LEMMA SpanAndSteps ==
    ASSUME NEW fl \in Roundings, NEW min \in Int, NEW max \in Int, min < max,
           max - min <= pow2[253], NEW bits \in 1 .. 16
    PROVE  \E span \in Float32, steps \in UInt16 :
              /\ span >= 1 /\ span <= pow2[253] /\ steps = pow2[bits] - 1 /\ steps >= 1
              /\ span = fl[<< max - min, 1 >>]
<1> DEFINE span == fl[<< max - min, 1 >>]  steps == pow2[bits] - 1
<1>1. max - min \in Int /\ 1 <= max - min
  BY SMT
<1>2. span \in Float32 /\ span \in Int
  BY <1>1, Closest
<1>3. 1 \in Float32 /\ pow2[253] \in Float32 /\ pow2[253] \in Int
  <2>1. 1 \in Mantissas /\ 253 \in 0 .. 253
    BY SMT DEF Mantissas
  <2>2. 1 \in Float32 /\ pow2[253] \in Float32
    BY <2>1, FewBitsAreFloats, PowersAreFloats, Zenon
  <2>. QED
    BY <2>2, FloatsAreIntegers
<1>4. fl[<< 1, 1 >>] = 1
  BY <1>3, RoundingKeeps
<1>5. fl[<< pow2[253], 1 >>] = pow2[253]
  <2>1. fl[<< pow2[253] * 1, 1 >>] = pow2[253]
    BY <1>3, RoundingKeeps
  <2>2. pow2[253] * 1 = pow2[253]
    BY SMT, <1>3
  <2>. QED
    BY <2>1, <2>2
<1>6. fl[<< 1, 1 >>] <= span
  BY <1>1, RoundingGrows
<1>7. span <= fl[<< pow2[253], 1 >>]
  BY <1>1, <1>3, RoundingGrows
<1>8. steps \in UInt16 /\ steps >= 1
  <2>1. /\ bits \in 0 .. 300 /\ 16 \in 0 .. 300 /\ 1 \in 0 .. 300 /\ bits <= 16 /\ 1 <= bits
        /\ 0 \in 0 .. 253 /\ 0 \in 0 .. 299 /\ 1 \in Int /\ 1 = 0 + 1 /\ 0 + 16 = 16
    BY SMT
  <2>2. pow2[bits] \in Nat
    BY <2>1, PowersArePositive, Zenon
  <2>3. pow2[bits] <= pow2[16]
    BY <2>1, PowersGrow, Zenon
  <2>4. pow2[1] <= pow2[bits]
    BY <2>1, PowersGrow, Zenon
  <2>5. pow2[0] = 1
    BY PowersAre, Zenon
  <2>6. pow2[16] = 65536 * pow2[0]
    <3>1. pow2[0 + 16] = 65536 * pow2[0]
      BY SMT, <2>1, PowersOnwards
    <3>. QED
      BY SMT, <2>1, <3>1
  <2>7. pow2[1] = 2 * pow2[0]
    BY <2>1, NextPower, Zenon
  <2>8. pow2[16] = 65536 /\ pow2[1] = 2
    BY SMT, <2>5, <2>6, <2>7
  <2>. QED
    BY SMT, <2>2, <2>3, <2>4, <2>8 DEF UInt16
<1>. QED
  BY <1>2, <1>4, <1>5, <1>6, <1>7, <1>8

(* A larger value has the larger quotient, a value from min on none below 0.*)
LEMMA QuotientsInOrder ==
    ASSUME NEW fl \in Roundings, NEW min \in Int, NEW x \in Int, NEW y \in Int, min <= x, x <= y,
           NEW span \in Nat, span >= 1, NEW steps \in Nat
    PROVE  LET q(v) == fl[<< fl[<< fl[<< v - min, 1 >>] * steps, 1 >>] * Unit, span >>]
           IN q(x) \in Nat /\ q(y) \in Nat /\ q(x) <= q(y)
<1> DEFINE d(v) == fl[<< v - min, 1 >>]
           p(v) == fl[<< d(v) * steps, 1 >>]
           q(v) == fl[<< p(v) * Unit, span >>]
<1>1. fl[<< 0, 1 >>] = 0 /\ fl[<< 0, span >>] = 0
  <2>1. 0 \in Float32
    <3>1. 0 \in Mantissas
      BY SMT DEF Mantissas
    <3>. QED
      BY <3>1, FewBitsAreFloats, Zenon
  <2>2. fl[<< 0 * 1, 1 >>] = 0 /\ fl[<< 0 * span, span >>] = 0
    BY <2>1, RoundingKeeps
  <2>3. 0 * 1 = 0 /\ 0 * span = 0
    BY SMT
  <2>. QED
    BY <2>2, <2>3
<1>2. Unit \in Nat /\ 1 \in Nat /\ 1 >= 1
  BY UnitIsPositive
<1>3. /\ d(x) \in Int /\ d(y) \in Int
      /\ 0 <= d(x) /\ d(x) <= d(y)
  <2>1. x - min \in Int /\ y - min \in Int /\ 0 <= x - min /\ x - min <= y - min
    BY SMT
  <2>2. d(x) \in Int /\ d(y) \in Int
    BY <1>2, <2>1, RoundedIsInteger, Zenon
  <2>3. fl[<< 0, 1 >>] <= d(x)
    BY <2>1, RoundingGrows
  <2>4. d(x) <= d(y)
    BY <2>1, RoundingGrows
  <2>. QED
    BY <1>1, <2>2, <2>3, <2>4
<1> HIDE DEF d
<1>4. /\ p(x) \in Int /\ p(y) \in Int
      /\ 0 <= p(x) /\ p(x) <= p(y)
  <2> DEFINE a == d(x) * steps  b == d(y) * steps
  <2>1. a \in Int /\ b \in Int /\ 0 * steps = 0
    BY SMT, <1>3
  <2>2. 0 <= a /\ a <= b
    BY <1>3, <2>1, TimesGrows
  <2>3. p(x) \in Int /\ p(y) \in Int
    BY <1>2, <2>1, RoundedIsInteger, Zenon
  <2>4. fl[<< 0, 1 >>] <= p(x)
    BY <2>1, <2>2, RoundingGrows
  <2>5. p(x) <= p(y)
    BY <2>1, <2>2, RoundingGrows
  <2>. QED
    BY <1>1, <2>3, <2>4, <2>5
<1> HIDE DEF p
<1>5. /\ q(x) \in Int /\ q(y) \in Int
      /\ 0 <= q(x) /\ q(x) <= q(y)
  <2> DEFINE a == p(x) * Unit  b == p(y) * Unit
  <2>1. a \in Int /\ b \in Int /\ 0 * Unit = 0
    BY SMT, <1>2, <1>4
  <2>2. 0 <= a /\ a <= b
    BY <1>2, <1>4, <2>1, TimesGrows
  <2>3. q(x) \in Int /\ q(y) \in Int
    BY <1>2, <2>1, RoundedIsInteger, Zenon
  <2>4. fl[<< 0, span >>] <= q(x)
    BY <2>1, <2>2, RoundingGrows
  <2>5. q(x) <= q(y)
    BY <2>1, <2>2, RoundingGrows
  <2>. QED
    BY <1>1, <2>3, <2>4, <2>5
<1> HIDE DEF q
<1>6. q(x) \in Nat /\ q(y) \in Nat /\ q(x) <= q(y)
  BY SMT, <1>5
<1>. QED
  BY <1>6 DEF q, p, d

(* However the float operations of float_to_uint (dm_motor.cpp) break ties: *)
(* a value within its range becomes a count that fits the bits of its       *)
(* field, a larger value no smaller count, min the count 0, and max the     *)
(* highest count or, because of the rounding, the one below it.  The range  *)
(* is at most 2^104 wide (in Units 2^253), so that nothing overflows.       *)
THEOREM CountFits ==
    ASSUME NEW fl \in Roundings, NEW min \in Int, NEW max \in Int, min < max,
           max - min <= pow2[253], NEW bits \in 1 .. 16
    PROVE  LET steps == pow2[bits] - 1
               count(x) == float_to_uint(fl, x, min, max, bits)
           IN /\ \A x \in min .. max : count(x) \in 0 .. steps
              /\ \A x, y \in min .. max : x <= y => count(x) <= count(y)
              /\ count(min) = 0
              /\ count(max) \in {steps - 1, steps}
<1>1. PICK span \in Float32, steps \in UInt16 :
              /\ span >= 1 /\ span <= pow2[253] /\ steps = pow2[bits] - 1 /\ steps >= 1
              /\ span = fl[<< max - min, 1 >>]
  BY SpanAndSteps
<1>2. span \in Nat /\ steps \in Nat
  <2>1. span \in Int
    BY FloatsAreIntegers
  <2>. QED
    BY SMT, <1>1, <2>1 DEF UInt16
<1> DEFINE count(x) == float_to_uint(fl, x, min, max, bits)
           q(x) == fl[<< fl[<< fl[<< x - min, 1 >>] * steps, 1 >>] * Unit, span >>]
<1>3. ASSUME NEW x \in min .. max, NEW y \in min .. max, x <= y
      PROVE  q(x) \in Nat /\ q(y) \in Nat /\ q(x) <= q(y)
  <2>1. x \in Int /\ y \in Int /\ min <= x
    BY SMT
  <2>. QED
    BY <1>1, <1>2, <1>3, <2>1, QuotientsInOrder
<1>4. Unit \in Nat /\ Unit >= 1
  BY UnitIsPositive
<1>5. \A x \in min .. max : count(x) = float_to_int(q(x))
  BY <1>1, Zenon DEF float_to_uint
<1>6. \A x \in min .. max : q(x) \in Nat
  <2>1. \A x \in min .. max : x <= x
    BY SMT
  <2> HIDE DEF q
  <2>. QED
    BY <1>3, <2>1
<1>7. q(max) \in Nat /\ (steps - 1) * Unit < q(max) /\ q(max) < (steps + 1) * Unit
  <2> DEFINE p == fl[<< span * steps, 1 >>]
  <2>1. p \in Int /\ 2 * (p - span * steps) < span /\ 2 * (span * steps - p) < span
    BY <1>1, ProductNearby
  <2>2. q(max) = fl[<< p * Unit, span >>]
    BY <1>1
  <2>3. max \in min .. max
    BY SMT
  <2>4. q(max) \in Nat
    BY <1>6, <2>3
  <2> HIDE DEF p
  <2>5. /\ (steps - 1) * Unit < fl[<< p * Unit, span >>]
        /\ fl[<< p * Unit, span >>] < (steps + 1) * Unit
    BY <1>1, <1>2, <2>1, QuotientNearby
  <2> HIDE DEF q
  <2>. QED
    BY <2>2, <2>4, <2>5
<1>8. q(min) = 0
  <2>1. 0 \in Float32
    <3>1. 0 \in Mantissas
      BY SMT DEF Mantissas
    <3>. QED
      BY <3>1, FewBitsAreFloats, Zenon
  <2>2. fl[<< 0 * 1, 1 >>] = 0 /\ fl[<< 0 * span, span >>] = 0
    BY <1>1, <1>2, <2>1, RoundingKeeps
  <2>3. min - min = 0 /\ 0 * 1 = 0 /\ 0 * span = 0 /\ 0 * steps = 0 /\ 0 * Unit = 0
    BY SMT, <1>2, <1>4
  <2>. QED
    BY <2>2, <2>3
<1> HIDE DEF q
<1>9. \A x \in min .. max : count(x) = q(x) \div Unit
  <2>1. \A x \in min .. max : ~(q(x) < 0)
    BY <1>6
  <2> HIDE DEF count
  <2>. QED
    BY <1>5, <2>1, Zenon DEF float_to_int
<1> HIDE DEF count
<1>10. ASSUME NEW x \in min .. max, NEW y \in min .. max, x <= y
       PROVE  count(x) \in Nat /\ count(x) <= count(y)
  <2>1. q(x) \in Nat /\ q(y) \in Nat /\ q(x) <= q(y)
    BY <1>3, <1>10
  <2>2. q(x) \div Unit \in Nat /\ q(x) \div Unit <= q(y) \div Unit
    BY <1>4, <2>1, QuotientGrows
  <2>. QED
    BY <1>9, <2>2
<1>11. min \in min .. max /\ max \in min .. max
  BY SMT
<1>12. count(max) \in {steps - 1, steps}
  <2>1. q(max) \div Unit \in {steps - 1, steps}
    BY <1>2, <1>4, <1>7, QuotientBetween
  <2>. QED
    BY <1>9, <1>11, <2>1
<1>13. count(min) = 0
  <2>1. 0 \div Unit = 0
    BY SMT, <1>4
  <2>. QED
    BY <1>8, <1>9, <1>11, <2>1
<1>14. ASSUME NEW x \in min .. max
       PROVE  count(x) \in 0 .. steps
  <2>1. x <= max /\ x <= x
    BY SMT
  <2>2. count(x) \in Nat /\ count(x) <= count(max)
    BY <1>10, <1>11, <2>1
  <2>. QED
    BY SMT, <1>2, <1>12, <2>2
<1>. QED
  BY <1>1, <1>10, <1>12, <1>13, <1>14 DEF count

-----------------------------------------------------------------------------
(* The number whose digits to base 256, the highest first, are the bytes.   *)
FrameNumber(m) ==
    ((((((m[1] * 256 + m[2]) * 256 + m[3]) * 256 + m[4]) * 256 + m[5]) * 256 + m[6]) * 256
     + m[7]) * 256 + m[8]

(* Five fields within their bits share eight bytes without touching each    *)
(* other: read as big-endian numbers, the frame is the fields one behind    *)
(* the other (DM_MOTOR::on_command_mit_control).                            *)
THEOREM MitFieldsAreTheBytes ==
    ASSUME NEW pos \in UInt16, NEW vel \in UInt12, NEW kp \in UInt12, NEW kd \in UInt12,
           NEW tor \in UInt12
    PROVE  /\ \A k \in 1 .. 8 : mit_bytes(pos, vel, kp, kd, tor)[k] \in Byte
           /\ FrameNumber(mit_bytes(pos, vel, kp, kd, tor))
              = (((pos * 4096 + vel) * 4096 + kp) * 4096 + kd) * 4096 + tor
<1> DEFINE m == mit_bytes(pos, vel, kp, kd, tor)
           p1 == pos \div 256  p0 == pos % 256  v1 == vel \div 16  v0 == vel % 16
           k1 == kp \div 256  k0 == kp % 256  d1 == kd \div 16  d0 == kd % 16
           t1 == tor \div 256  t0 == tor % 256
<1>1. m = << p1, p0, v1, v0 * 16 + k1, k0, d1, d0 * 16 + t1, t0 >>
  BY DEF mit_bytes
<1>2. pos = 256 * p1 + p0 /\ p1 \in 0 .. 255 /\ p0 \in 0 .. 255
  <2>1. pos \in Nat /\ pos < 65536
    BY SMT DEF UInt16
  <2>2. p0 \in 0 .. 255
    BY SMT, <2>1
  <2>3. pos = 256 * p1 + p0 /\ p1 \in Nat
    BY SMT, <2>1
  <2> HIDE DEF p0, p1
  <2>. QED
    BY SMT, <2>1, <2>2, <2>3
<1>3. vel = 16 * v1 + v0 /\ v1 \in 0 .. 255 /\ v0 \in 0 .. 15
  <2>1. vel \in Nat /\ vel < 4096
    BY SMT DEF UInt12
  <2>2. v0 \in 0 .. 15
    BY SMT, <2>1
  <2>3. vel = 16 * v1 + v0 /\ v1 \in Nat
    BY SMT, <2>1
  <2> HIDE DEF v0, v1
  <2>. QED
    BY SMT, <2>1, <2>2, <2>3
<1>4. kp = 256 * k1 + k0 /\ k1 \in 0 .. 15 /\ k0 \in 0 .. 255
  <2>1. kp \in Nat /\ kp < 4096
    BY SMT DEF UInt12
  <2>2. k0 \in 0 .. 255
    BY SMT, <2>1
  <2>3. kp = 256 * k1 + k0 /\ k1 \in Nat
    BY SMT, <2>1
  <2> HIDE DEF k0, k1
  <2>. QED
    BY SMT, <2>1, <2>2, <2>3
<1>5. kd = 16 * d1 + d0 /\ d1 \in 0 .. 255 /\ d0 \in 0 .. 15
  <2>1. kd \in Nat /\ kd < 4096
    BY SMT DEF UInt12
  <2>2. d0 \in 0 .. 15
    BY SMT, <2>1
  <2>3. kd = 16 * d1 + d0 /\ d1 \in Nat
    BY SMT, <2>1
  <2> HIDE DEF d0, d1
  <2>. QED
    BY SMT, <2>1, <2>2, <2>3
<1>6. tor = 256 * t1 + t0 /\ t1 \in 0 .. 15 /\ t0 \in 0 .. 255
  <2>1. tor \in Nat /\ tor < 4096
    BY SMT DEF UInt12
  <2>2. t0 \in 0 .. 255
    BY SMT, <2>1
  <2>3. tor = 256 * t1 + t0 /\ t1 \in Nat
    BY SMT, <2>1
  <2> HIDE DEF t0, t1
  <2>. QED
    BY SMT, <2>1, <2>2, <2>3
<1> HIDE DEF m, p0, p1, v0, v1, k0, k1, d0, d1, t0, t1
<1>7. \A k \in 1 .. 8 : m[k] \in 0 .. 255
  BY SMT, <1>1, <1>2, <1>3, <1>4, <1>5, <1>6
<1>8. (((pos * 4096 + vel) * 4096 + kp) * 4096 + kd) * 4096 + tor
      = ((((((p1 * 256 + p0) * 256 + v1) * 256 + v0 * 16 + k1) * 256 + k0) * 256
         + d1) * 256 + d0 * 16 + t1) * 256 + t0
  BY SMT, <1>2, <1>3, <1>4, <1>5, <1>6
<1>9. /\ m[1] = p1 /\ m[2] = p0 /\ m[3] = v1 /\ m[4] = v0 * 16 + k1
      /\ m[5] = k0 /\ m[6] = d1 /\ m[7] = d0 * 16 + t1 /\ m[8] = t0
  BY SMT, <1>1
<1>10. FrameNumber(m) = (((pos * 4096 + vel) * 4096 + kp) * 4096 + kd) * 4096 + tor
  BY SMT, <1>2, <1>3, <1>4, <1>5, <1>6, <1>8, <1>9 DEF FrameNumber
<1>11. \A k \in 1 .. 8 : m[k] \in Byte
  BY <1>7 DEF Byte
<1>. QED
  BY <1>10, <1>11 DEF m

(* The number whose digits to base 256, the highest first, are the five     *)
(* bytes of a report behind its id.                                         *)
ReportNumber(buf, at) ==
    (((buf[at + 2] * 256 + buf[at + 3]) * 256 + buf[at + 4]) * 256 + buf[at + 5]) * 256
    + buf[at + 6]

(* The three fields of a motor's report are its five bytes behind the id,   *)
(* and each is within its bits (DM_MOTOR::read).                            *)
THEOREM ReportFieldsAreTheBytes ==
    ASSUME NEW buf \in Buffer, NEW at \in Nat, at + 6 <= Len(buf)
    PROVE  /\ report_position(buf, at) \in UInt16
           /\ report_velocity(buf, at) \in UInt12
           /\ report_torque(buf, at) \in UInt12
           /\ (report_position(buf, at) * 4096 + report_velocity(buf, at)) * 4096
                + report_torque(buf, at) = ReportNumber(buf, at)
<1> DEFINE b2 == buf[at + 2]  b3 == buf[at + 3]  b4 == buf[at + 4]  b5 == buf[at + 5]
           b6 == buf[at + 6]  high == b5 \div 16  low == b5 % 16
           pos == 256 * b2 + b3  vel == 16 * b4 + high  tor == 256 * low + b6
<1>1. b2 \in Byte /\ b3 \in Byte /\ b4 \in Byte /\ b5 \in Byte /\ b6 \in Byte
  BY ByteOf
<1>2. /\ report_position(buf, at) = pos
      /\ report_velocity(buf, at) = vel
      /\ report_torque(buf, at) = tor
  BY DEF report_position, report_velocity, report_torque
<1>3. ReportNumber(buf, at) = (((b2 * 256 + b3) * 256 + b4) * 256 + b5) * 256 + b6
  BY DEF ReportNumber
<1> HIDE DEF b2, b3, b4, b5, b6
<1>4. b5 = 16 * high + low /\ high \in 0 .. 15 /\ low \in 0 .. 15
  BY SMT, <1>1 DEF Byte
<1> HIDE DEF high, low
<1>5. pos \in UInt16
  BY SMT, <1>1 DEF Byte, UInt16
<1>6. vel \in UInt12 /\ tor \in UInt12
  BY SMT, <1>1, <1>4 DEF Byte, UInt12
<1>7. (pos * 4096 + vel) * 4096 + tor = (((b2 * 256 + b3) * 256 + b4) * 256 + b5) * 256 + b6
  BY SMT, <1>1, <1>4 DEF Byte
<1> HIDE DEF pos, vel, tor
<1>. QED
  BY <1>2, <1>3, <1>5, <1>6, <1>7
=============================================================================
