--------------------------------- MODULE Codec ---------------------------------
(***************************************************************************)
(* How values are laid out in the process data and in arg_buf_: the         *)
(* little-endian integers of io_utils, the 11-bit channels of the remote    *)
(* controls, and the 12-bit fields of a DM motor's MIT command.             *)
(*                                                                          *)
(* The code shifts, masks and joins with "|".  Shifts are \div and *, masks *)
(* are %, and "|" is +: every two operands joined below have no bit in      *)
(* common, as the theorems of Codec_proofs confirm.  A buffer is a sequence *)
(* that begins at 1, an offset counts from 0.                               *)
(***************************************************************************)
EXTENDS Integers, Sequences

Byte == 0 .. 255
UInt11 == {v \in Nat : v < 2048}
UInt16 == {v \in Nat : v < 65536}
Int16 == {v \in Int : -32768 <= v /\ v < 32768}
UInt32 == {v \in Nat : v < 4294967296}
Int32 == {v \in Int : -2147483648 <= v /\ v < 2147483648}
Buffer == Seq(Byte)

(* The bytes stored at an offset, the rest as it was.                       *)
Store(bytes, buf, offset) ==
    [k \in 1 .. Len(buf) |-> IF k - offset \in 1 .. Len(bytes) THEN bytes[k - offset] ELSE buf[k]]

-----------------------------------------------------------------------------
(* io_utils.                                                                *)
uint16_bytes(value) == << value % 256, value \div 256 >>
uint32_bytes(value) ==
    << value % 256, (value \div 256) % 256, (value \div 65536) % 256, (value \div 16777216) % 256 >>

write_uint16(value, buf, offset) == Store(uint16_bytes(value), buf, offset)
write_int16(value, buf, offset) == write_uint16(value % 65536, buf, offset)
write_uint32(value, buf, offset) == Store(uint32_bytes(value), buf, offset)
write_int32(value, buf, offset) == write_uint32(value % 4294967296, buf, offset)

read_uint16(buf, offset) == buf[offset + 1] + 256 * buf[offset + 2]
read_uint32(buf, offset) ==
    buf[offset + 1] + 256 * buf[offset + 2] + 65536 * buf[offset + 3] + 16777216 * buf[offset + 4]

(* static_cast to the signed type of the same width.                        *)
read_int16(buf, offset) ==
    LET u == read_uint16(buf, offset) IN IF u < 32768 THEN u ELSE u - 65536
read_int32(buf, offset) ==
    LET u == read_uint32(buf, offset) IN IF u < 2147483648 THEN u ELSE u - 4294967296

-----------------------------------------------------------------------------
(* Eight channels of 11 bits in eleven bytes (SBUS_RC::read; a DBUS or VT13 *)
(* receiver uses the first four, and has switches and buttons in the rest   *)
(* of the sixth byte).                                                      *)
Channels(buf, at) ==
    LET b(k) == buf[at + k + 1]
    IN << (b(0) + 256 * b(1)) % 2048,
          (b(1) \div 8 + 32 * b(2)) % 2048,
          (b(2) \div 64 + 4 * b(3) + 1024 * b(4)) % 2048,
          (b(4) \div 2 + 128 * b(5)) % 2048,
          (b(5) \div 16 + 16 * b(6)) % 2048,
          (b(6) \div 128 + 2 * b(7) + 512 * b(8)) % 2048,
          (b(8) \div 4 + 64 * b(9)) % 2048,
          (b(9) \div 32 + 8 * b(10)) % 2048 >>

SBUS_channels(buf, at) == Channels(buf, at) \o Channels(buf, at + 11)
DBUS_sticks(buf, at) == [n \in 1 .. 4 |-> Channels(buf, at)[n]]

right_switch(buf, at) == (buf[at + 6] \div 16) % 4
left_switch(buf, at) == (buf[at + 6] \div 64) % 4

-----------------------------------------------------------------------------
(* float (IEEE 754, 32 bits) as the code uses it: a finite value is a whole *)
(* number of Units of 2^-149, namely up to 24 bits times a power of two.    *)
(* An operation rounds its exact value, a fraction of Units, to a nearest   *)
(* float; which one at a tie is left to the rounding fl.  Infinity and NaN  *)
(* are left out.                                                            *)
pow2[e \in 0 .. 300] == IF e = 0 THEN 1 ELSE 2 * pow2[e - 1]
Unit == pow2[149]
Mantissas == {m \in Int : -16777216 < m /\ m < 16777216}
Float32 == {x \in Int : \E m \in Mantissas, e \in 0 .. 253 : x = m * pow2[e]}

Fractions == Int \X (Nat \ {0})
Distance(r, v) == LET d == r * v[2] - v[1] IN IF d < 0 THEN -d ELSE d
Nearest(v) == {r \in Float32 : \A s \in Float32 : Distance(r, v) <= Distance(s, v)}
Roundings == {fl \in [Fractions -> Float32] : \A v \in Fractions : fl[v] \in Nearest(v)}

(* static_cast<int>, towards zero.                                          *)
float_to_int(x) == IF x < 0 THEN -((-x) \div Unit) ELSE x \div Unit

(* DM_MOTOR::on_command_mit_control().  Values are in Units; each of the    *)
(* four operations rounds.  Nothing clamps x to the range.                  *)
float_to_uint(fl, x, min, max, bits) ==
    LET span == fl[<< max - min, 1 >>]
        steps == pow2[bits] - 1
        product == fl[<< fl[<< x - min, 1 >>] * steps, 1 >>]
    IN float_to_int(fl[<< product * Unit, span >>])

(* The eight bytes behind the enable flag, for fields within their 16 and   *)
(* 12 bits.                                                                 *)
UInt12 == {v \in Nat : v < 4096}
mit_bytes(pos, vel, kp, kd, tor) ==
    << pos \div 256, pos % 256,
       vel \div 16, (vel % 16) * 16 + kp \div 256, kp % 256,
       kd \div 16, (kd % 16) * 16 + tor \div 256, tor % 256 >>

(* DM_MOTOR::read(): the fields of a report, in counts, behind its id byte. *)
report_position(buf, at) == 256 * buf[at + 2] + buf[at + 3]
report_velocity(buf, at) == 16 * buf[at + 4] + buf[at + 5] \div 16
report_torque(buf, at) == 256 * (buf[at + 5] % 16) + buf[at + 6]
=============================================================================
