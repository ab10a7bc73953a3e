------------------------------ MODULE SdLayout ------------------------------
(***************************************************************************)
(* How the SD card driver reads and writes what is laid out in bits: the   *)
(* checksums of commands and blocks, the frame of a command, and the size  *)
(* and erase block that the card's registers CSD and SD Status give.       *)
(* Source: sd_spi_driver/diskio_sd_spi.c.                                  *)
(*                                                                         *)
(* A byte is a number; a shift register is a sequence of bits, the highest *)
(* first.  Bit b of the CSD is in byte 15 - b \div 8.                      *)
(***************************************************************************)
EXTENDS Integers, Sequences, SequencesExt

CONSTANTS
  Messages,  \* sequences of bytes
  Csds,      \* CSD registers: [kind, filler] and the fields of the kind
  Statuses   \* the allocation unit sizes of an SD Status

VARIABLE layout  \* what is looked at: [of, data]

LayoutInit ==
  \/ \E m \in Messages : layout = [of |-> "message", data |-> m]
  \/ \E c \in Csds : layout = [of |-> "csd", data |-> c]
  \/ \E u \in Statuses : layout = [of |-> "status", data |-> u]

-----------------------------------------------------------------------------
(* Checksums.                                                               *)
Bits(value, width) == [i \in 1..width |-> (value \div 2^(width - i)) % 2]

Value(bits) == FoldLeft(LAMBDA sum, b : 2 * sum + b, 0, bits)

Xor(a, b) == [i \in DOMAIN a |-> (a[i] + b[i]) % 2]

(* One shift to the left, and the polynomial if a one fell out. *)
Shifted(crc, poly) ==
  LET next == Append(Tail(crc), 0) IN IF crc[1] = 1 THEN Xor(next, poly) ELSE next

(* The next byte goes into the highest eight bits. *)
WithByte(crc, byte) ==
  [i \in DOMAIN crc |-> IF i <= 8 THEN (crc[i] + Bits(byte, 8)[i]) % 2 ELSE crc[i]]

EightShifts(crc, poly) == FoldLeft(LAMBDA c, i : Shifted(c, poly), crc, <<1, 2, 3, 4, 5, 6, 7, 8>>)

Crc(data, width, poly) ==
  FoldLeft(LAMBDA c, b : EightShifts(WithByte(c, b), poly), Bits(0, width), data)

(* The seven bits, then the stop bit. *)
crc7(data) == SubSeq(Crc(data, 8, Bits(18, 8)), 1, 7) \o <<1>>

crc16(data) == Crc(data, 16, Bits(4129, 16))

(* send_cmd(): six bytes, for an argument of four. *)
Frame(cmd, arg) ==
  LET head == <<64 + cmd>> \o arg IN head \o <<Value(crc7(head))>>

-----------------------------------------------------------------------------
(* ioctl().                                                                 *)

(* GET_SECTOR_COUNT: of a CSD of version 2 in units of 1024 sectors, whose  *)
(* number is cut to the 22 bits that leaves; of others in sectors, or 0 for *)
(* an error.                                                                *)
Version2(csd) == csd[1] \div 64 = 1

Units2(csd) == (csd[10] + csd[9] * 256 + (csd[8] % 64) * 65536 + 1) % 4194304

Sectors1(csd) ==
  LET n == (csd[6] % 16) + (csd[11] \div 128) + (csd[10] % 4) * 2 + 2
      csize == (csd[9] \div 64) + csd[8] * 4 + (csd[7] % 4) * 1024 + 1
  IN IF n < 9 THEN 0 ELSE csize * 2^(n - 9)

(* GET_BLOCK_SIZE, in sectors. *)
BlockSd2(au) == 16 * 2^au

BlockSd1(csd) == ((csd[11] % 64) * 2 + (csd[12] \div 128) + 1) * 2^((csd[14] \div 64) - 1)

BlockMmc(csd) == (((csd[11] % 128) \div 4) + 1) * ((csd[12] % 4) * 8 + (csd[12] \div 32) + 1)

-----------------------------------------------------------------------------
(* What the standards say.                                                  *)

(* The remainder of the message, with as many zeros behind it as the        *)
(* divisor's degree, by long division of polynomials.                       *)
Remainder(data, divisor) ==
  LET degree == Len(divisor) - 1
      dividend == FlattenSeq([i \in 1..Len(data) |-> Bits(data[i], 8)]) \o Bits(0, degree)
      Step(m, at) == IF m[at] = 0 THEN m
                     ELSE [i \in DOMAIN m |-> IF i \in at..(at + degree)
                                              THEN (m[i] + divisor[i - at + 1]) % 2 ELSE m[i]]
      last == FoldLeft(Step, dividend, [i \in 1..(8 * Len(data)) |-> i])
  IN SubSeq(last, 8 * Len(data) + 1, Len(last))

X7 == <<1, 0, 0, 0, 1, 0, 0, 1>>
X16 == <<1, 0, 0, 0, 1, 0, 0, 0, 0, 0, 0, 1, 0, 0, 0, 0, 1>>

(* The fields of a register: highest bit, lowest bit, value.                *)
Fields(c) ==
  IF c.kind = "sd2" THEN {<<127, 126, 1>>, <<69, 48, c.c_size>>}
  ELSE {<<127, 126, 0>>, <<83, 80, c.read_bl_len>>, <<73, 62, c.c_size>>, <<49, 47, c.c_size_mult>>}
       \union IF c.kind = "sd1" THEN {<<45, 39, c.sector_size>>, <<25, 22, c.write_bl_len>>}
              ELSE {<<46, 42, c.erase_grp_size>>, <<41, 37, c.erase_grp_mult>>}

CsdOf(c) ==
  LET fields == Fields(c)
      bit == [b \in 0..127 |->
                IF \E f \in fields : b \in f[2]..f[1]
                THEN LET f == CHOOSE f \in fields : b \in f[2]..f[1] IN (f[3] \div 2^(b - f[2])) % 2
                ELSE c.filler]
  IN [i \in 1..16 |-> Value([j \in 1..8 |-> bit[128 - 8 * (i - 1) - j]])]

(* Blocks of 512 bytes. *)
Capacity1(c) == (c.c_size + 1) * 2^(c.c_size_mult + 2 + c.read_bl_len - 9)

Erase1(c) == (c.sector_size + 1) * 2^(c.write_bl_len - 9)

EraseMmc(c) == (c.erase_grp_size + 1) * (c.erase_grp_mult + 1)

Ones(data) == FoldLeft(LAMBDA n, b : n + FoldLeft(LAMBDA m, bit : m + bit, 0, Bits(b, 8)), 0, data)

(* The checksums are the remainders the standard asks for, so that up to    *)
(* three wrong bits of a block are noticed; the first frames a card gets    *)
(* are the ones it takes before CRCs are agreed on; and whatever else the   *)
(* registers hold, the capacity and the erase blocks are those of the       *)
(* fields' values - of an MMC only where bits 41 and 40 happen to be equal  *)
(* to bits 33 and 32 (diskio_sd_spi.c:126-170, 705-783).                    *)
LayoutRead ==
  LET d == layout.data IN
  /\ layout.of = "message" =>
       /\ crc7(d) = Remainder(d, X7) \o <<1>> /\ crc16(d) = Remainder(d, X16)
       /\ Frame(0, <<0, 0, 0, 0>>)[6] = 149 /\ Frame(8, <<0, 0, 1, 170>>)[6] = 135
       /\ Ones(d) \in 1..3 => crc16(d) # Bits(0, 16)
  /\ layout.of = "csd" =>
       LET csd == CsdOf(d) IN
       /\ Version2(csd) = (d.kind = "sd2")
       /\ d.kind = "sd2" => Units2(csd) = d.c_size + 1
       /\ d.kind # "sd2" => Sectors1(csd) = IF d.read_bl_len + d.c_size_mult + 2 < 9 THEN 0 ELSE Capacity1(d)
       /\ d.kind = "sd1" => BlockSd1(csd) = Erase1(d)
       /\ d.kind = "mmc" /\ csd[12] % 4 = csd[11] % 4 => BlockMmc(csd) = EraseMmc(d)
  /\ layout.of = "status" => BlockSd2(d) * 512 = 8192 * 2^d
=============================================================================
