------------------------------ MODULE CoreUtil ------------------------------
(***************************************************************************)
(* The services of src/software/app/CoreMark/src/core_util.c, and the      *)
(* integer types of core_portme.h.  An unsigned 16-bit value is a member   *)
(* of 0 .. 65535; the data words of the list, which the code declares      *)
(* signed and only ever masks and shifts, are kept unsigned as well.       *)
(***************************************************************************)
EXTENDS Integers, FiniteSets

U16(x) == x % 65536
S16(x) == ((x + 32768) % 65536) - 32768

MaxS32 == 2147483647
MinS32 == -MaxS32 - 1

\* Signed 32-bit addition; an overflow wraps, as it does on this core.
Add32(a, b) ==
    IF b > 0 /\ a > MaxS32 - b THEN MinS32 + (b - (MaxS32 - a) - 1)
    ELSE IF b < 0 /\ a < MinS32 - b THEN MaxS32 + (b - (MinS32 - a) + 1)
    ELSE a + b

\* Bits 14 and 1 of a 16-bit value inverted: the exclusive or with 0x4002.
FlipTaps(crc) ==
    crc + (IF (crc \div 16384) % 2 = 0 THEN 16384 ELSE -16384)
        + (IF (crc \div 2) % 2 = 0 THEN 2 ELSE -2)

\* n more bits of data go into the check sum, least significant bit first.
CrcBits[n \in Nat, data \in Nat, crc \in Nat] ==
    IF n = 0 THEN crc
    ELSE CrcBits[n - 1, data \div 2,
                 IF (data % 2) # (crc % 2) THEN ((FlipTaps(crc) \div 2) % 32768) + 32768
                                           ELSE crc \div 2]

crcu8(data, crc)    == CrcBits[8, data % 256, crc]
crcu16(newval, crc) == crcu8(newval \div 256, crcu8(newval, crc))
crc16(newval, crc)  == crcu16(U16(newval), crc)
crcu32(newval, crc) == crc16(newval \div 65536, crc16(newval, crc))

\* Bytes of the integer types of core_portme.h on this core, and how many
\* of them do not have the size their name asks for.
ee_types == [ee_u8 |-> 1, ee_u16 |-> 2, ee_s16 |-> 2, ee_s32 |-> 4, ee_u32 |-> 4, ee_ptr_int |-> 4]
check_data_types(bytes) ==
    Cardinality({t \in {"ee_u8"} : bytes[t] # 1}
                \cup {t \in {"ee_u16", "ee_s16"} : bytes[t] # 2}
                \cup {t \in {"ee_s32", "ee_u32", "ee_ptr_int"} : bytes[t] # 4})
=============================================================================
