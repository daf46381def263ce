------------------------------- MODULE Binary -------------------------------
(***************************************************************************)
(* The conversions of binaries (src/src/binary.cpp,                        *)
(* src/include/legio/binary.hpp, src/src/utils.cpp) as operators.  A       *)
(* binary is a sequence of numbers below ByteMod, a text a sequence of     *)
(* character codes.  The loop of the base64 decoder, which need not end,   *)
(* is in Codec.                                                            *)
(***************************************************************************)
EXTENDS Integers, Sequences, SequencesExt

CONSTANT ByteMod    \* the values of a byte: 256 in the code

ASSUME ByteModAssumption == ByteMod \in Nat /\ 3 < ByteMod

Byte == 0 .. ByteMod - 1

(* What a call that throws returns.                                        *)
Failed == [failed |-> TRUE]

-----------------------------------------------------------------------------
(* Byte order: htons and htonl leave the bytes of an integer in memory     *)
(* with the most significant one first, ntohs and ntohl read them back.    *)
ShortMod == ByteMod * ByteMod   \* the values of a uint16_t
LongMod == ShortMod * ShortMod  \* the values of a uint32_t

htons(n) == <<(n % ShortMod) \div ByteMod, n % ByteMod>>
htonl(n) == htons(n \div ShortMod) \o htons(n % ShortMod)

ntohs(bytes) == ByteMod * bytes[1] + bytes[2]
ntohl(bytes) == ShortMod * ntohs(bytes) + ntohs(SubSeq(bytes, 3, 4))

(* binary_reader: ok is FALSE once a read was out of bounds, which throws. *)
binary_reader(bin) == [mBinary |-> bin, mPosition |-> 0, ok |-> TRUE]

(* The reader after read(size), and what that read.                        *)
Read(reader, size) ==
    IF reader.ok /\ reader.mPosition + size <= Len(reader.mBinary)
    THEN [reader EXCEPT !.mPosition = @ + size]
    ELSE [reader EXCEPT !.ok = FALSE]

Taken(reader, size) ==
    SubSeq(reader.mBinary, reader.mPosition - size + 1, reader.mPosition)

left(reader) ==
    SubSeq(reader.mBinary, reader.mPosition + 1, Len(reader.mBinary))

-----------------------------------------------------------------------------
(* pack_strings<2>, the one that is used: every string is followed by a    *)
(* zero.                                                                   *)
pack_strings(strs) == strs[1] \o <<0>> \o strs[2] \o <<0>>

(* Where the string that starts there ends: before a zero, or at the end   *)
(* of the binary.                                                          *)
EndOf(bin, start) ==
    CHOOSE e \in start .. (IF start > Len(bin) THEN start ELSE Len(bin) + 1) :
      /\ e > Len(bin) \/ bin[e] = 0
      /\ \A k \in start .. e - 1 : bin[k] # 0

(* unpack_strings<2>, which leaves the strings that are missing empty and  *)
(* does not look at what comes after the last one.                         *)
unpack_strings(bin) ==
    LET first == EndOf(bin, 1)
        second == EndOf(bin, first + 1)
    IN  <<SubSeq(bin, 1, first - 1), SubSeq(bin, first + 1, second - 1)>>

-----------------------------------------------------------------------------
(* Hexadecimal: digits as character codes.                                 *)
HexDigit(v) == IF v < 10 THEN 48 + v ELSE 55 + v

to_hex(bin) ==
    [k \in 1 .. 2 * Len(bin) |->
        LET b == bin[(k + 1) \div 2]
        IN  HexDigit(IF k % 2 = 1 THEN b \div 16 ELSE b % 16)]

HexValue(c) ==
    CASE c \in 48 .. 57 -> c - 48
      [] c \in 65 .. 70 -> c - 55
      [] c \in 97 .. 102 -> c - 87
      [] OTHER -> 16

(* A pair is read by operator>> with std::hex: as far as there are digits, *)
(* and one is needed.  A last digit alone is taken for the first of two.   *)
(* (Blanks, signs and the prefix 0x, which operator>> takes as well, are   *)
(* not among the texts.)                                                   *)
HexPair(first, second) ==
    IF HexValue(second) < 16 THEN 16 * HexValue(first) + HexValue(second)
    ELSE HexValue(first)

from_hex(str) ==
    LET at(k) == IF k <= Len(str) THEN str[k] ELSE HexDigit(0)
        count == (Len(str) + 1) \div 2
    IN  IF \E k \in 1 .. count : HexValue(str[2 * k - 1]) = 16 THEN Failed
        ELSE [bytes |-> [k \in 1 .. count |-> HexPair(at(2 * k - 1), at(2 * k))]]

-----------------------------------------------------------------------------
(* Base64, of bytes with 256 values.                                       *)
Pad == 61

(* The two tables, which differ in the last two characters.                *)
tab(v, url) ==
    CASE v < 26 -> 65 + v
      [] v \in 26 .. 51 -> 97 + v - 26
      [] v \in 52 .. 61 -> 48 + v - 52
      [] v = 62 -> IF url THEN 45 ELSE 43
      [] v = 63 -> IF url THEN 95 ELSE 47

(* The six bits for character k: of the three bytes that it is about,      *)
(* those after the end count as zero.                                      *)
Sextet(bin, k) ==
    LET byte(q) == LET p == 3 * ((k - 1) \div 4) + q
                   IN  IF p <= Len(bin) THEN bin[p] ELSE 0
        n == (k - 1) % 4
    IN  CASE n = 0 -> byte(1) \div 4
          [] n = 1 -> ((byte(1) % 4) * 16) + (byte(2) \div 16)
          [] n = 2 -> ((byte(2) % 16) * 4) + (byte(3) \div 64)
          [] n = 3 -> byte(3) % 64

to_base64(bin, url, padding) ==
    LET full == Len(bin) \div 3
        remainder == Len(bin) % 3
        size == 4 * full + (IF remainder = 0 THEN 0 ELSE remainder + 1)
        pads == IF padding /\ remainder # 0 THEN 3 - remainder ELSE 0
    IN  [k \in 1 .. size |-> tab(Sextet(bin, k), url)] \o [k \in 1 .. pads |-> Pad]

(* The decoder takes the characters of both tables; isspace is that of the *)
(* C locale.                                                               *)
IsSpace(c) == c \in 9 .. 13 \cup {32}

IsBase64(c) == c \in 65 .. 90 \cup 97 .. 122 \cup 48 .. 57 \cup {43, 45, 47, 95}

FromTab(c) ==
    CASE c \in 65 .. 90 -> c - 65
      [] c \in 97 .. 122 -> c + 26 - 97
      [] c \in 48 .. 57 -> c + 52 - 48
      [] c \in {43, 45} -> 62
      [] c \in {47, 95} -> 63

(* The bytes that the decoder appends for a group of j characters: the     *)
(* shifts of std::byte lose what does not fit.  GroupMisaligned shifts the *)
(* third character too far.                                                *)
GroupMisaligned(group, j) ==
    SubSeq(<<((group[1] * 4) % 256) + (group[2] \div 16),
             ((group[2] * 16) % 256) + (group[3] \div 8),
             ((group[3] * 64) % 256) + group[4]>>, 1, IF j > 3 THEN 3 ELSE j)

Group(group, j) ==
    SubSeq(<<((group[1] * 4) % 256) + (group[2] \div 16),
             ((group[2] * 16) % 256) + (group[3] \div 4),
             ((group[3] * 64) % 256) + group[4]>>, 1, IF j > 3 THEN 3 ELSE j)

=============================================================================
