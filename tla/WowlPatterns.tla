---------------------------- MODULE WowlPatterns ----------------------------
(***************************************************************************)
(* The conversion of a wake-up pattern from the text of the configuration  *)
(* to what the device gets (source/cy_lpa_wifi_wowlpf_ol.c), and the       *)
(* device's comparison of a frame with it (external).                      *)
(*                                                                         *)
(* A text is a sequence of character codes, "0x" and hexadecimal digits.   *)
(***************************************************************************)
EXTENDS Integers, Sequences

\* uint8_t.
Byte8(n) == n % 256

Lower(c) == IF c \in 65 .. 90 THEN c + 32 ELSE c

HexCharToInt(c) == IF c \in 48 .. 57 THEN c - 48 ELSE Lower(c) - 97 + 10

\* A text in an array of that many characters, with a terminating NUL.
HexDigits == 48 .. 57 \cup 65 .. 70 \cup 97 .. 102
Text(text, size) ==
  /\ text \in Seq(0 .. 127) /\ Len(text) \in 2 .. size - 1
  /\ \A i \in 3 .. Len(text) : text[i] \in HexDigits

\* The bytes after "0x"; a text shorter than that wraps round to 255, and the
\* conversion would run past it.
Size(text)    == Byte8((Len(text) \div 2) - 1)
Overruns(text) == 2 * Size(text) + 2 > Len(text)

TextBytes(text) ==
  [i \in 1 .. Size(text) |->
     16 * HexCharToInt(text[2 * i + 1]) + HexCharToInt(text[2 * i + 2])]

Bit(byte, k) == (byte \div 2 ^ k) % 2

\* Bits k and 7 - k change places, for the first half of a byte only.
ReverseBits_Half(byte) ==
  Bit(byte, 3) + 2 * Bit(byte, 2) + 4 * Bit(byte, 1) + 8 * Bit(byte, 0) + 16 * (byte \div 16)

\* Bits k and 7 - k change places.
ReverseBits(byte) ==
  Bit(byte, 7) + 2 * Bit(byte, 6) + 4 * Bit(byte, 5) + 8 * Bit(byte, 4)
    + 16 * Bit(byte, 3) + 32 * Bit(byte, 2) + 64 * Bit(byte, 1) + 128 * Bit(byte, 0)

MaskBytes(text) ==
  LET b == TextBytes(text) IN [i \in DOMAIN b |-> ReverseBits(b[i])]

MaskInvalid(text) == Len(text) % 2 # 0

\* What whd_set_wowl_pattern gets for an entry of the configuration.
Converted(e) ==
  [offset |-> e.offset, pattern |-> TextBytes(e.pattern), mask |-> MaskBytes(e.mask)]

\* The device compares byte n of the pattern iff bit n of the mask is set, the
\* lowest bit of each byte first.
DeviceMatches(p, frame) ==
  \A n \in 0 .. Len(p.pattern) - 1 :
    (n \div 8 < Len(p.mask) /\ Bit(p.mask[n \div 8 + 1], n % 8) = 1) =>
      p.offset + n < Len(frame) /\ frame[p.offset + n + 1] = p.pattern[n + 1]

\* What the user has written: digit by digit, and the binary digits of the mask
\* from left to right, select the bytes of the pattern from left to right.
Selected(e, n) ==
  LET digit == 3 + n \div 4
  IN digit <= Len(e.mask) /\ Bit(HexCharToInt(e.mask[digit]), 3 - (n % 4)) = 1

UserMatches(e, frame) ==
  \A n \in 0 .. (Len(e.pattern) - 2) \div 2 - 1 :
    Selected(e, n) =>
      /\ e.offset + n < Len(frame)
      /\ frame[e.offset + n + 1] \div 16 = HexCharToInt(e.pattern[2 * n + 3])
      /\ frame[e.offset + n + 1] % 16 = HexCharToInt(e.pattern[2 * n + 4])
=============================================================================
