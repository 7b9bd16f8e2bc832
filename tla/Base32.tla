-------------------------------- MODULE Base32 --------------------------------
(***************************************************************************)
(* rfc4648_decode_base32_multi: one step per group of eight characters.    *)
(* A character of the alphabet is its index; every other one is Illegal,   *)
(* the padding character or the terminating NUL.                           *)
(***************************************************************************)
EXTENDS Integers, Sequences, FiniteSetsExt, Functions

CONSTANTS
  Inputs,    \* strings passed in, without their NUL
  BufSizes,  \* sizes of the output buffer
  Padding, Illegal, Nul,
  Running    \* the result before there is one

ASSUME Base32Assumption ==
  /\ BufSizes \subseteq Nat
  /\ Inputs \subseteq Seq((0 .. 31) \cup {Padding, Illegal})
  /\ Padding # Illegal /\ Nul \notin {Padding, Illegal}
  /\ {Padding, Illegal, Nul} \cap (0 .. 31) = {}
  /\ Running \notin BOOLEAN

VARIABLES
  input,       \* input_string
  bufsize,
  src_offset,
  output,      \* the bytes written, dst_offset of them
  result,      \* Running until the call returns
  read         \* history: the last character looked at

(* PassdbProofs speaks of this specification and of Passdb's: the names of *)
(* the two differ.                                                         *)
decoder_vars == <<input, bufsize, src_offset, output, result, read>>

Char(i) == IF i <= Len(input) THEN input[i] ELSE Nul

(* How many characters of the group stand before its end.                  *)
GroupLength ==
  Max({n \in 0 .. 8 : \A i \in 1 .. n : Char(src_offset + i) \notin {Nul, Padding}})

Mapped == SubSeq(input, src_offset + 1, src_offset + GroupLength)

(* Byte i of the five, cut to a uint8_t, and the characters it needs.  The *)
(* parts it is put together from share no bit, so | is +.                  *)
Needs == [i \in 0 .. 4 |-> <<2, 4, 5, 7, 8>>[i + 1]]

Byte_Mut(m, i) ==
  CASE i = 0 -> m[1] * 8 + m[2] \div 4
    [] i = 1 -> (m[2] * 64 + m[3] * 2 + m[4] \div 16) % 256
    [] i = 2 -> (m[4] * 16 + m[5] \div 2) % 256
    [] i = 3 -> (m[5] * 128 + m[6] * 8 + m[7] \div 8) % 256
    [] i = 4 -> (m[7] * 32 + m[8]) % 256

Byte(m, i) ==
  CASE i = 0 -> m[1] * 8 + m[2] \div 4
    [] i = 1 -> (m[2] * 64 + m[3] * 2 + m[4] \div 16) % 256
    [] i = 2 -> (m[4] * 16 + m[5] \div 2) % 256
    [] i = 3 -> (m[5] * 128 + m[6] * 4 + m[7] \div 8) % 256
    [] i = 4 -> (m[7] * 32 + m[8]) % 256

DecoderInit ==
  /\ input \in Inputs /\ bufsize \in BufSizes
  /\ src_offset = 0 /\ output = <<>> /\ result = Running /\ read = 0

Finished_Mut == GroupLength = 0

(* A group with fewer than five bytes is the last.                         *)
Finished == GroupLength < 8

HasRoom(n) == Len(output) + n <= bufsize

GroupDecodes ==
  LET complete == {i \in 0 .. 4 : Needs[i] <= GroupLength}
      fitting == {i \in complete : HasRoom(i + 1)}
  IN  /\ result = Running
      /\ read' = src_offset + (IF GroupLength = 8 THEN 8 ELSE GroupLength + 1)
      /\ Illegal \notin Range(Mapped)
      /\ output' = output \o [i \in 1 .. Cardinality(fitting) |-> Byte(Mapped, i - 1)]
      /\ result' = IF fitting # complete THEN FALSE ELSE IF Finished THEN TRUE ELSE Running
      /\ src_offset' = src_offset + 8
      /\ UNCHANGED <<input, bufsize>>

(* Nothing of a group with an illegal character is written.                *)
GroupRefused ==
  /\ result = Running
  /\ \E i \in 1 .. GroupLength : Mapped[i] = Illegal /\ read' = src_offset + i
  /\ Illegal \notin Range(SubSeq(Mapped, 1, read' - src_offset - 1))
  /\ result' = FALSE
  /\ UNCHANGED <<input, bufsize, src_offset, output>>

DecoderNext == GroupDecodes \/ GroupRefused

DecoderSpec == DecoderInit /\ [][DecoderNext]_decoder_vars

-----------------------------------------------------------------------------
(* The characters before the first padding or the end.                     *)
Text == Max({n \in 0 .. Len(input) : Padding \notin Range(SubSeq(input, 1, n))})

(* Bit b of a string of numbers of w bits each.                            *)
Bit(s, w, b) == (s[b \div w + 1] \div 2 ^ (w - 1 - (b % w))) % 2

(* The call succeeds exactly if there is no illegal character before the   *)
(* first padding and the whole bytes fit, and has then written every one   *)
(* of them.  Whatever it has written is, bit for bit, the beginning of the *)
(* characters' five-bit numbers, across the cuts into groups and bytes.    *)
DecodesTheBits ==
  /\ result # Running =>
       (result <=> Illegal \notin Range(SubSeq(input, 1, Text)) /\ (5 * Text) \div 8 <= bufsize)
  /\ result = TRUE => Len(output) = (5 * Text) \div 8
  /\ \A b \in 0 .. 8 * Len(output) - 1 : Bit(output, 8, b) = Bit(input, 5, b)

(* Nothing is written behind the buffer and nothing read behind the        *)
(* terminating NUL: a last group is recognised however it ends.            *)
StaysInside == Len(output) <= bufsize /\ read <= Len(input) + 1
=============================================================================
