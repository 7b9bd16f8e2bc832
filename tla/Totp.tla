--------------------------------- MODULE Totp ---------------------------------
(***************************************************************************)
(* The time-based codes of rfc6238.c.  A code is the sequence of its       *)
(* digits, as characters; times are whole seconds.                         *)
(***************************************************************************)
EXTENDS Integers, Sequences

CONSTANTS
  Hmac(_),  \* the 31 bits rfc6238_generate takes from the HMAC of a timecode
  NULL

Digit == [i \in 0 .. 9 |-> <<"0", "1", "2", "3", "4", "5", "6", "7", "8", "9">>[i + 1]]

(* NULL for a number of digits that does not fit the code's buffer.        *)
rfc6238_new(slice, digits) ==
  IF digits < 1 \/ digits > 8 THEN NULL
  ELSE [slice_time_seconds |-> slice, digits |-> digits]

(* value % 10^digits, with leading zeros.                                  *)
rfc6238_present(config, value) ==
  [i \in 1 .. config.digits |-> Digit[(value \div 10 ^ (config.digits - i)) % 10]]

rfc6238_generate(config, timecode) == rfc6238_present(config, Hmac(timecode))

(* C's division drops the fraction on both sides of zero, so the slice     *)
(* numbered 0 reaches from -slice + 1 to slice - 1.  That the result then  *)
(* becomes unsigned renames the negative numbers and no more.              *)
Timecode(t, slice) == IF t >= 0 THEN t \div slice ELSE -((-t) \div slice)

rfc6238_generate_at(config, t) ==
  rfc6238_generate(config, Timecode(t, config.slice_time_seconds))
=============================================================================
