------------------------------- MODULE MCPassdb -------------------------------
(* Slices of two and three seconds, windows of none, a part of a slice, a  *)
(* whole slice and more, one whose offsets overflow the int, and one whose *)
(* rounding wraps around.                                                  *)
EXTENDS Passdb

MCHmac(timecode) == 7 * (timecode + 30) + 3

MCPassphrases == {<<"p">>, <<"p", "1">>}
MCWrong == <<>>
MCTotpRequests == {<<3, 1>>, <<2, 2>>, <<2, 9>>}
MCTimes == -1 .. 6
=============================================================================
