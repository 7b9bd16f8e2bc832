------------------------------- MODULE MCBase32 -------------------------------
(* Every string of up to four characters, alone and behind four and seven, *)
(* which brings it up to and across the boundary between two groups; 10101 *)
(* and 01110 tell the bits of a byte apart.                                *)
EXTENDS Base32

Chars == {21, 14, Padding, Illegal}

Strings == UNION {[1 .. n -> Chars] : n \in 0 .. 4}

Prefixes == {<<>>, <<14, 21, 21, 14>>, <<14, 21, 21, 14, 21, 14, 21>>}

MCInputs == {p \o s : p \in Prefixes, s \in Strings}
=============================================================================
