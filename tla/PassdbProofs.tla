---------------------------- MODULE PassdbProofs ----------------------------
(***************************************************************************)
(* Proofs about the password database, for any passphrases, any slices,    *)
(* windows and times, and any width of the unsigned integers, and about    *)
(* the Base32 decoder, for any string and any buffer.                      *)
(***************************************************************************)
EXTENDS Passdb, Base32, FoldProofs, FiniteSetTheorems

-----------------------------------------------------------------------------
(***************************************************************************)
(* Arithmetic of slices.                                                   *)
(***************************************************************************)
(* Division by a positive number, with its remainder.                      *)
LEMMA Division ==
  ASSUME NEW a \in Int, NEW s \in Nat, s > 0
  PROVE  /\ a \div s \in Int /\ a % s \in 0 .. s - 1
         /\ a = ((a \div s) * s) + (a % s)
BY SMT

(* A quotient is known by the multiples around it.                         *)
LEMMA Quotient ==
  ASSUME NEW a \in Int, NEW s \in Nat, s > 0, NEW q \in Int,
         q * s <= a, a < (q + 1) * s
  PROVE  a \div s = q
<1>1. PICK k \in Int : k = a \div s
  BY Division
<1>2. k * s <= a /\ a < (k + 1) * s
  BY <1>1, Division
<1>3. ~ k < q
  <2> SUFFICES ASSUME k + 1 <= q PROVE FALSE
    BY <1>1
  <2>1. (k + 1) * s <= q * s
    BY SMT
  <2> QED
    BY <1>2, <2>1
<1>4. ~ q < k
  <2> SUFFICES ASSUME q + 1 <= k PROVE FALSE
    BY <1>1
  <2>1. (q + 1) * s <= k * s
    BY SMT
  <2> QED
    BY <1>2, <2>1
<1> QED
  BY <1>1, <1>3, <1>4

(* Multiplication by a number that is not negative keeps the order.        *)
LEMMA TimesKeepsOrder ==
  ASSUME NEW a \in Int, NEW b \in Int, a <= b, NEW s \in Nat
  PROVE  a * s <= b * s
BY SMT

(* Rounding up loses no second and adds less than a slice; where it wraps  *)
(* around it only loses.                                                   *)
LEMMA RoundedUp ==
  ASSUME NEW seconds \in Nat, NEW slice \in Nat, slice > 0, UintSize \in Nat, UintSize > 0
  PROVE  LET window == WindowInSlices(seconds, slice)
         IN  /\ window \in Nat
             /\ window * slice < seconds + slice
             /\ seconds + slice <= UintSize => seconds <= window * slice
<1> DEFINE up == seconds + slice - 1
           cut == up % UintSize
           window == cut \div slice
<1>1. /\ cut \in Nat /\ cut <= up
      /\ up < UintSize => cut = up
  <2>1. /\ cut \in 0 .. UintSize - 1
        /\ up \div UintSize \in Int
        /\ up = ((up \div UintSize) * UintSize) + cut
    BY Division
  <2>2. up \div UintSize >= 0
    <3> SUFFICES ASSUME up \div UintSize <= -1 PROVE FALSE
      BY <2>1
    <3>1. (up \div UintSize) * UintSize <= (-1) * UintSize
      BY <2>1, TimesKeepsOrder
    <3> QED
      BY <2>1, <3>1
  <2>3. (up \div UintSize) * UintSize >= 0
    BY <2>1, <2>2, TimesKeepsOrder
  <2>4. ASSUME up < UintSize PROVE up \div UintSize = 0
    BY <2>4, Quotient
  <2> QED
    BY <2>1, <2>3, <2>4
<1>2. /\ window \in Int
      /\ cut % slice \in 0 .. slice - 1
      /\ cut = (window * slice) + (cut % slice)
  BY <1>1, Division
<1>3. window >= 0
  <2> SUFFICES ASSUME window <= -1 PROVE FALSE
    BY <1>2
  <2>1. window * slice <= (-1) * slice
    BY <1>2, TimesKeepsOrder
  <2> QED
    BY <1>1, <1>2, <2>1
<1>4. window * slice \in Int
  BY <1>2
<1> QED
  BY <1>1, <1>2, <1>3, <1>4 DEF WindowInSlices

(* An int of the bits of a number is no farther from zero, and the number  *)
(* itself if that is an int.                                               *)
LEMMA AsIntIs ==
  ASSUME NEW n \in Int, UintSize \in Nat, UintSize > 0
  PROVE  /\ AsInt(n) \in Int
         /\ \A b \in Nat : n \in -b .. b => AsInt(n) \in -b .. b
         /\ n \in -IntMax .. IntMax => AsInt(n) = n
<1> DEFINE half == UintSize \div 2
           up == n + half
           bits == up % UintSize
<1>1. /\ half \in Nat /\ 2 * half <= UintSize /\ UintSize <= (2 * half) + 1
  OBVIOUS
<1> HIDE DEF half
<1>2. /\ bits \in 0 .. UintSize - 1
      /\ up \div UintSize \in Int
      /\ up = ((up \div UintSize) * UintSize) + bits
  BY <1>1, Division
<1> DEFINE laps == up \div UintSize
<1> HIDE DEF bits, laps
<1>3. laps * UintSize \in Int /\ n = (laps * UintSize) + bits - half
  BY <1>1, <1>2 DEF laps
<1>4. AsInt(n) = bits - half
  BY DEF AsInt, bits, half
<1>5. CASE laps = 0
  BY <1>1, <1>2, <1>3, <1>4, <1>5 DEF laps
<1>6. CASE laps >= 1
  <2>1. laps * UintSize >= UintSize
    BY <1>2, <1>6, 1 * UintSize = UintSize, TimesKeepsOrder DEF laps
  <2> QED
    BY <1>1, <1>2, <1>3, <1>4, <2>1 DEF IntMax, half
<1>7. CASE laps <= -1
  <2>1. laps * UintSize <= -UintSize
    BY <1>2, <1>7, (-1) * UintSize = -UintSize, TimesKeepsOrder DEF laps
  <2> QED
    BY <1>1, <1>2, <1>3, <1>4, <2>1 DEF IntMax, half
<1> QED
  BY <1>2, <1>5, <1>6, <1>7 DEF laps

(* The slice that the second r of the q-th interval from zero falls in.    *)
LEMMA TimecodeIs ==
  ASSUME NEW slice \in Nat, slice > 0, NEW q \in Int, NEW r \in 0 .. slice - 1
  PROVE  Timecode((q * slice) + r, slice) = IF q >= 0 \/ r = 0 THEN q ELSE q + 1
<1> DEFINE t == (q * slice) + r
<1>1. t \in Int /\ q * slice \in Int
  OBVIOUS
<1>2. CASE q >= 0
  <2>1. q * slice >= 0
    BY <1>2, 0 * slice = 0, TimesKeepsOrder
  <2>2. t < (q + 1) * slice
    BY (q + 1) * slice = (q * slice) + slice
  <2>3. t \div slice = q
    BY <1>1, <2>2, Quotient
  <2> QED
    BY <1>1, <1>2, <2>1, <2>3 DEF Timecode
<1>3. CASE q < 0
  <2>1. q * slice <= -slice
    BY <1>3, (-1) * slice = -slice, q <= -1, TimesKeepsOrder
  <2>2. t < 0 /\ -t = -(q * slice) - r
    BY <1>1, <2>1
  <2>3. /\ (-q) * slice = -(q * slice)
        /\ (-q + 1) * slice = slice - (q * slice)
        /\ (-q - 1) * slice = -(q * slice) - slice
    OBVIOUS
  <2>4. CASE r = 0
    <3>1. (-t) \div slice = -q
      BY <1>1, <2>2, <2>3, <2>4, Quotient
    <3> QED
      BY <1>1, <2>2, <2>4, <3>1 DEF Timecode
  <2>5. CASE r > 0
    <3>1. (-q - 1) * slice <= -t /\ -t < ((-q - 1) + 1) * slice
      BY <1>1, <2>2, <2>3, <2>5
    <3>2. (-t) \div slice = -q - 1
      BY <1>1, <2>2, <3>1, Quotient
    <3> QED
      BY <1>1, <1>3, <2>2, <2>5, <3>2 DEF Timecode
  <2> QED
    BY <2>4, <2>5
<1> QED
  BY <1>2, <1>3

(* Whole slices away from at are times of every slice between them: the    *)
(* offsets that passdb_validate_around tries miss no slice in the window,  *)
(* although the one around zero is longer than the others.                 *)
LEMMA NoSliceMissed ==
  ASSUME NEW at \in Int, NEW t \in Int, NEW slice \in Nat, slice > 0, NEW w \in Nat,
         Distance(t, at) <= w * slice
  PROVE  \E d \in -w .. w : Timecode(at + (d * slice), slice) = Timecode(t, slice)
<1>1. PICK q \in Int, r \in 0 .. slice - 1 : at = (q * slice) + r
  BY Division
<1>2. PICK p \in Int, u \in 0 .. slice - 1 : t = (p * slice) + u
  BY Division
<1> DEFINE far == p - q
<1>3. t - at = (far * slice) + u - r
  BY <1>1, <1>2
<1>4. t - at <= w * slice /\ at - t <= w * slice
  BY w * slice \in Int DEF Distance
<1>5. far <= w /\ (far = w => u <= r)
  <2>1. ASSUME far = w PROVE u <= r
    BY <1>3, <1>4, <2>1, w * slice \in Int
  <2>2. ASSUME far >= w + 1 PROVE FALSE
    <3>1. (w + 1) * slice <= far * slice
      BY <2>2, TimesKeepsOrder
    <3>2. (w + 1) * slice = (w * slice) + slice /\ w * slice \in Int /\ far * slice \in Int
      OBVIOUS
    <3> QED
      BY <1>3, <1>4, <3>1, <3>2
  <2> QED
    BY <2>1, <2>2
<1>6. -w <= far /\ (far = -w => r <= u)
  <2>1. (-w) * slice = -(w * slice)
    OBVIOUS
  <2>2. ASSUME far = -w PROVE r <= u
    BY <1>3, <1>4, <2>1, <2>2, w * slice \in Int
  <2>3. ASSUME far <= -w - 1 PROVE FALSE
    <3>1. far * slice <= (-w - 1) * slice
      BY <2>3, TimesKeepsOrder
    <3>2. (-w - 1) * slice = -(w * slice) - slice /\ w * slice \in Int /\ far * slice \in Int
      OBVIOUS
    <3> QED
      BY <1>3, <1>4, <3>1, <3>2
  <2> QED
    BY <2>2, <2>3
<1>7. Timecode(t, slice) = IF p >= 0 \/ u = 0 THEN p ELSE p + 1
  BY <1>2, TimecodeIs
<1>8. ASSUME NEW d \in Int
      PROVE  Timecode(at + (d * slice), slice) = IF q + d >= 0 \/ r = 0 THEN q + d ELSE q + d + 1
  <2>1. at + (d * slice) = ((q + d) * slice) + r
    BY <1>1
  <2>2. Timecode(((q + d) * slice) + r, slice) = IF q + d >= 0 \/ r = 0 THEN q + d ELSE q + d + 1
    BY TimecodeIs, q + d \in Int
  <2> QED
    BY <2>1, <2>2
<1>9. CASE p < 0 /\ u > 0 /\ r = 0
  <2>1. far + 1 \in -w .. w
    BY <1>5, <1>6, <1>9
  <2>2. Timecode(at + ((far + 1) * slice), slice) = Timecode(t, slice)
    BY <1>7, <1>8, <1>9
  <2> QED
    BY <2>1, <2>2
<1>10. CASE p < 0 /\ u = 0 /\ r > 0
  <2>1. far - 1 \in -w .. w
    BY <1>5, <1>6, <1>10
  <2>2. Timecode(at + ((far - 1) * slice), slice) = IF p - 1 >= 0 \/ r = 0 THEN p - 1 ELSE p - 1 + 1
    <3>1. (far - 1) \in Int /\ q + (far - 1) = p - 1
      OBVIOUS
    <3> HIDE DEF far
    <3> QED
      BY <1>8, <3>1
  <2>3. Timecode(at + ((far - 1) * slice), slice) = Timecode(t, slice)
    BY <1>7, <1>10, <2>2
  <2> QED
    BY <2>1, <2>3
<1>11. CASE ~(p < 0 /\ u > 0 /\ r = 0) /\ ~(p < 0 /\ u = 0 /\ r > 0)
  <2>1. far \in -w .. w
    BY <1>5, <1>6
  <2>2. Timecode(at + (far * slice), slice) = IF p >= 0 \/ r = 0 THEN p ELSE p + 1
    <3>1. far \in Int /\ q + far = p
      OBVIOUS
    <3> HIDE DEF far
    <3> QED
      BY <1>8, <3>1
  <2>3. Timecode(at + (far * slice), slice) = Timecode(t, slice)
    BY <1>7, <1>11, <2>2
  <2> QED
    BY <2>1, <2>3
<1> QED
  BY <1>9, <1>10, <1>11

(* Every offset in the window is tried, and no other.                      *)
LEMMA OffsetsCoverTheWindow ==
  ASSUME NEW w \in Nat
  PROVE  /\ \A k \in 0 .. 2 * w : Offset(k) \in -w .. w
         /\ \A d \in -w .. w : \E k \in 0 .. 2 * w : Offset(k) = d
<1>1. ASSUME NEW k \in 0 .. 2 * w PROVE Offset(k) \in -w .. w
  BY <1>1, SMT DEF Offset
<1>2. ASSUME NEW d \in 0 .. w PROVE Offset(2 * d) = d /\ 2 * d \in 0 .. 2 * w
  BY <1>2, SMT DEF Offset
<1>3. ASSUME NEW d \in 1 .. w PROVE Offset(2 * d - 1) = -d /\ 2 * d - 1 \in 0 .. 2 * w
  BY <1>3, SMT DEF Offset
<1>4. ASSUME NEW d \in -w .. w PROVE \E k \in 0 .. 2 * w : Offset(k) = d
  <2>1. CASE d >= 0
    BY <1>2, <2>1
  <2>2. CASE d < 0
    <3>1. -d \in 1 .. w /\ -(-d) = d
      BY <2>2
    <3> QED
      BY <1>3, <3>1
  <2> QED
    BY <2>1, <2>2
<1> QED
  BY <1>1, <1>4

-----------------------------------------------------------------------------
(***************************************************************************)
(* The inductive invariant.  What a stored hash is the digest of has been  *)
(* confirmed for the function that computed it, although a creation that   *)
(* failed since may have put another function or other parameters beside   *)
(* it; a window is the one that was asked for; and the checks made so far  *)
(* determine the answer.                                                   *)
(***************************************************************************)
Digests == (Kdfs \cup {None}) \X (Params \cup {NULL}) \X (Salts \cup {NULL}) \X Passphrases

Entries ==
  [kdf : Kdfs \cup {None}, params : Params \cup {NULL}, salt : Salts \cup {NULL},
   hash : Digests \cup {<<>>}, totp : Configs \cup {NULL}, totp_window_size : Nat]

EntryOK ==
  /\ entry \in Entries
  /\ entry.hash # <<>> => <<entry.hash[1], entry.hash[4]>> \in set
  /\ entry.totp # NULL =>
       /\ asked \in WindowSizes
       /\ entry.totp_window_size = WindowInSlices(asked, entry.totp.slice_time_seconds)

CallOK ==
  call # NULL =>
    /\ call = [at |-> call.at, passphrase |-> call.passphrase, code |-> call.code,
               digest_correct |-> call.digest_correct, checks |-> call.checks,
               failed |-> call.failed, answer |-> call.answer]
    /\ call.at \in Times /\ call.checks \in Nat /\ call.failed \in BOOLEAN
    /\ call.answer \in BOOLEAN \cup {NULL} /\ call.digest_correct \in BOOLEAN
    /\ call.digest_correct <=> DigestCorrect(call.passphrase)

Fits(k) == TRUE \in passdb_validate_totp(call.code, call.at, Offset(k))

Differs(k) == FALSE \in passdb_validate_totp(call.code, call.at, Offset(k))

NoneFits(n) == ~call.failed => \A k \in 0 .. n - 1 : Differs(k)

AnswerOK ==
  call # NULL =>
    /\ call.answer = NULL =>
         call.checks <= 2 * entry.totp_window_size /\ NoneFits(call.checks)
    /\ call.answer # NULL /\ call.checks = 0 => call.failed /\ ~call.answer
    /\ call.answer # NULL /\ call.checks > 0 =>
         /\ call.checks <= 2 * entry.totp_window_size + 1
         /\ \/ /\ Fits(call.checks - 1) /\ NoneFits(call.checks - 1)
               /\ call.answer <=> call.digest_correct
            \/ /\ ~call.answer /\ NoneFits(call.checks)
               /\ call.checks = 2 * entry.totp_window_size + 1

IInv == EntryOK /\ CallOK /\ AnswerOK

(* A configuration that exists has a slice to divide by.                   *)
LEMMA ConfigHasSlice ==
  ASSUME NEW config \in Configs, config # NULL
  PROVE  config.slice_time_seconds \in 1 .. UintSize - 1
BY PassdbAssumption DEF Configs, rfc6238_new

(* No answer is neither of the answers.                                    *)
LEMMA NullIsNoAnswer == NULL # TRUE /\ NULL # FALSE
BY PassdbAssumption, Zenon

(* An empty entry holds no digest.                                         *)
LEMMA IInvInit == Init => IInv
<1> SUFFICES ASSUME Init PROVE IInv
  OBVIOUS
<1>1. EntryOK
  BY DEF Init, EntryOK, Entries
<1> QED
  BY <1>1 DEF Init, IInv, CallOK, AnswerOK

(* Creating an entry, also over another one and also half way.             *)
LEMMA CreateStep ==
  ASSUME IInv, NEW kdf \in Kdfs \cup {None}, NEW params \in Params,
         NEW passphrase \in Passphrases, passdb_create_entry(kdf, params, passphrase)
  PROVE  IInv'
<1> DEFINE new == [entry EXCEPT !.kdf = kdf, !.params = params]
<1>1. /\ entry \in Entries
      /\ entry.hash # <<>> => <<entry.hash[1], entry.hash[4]>> \in set
  BY DEF IInv, EntryOK
<1>2. /\ new \in Entries /\ new.kdf = kdf /\ new.params = params /\ new.hash = entry.hash
      /\ new.totp = entry.totp /\ new.totp_window_size = entry.totp_window_size
  BY <1>1 DEF Entries
<1>3. /\ call = NULL /\ call' = NULL /\ asked' = asked
      /\ \/ CreateFails(new, passphrase) /\ UNCHANGED set
         \/ CreateSucceeds(new, passphrase) /\ set' = set \cup {<<kdf, passphrase>>}
  BY DEF passdb_create_entry
<1> HIDE DEF new
<1>4. /\ entry' \in Entries
      /\ entry'.totp = entry.totp /\ entry'.totp_window_size = entry.totp_window_size
      /\ entry'.hash # <<>> => <<entry'.hash[1], entry'.hash[4]>> \in set'
  <2>1. CASE CreateFails(new, passphrase) /\ UNCHANGED set
    <3>1. PICK salt \in Salts \cup {new.salt}, hash \in {new.hash, <<>>} :
            entry' = [new EXCEPT !.salt = salt, !.hash = hash]
      BY <2>1 DEF CreateFails
    <3> QED
      BY <1>1, <1>2, <2>1, <3>1 DEF Entries
  <2>2. CASE CreateSucceeds(new, passphrase) /\ set' = set \cup {<<kdf, passphrase>>}
    <3>1. PICK salt \in Salts :
            LET salted == [new EXCEPT !.salt = salt]
            IN  entry' = IF new.kdf = None THEN salted
                         ELSE [salted EXCEPT !.hash = Digest(salted, passphrase)]
      BY <2>2 DEF CreateSucceeds
    <3> DEFINE salted == [new EXCEPT !.salt = salt]
               digest == <<kdf, params, salt, passphrase>>
    <3>2. salted \in Entries /\ salted.hash = entry.hash /\ Digest(salted, passphrase) = digest
      BY <1>2 DEF Entries, Digest
    <3>3. salted.totp = entry.totp /\ salted.totp_window_size = entry.totp_window_size
      BY <1>2 DEF Entries
    <3>4. digest \in Digests /\ digest[1] = kdf /\ digest[4] = passphrase
      BY DEF Digests
    <3>5. CASE new.kdf = None
      BY <1>1, <2>2, <3>1, <3>2, <3>3, <3>5
    <3>6. CASE new.kdf # None
      <4>1. entry' = [salted EXCEPT !.hash = digest]
        BY <3>1, <3>2, <3>6
      <4> HIDE DEF salted, digest
      <4>2. /\ entry' \in Entries /\ entry'.hash = digest
            /\ entry'.totp = salted.totp /\ entry'.totp_window_size = salted.totp_window_size
        BY <3>2, <3>4, <4>1 DEF Entries
      <4> QED
        BY <2>2, <3>3, <3>4, <4>2
    <3> QED
      BY <3>5, <3>6
  <2> QED
    BY <1>3, <2>1, <2>2
<1>5. EntryOK'
  BY <1>3, <1>4 DEF IInv, EntryOK
<1> QED
  BY <1>3, <1>5 DEF IInv, CallOK, AnswerOK

(* Attaching a configuration keeps the window next to the request for it.  *)
LEMMA AttachStep ==
  ASSUME IInv, NEW config \in Configs, NEW seconds \in WindowSizes,
         passdb_attach_totp(config, seconds)
  PROVE  IInv'
<1> DEFINE window == WindowInSlices(seconds, config.slice_time_seconds)
<1>1. /\ call = NULL /\ call' = NULL /\ config # NULL /\ asked' = seconds /\ set' = set
      /\ entry' = [entry EXCEPT !.totp = config, !.totp_window_size = window]
  BY DEF passdb_attach_totp
<1>2. window \in Nat
  <2>1. seconds \in Nat /\ config.slice_time_seconds \in Nat /\ config.slice_time_seconds > 0
        /\ UintSize \in Nat /\ UintSize > 0
    BY <1>1, ConfigHasSlice, PassdbAssumption
  <2> QED
    BY <2>1, RoundedUp
<1> HIDE DEF window
<1>3. /\ entry \in Entries
      /\ entry.hash # <<>> => <<entry.hash[1], entry.hash[4]>> \in set
  BY DEF IInv, EntryOK
<1>4. /\ entry' \in Entries /\ entry'.hash = entry.hash
      /\ entry'.totp = config /\ entry'.totp_window_size = window
  BY <1>1, <1>2, <1>3 DEF Entries
<1>5. EntryOK'
  BY <1>1, <1>3, <1>4 DEF EntryOK, window
<1> QED
  BY <1>1, <1>5 DEF IInv, CallOK, AnswerOK

(* A validation begins with no code tried, or fails at once.               *)
LEMMA ValidateStep ==
  ASSUME IInv, NEW typed, NEW at \in Times, passdb_validate(typed, at)
  PROVE  IInv'
<1> DEFINE begun == [at |-> at, passphrase |-> SubSeq(typed, 1, SplitAt(typed)),
                code |-> SubSeq(typed, SplitAt(typed) + 1, Len(typed)),
                digest_correct |-> DigestCorrect(SubSeq(typed, 1, SplitAt(typed))),
                checks |-> 0, failed |-> FALSE, answer |-> NULL]
<1>1. /\ UNCHANGED <<entry, set, asked>>
      /\ call' = begun \/ call' = [begun EXCEPT !.failed = TRUE, !.answer = FALSE]
  BY DEF passdb_validate
<1>2. EntryOK' /\ entry.totp_window_size \in Nat
  BY <1>1 DEF IInv, EntryOK, Entries
<1>3. /\ \A p : DigestCorrect(p)' <=> DigestCorrect(p)
      /\ \A p : DigestCorrect(p) \in BOOLEAN
  BY <1>1 DEF DigestCorrect, Digest
<1>4. CASE call' = begun
  <2>1. CallOK'
    BY <1>3, <1>4 DEF CallOK
  <2>2. AnswerOK'
    <3>1. /\ call'.answer = NULL /\ call'.checks = 0
          /\ 0 <= 2 * entry'.totp_window_size
      BY <1>1, <1>2, <1>4
    <3> QED
      BY <3>1 DEF AnswerOK, NoneFits
  <2> QED
    BY <1>2, <2>1, <2>2 DEF IInv
<1>5. CASE call' = [begun EXCEPT !.failed = TRUE, !.answer = FALSE]
  <2>1. CallOK'
    BY <1>3, <1>5 DEF CallOK
  <2>2. AnswerOK'
    <3>1. call'.answer = FALSE /\ call'.checks = 0 /\ call'.failed = TRUE
      BY <1>5
    <3>2. call'.answer # NULL /\ ~call'.answer /\ call'.failed
      BY <3>1, NullIsNoAnswer, Zenon
    <3>3. ~(call'.checks > 0)
      BY <3>1
    <3> QED
      BY <3>2, <3>3, Zenon DEF AnswerOK
  <2> QED
    BY <1>2, <2>1, <2>2 DEF IInv
<1> QED
  BY <1>1, <1>4, <1>5

(* One more code is compared.                                              *)
LEMMA CheckStep ==
  ASSUME IInv, CheckOffset
  PROVE  IInv'
<1>1. /\ call # NULL /\ call.answer = NULL
      /\ UNCHANGED <<entry, set, asked>>
  BY DEF CheckOffset, Checking
<1>. PICK k \in Nat : k = call.checks
  BY <1>1 DEF IInv, CallOK
<1> DEFINE results == passdb_validate_totp(call.code, call.at, Offset(k))
           answer(fits, failed) == IF fits /\ ~failed THEN call.digest_correct
                                   ELSE IF CheckGoesOn(k) THEN NULL ELSE FALSE
<1>2. PICK failed \in {FALSE, entry.totp # NULL}, fits \in results :
        call' = [call EXCEPT !.checks = k + 1, !.failed = call.failed \/ failed,
                             !.answer = answer(fits, failed)]
  BY DEF CheckOffset
<1> DEFINE fit == fits /\ ~failed
<1>3. /\ call = [at |-> call.at, passphrase |-> call.passphrase, code |-> call.code,
                 digest_correct |-> call.digest_correct, checks |-> k,
                 failed |-> call.failed, answer |-> call.answer]
      /\ call.at \in Times /\ k \in Nat /\ call.failed \in BOOLEAN
      /\ call.digest_correct \in BOOLEAN
      /\ call.digest_correct <=> DigestCorrect(call.passphrase)
      /\ k <= 2 * entry.totp_window_size /\ NoneFits(k)
      /\ entry.totp_window_size \in Nat
  BY <1>1 DEF IInv, CallOK, AnswerOK, EntryOK, Entries
<1>4. /\ call' = [at |-> call'.at, passphrase |-> call'.passphrase, code |-> call'.code,
                  digest_correct |-> call'.digest_correct, checks |-> call'.checks,
                  failed |-> call'.failed, answer |-> call'.answer]
      /\ call'.at = call.at /\ call'.passphrase = call.passphrase /\ call'.code = call.code
      /\ call'.digest_correct = call.digest_correct
      /\ call'.checks = k + 1
      /\ call'.failed = (call.failed \/ failed)
      /\ call'.answer = answer(fits, failed)
  BY <1>2, <1>3
<1>5. EntryOK'
  BY <1>1 DEF IInv, EntryOK
<1>6. answer(fits, failed) \in BOOLEAN \cup {NULL}
  BY <1>3
<1>7. CallOK'
  <2>1. DigestCorrect(call.passphrase)' <=> DigestCorrect(call.passphrase)
    BY <1>1, <1>4 DEF DigestCorrect, Digest
  <2>2. call'.failed \in BOOLEAN
    BY <1>4
  <2> HIDE DEF answer
  <2> QED
    BY <1>3, <1>4, <1>6, <2>1, <2>2 DEF CallOK
<1>8. \A j : (Fits(j)' <=> Fits(j)) /\ (Differs(j)' <=> Differs(j))
  BY <1>1, <1>4 DEF Fits, Differs, passdb_validate_totp, Shifts
<1>9. /\ fits => Fits(k)
      /\ ~fits => Differs(k)
  <2>1. results \subseteq BOOLEAN
    BY DEF passdb_validate_totp
  <2>2. fits = TRUE \/ fits = FALSE
    BY <2>1
  <2> QED
    BY <2>2, Zenon DEF Fits, Differs
<1> HIDE DEF results
<1>10. NoneFits(k)'
  BY <1>3, <1>4, <1>8 DEF NoneFits
<1>11. ASSUME ~fit PROVE NoneFits(k + 1)'
  <2> SUFFICES ASSUME ~call'.failed, NEW j \in 0 .. (k + 1) - 1 PROVE Differs(j)'
    BY DEF NoneFits
  <2>1. ~call.failed /\ ~failed
    BY <1>3, <1>4
  <2>2. CASE j = k
    BY <1>8, <1>9, <1>11, <2>1, <2>2
  <2>3. CASE j # k
    <3>1. j \in 0 .. k - 1
      BY <2>3
    <3> QED
      BY <1>3, <1>8, <2>1, <3>1 DEF NoneFits
  <2> QED
    BY <2>2, <2>3
<1>12. entry'.totp_window_size = entry.totp_window_size
  BY <1>1
<1>13. CASE fit
  <2>1. call'.answer = call.digest_correct
    BY <1>4, <1>13
  <2>2. Fits(k)'
    BY <1>8, <1>9, <1>13
  <2> QED
    <3>1. call'.answer # NULL
      BY <1>3, <2>1, NullIsNoAnswer, Zenon
    <3>2. call'.answer <=> call'.digest_correct
      BY <1>4, <2>1, Zenon
    <3>3. /\ ~(call'.checks = 0)
          /\ call'.checks <= 2 * entry'.totp_window_size + 1
          /\ call'.checks - 1 = k
      BY <1>3, <1>4, <1>12
    <3>4. Fits(call.checks - 1)' /\ NoneFits(call.checks - 1)'
      BY <1>10, <2>2, <3>3 DEF Fits, NoneFits
    <3> QED
      BY <1>5, <1>7, <3>1, <3>2, <3>3, <3>4, Zenon DEF IInv, AnswerOK
<1>14. CASE ~fit /\ CheckGoesOn(k)
  <2>1. call'.answer = NULL /\ k + 1 <= 2 * entry.totp_window_size
    BY <1>3, <1>4, <1>14 DEF CheckGoesOn
  <2> QED
    BY <1>4, <1>5, <1>7, <1>11, <1>12, <1>14, <2>1 DEF IInv, AnswerOK
<1>15. CASE ~fit /\ ~CheckGoesOn(k)
  <2>1. call'.answer = FALSE /\ k = 2 * entry.totp_window_size
    BY <1>3, <1>4, <1>15 DEF CheckGoesOn
  <2> QED
    <3>1. call'.answer # NULL /\ ~call'.answer
      BY <2>1, NullIsNoAnswer, Zenon
    <3>2. /\ ~(call'.checks = 0)
          /\ call'.checks <= 2 * entry'.totp_window_size + 1
          /\ call'.checks = 2 * entry'.totp_window_size + 1
          /\ call'.checks = k + 1
      BY <1>3, <1>4, <1>12, <2>1
    <3>3. NoneFits(call.checks)'
      BY <1>11, <1>15, <3>2 DEF NoneFits
    <3> QED
      BY <1>5, <1>7, <3>1, <3>2, <3>3, Zenon DEF IInv, AnswerOK
<1> QED
  BY <1>13, <1>14, <1>15

(* No step of the database breaks the invariant.                           *)
LEMMA IInvStep == IInv /\ [Next]_vars => IInv'
<1> SUFFICES ASSUME IInv, [Next]_vars PROVE IInv'
  OBVIOUS
<1>1. ASSUME NEW kdf \in Kdfs \cup {None}, NEW params \in Params, NEW passphrase \in Passphrases,
             passdb_create_entry(kdf, params, passphrase)
      PROVE  IInv'
  BY <1>1, CreateStep
<1>2. ASSUME NEW config \in Configs, NEW seconds \in WindowSizes,
             passdb_attach_totp(config, seconds)
      PROVE  IInv'
  BY <1>2, AttachStep
<1>3. ASSUME NEW passphrase \in Passphrases \cup {Wrong}, NEW code \in Codes, NEW at \in Times,
             passdb_validate(passphrase \o code, at)
      PROVE  IInv'
  BY <1>3, ValidateStep
<1>4. CASE CheckOffset
  BY <1>4, CheckStep
<1>5. CASE Answered
  BY <1>5 DEF Answered, IInv, EntryOK, CallOK, AnswerOK
<1>6. CASE UNCHANGED vars
  <2>1. EntryOK' /\ CallOK'
    BY <1>6 DEF vars, IInv, EntryOK, CallOK, DigestCorrect, Digest
  <2>2. \A j : (Fits(j)' <=> Fits(j)) /\ (Differs(j)' <=> Differs(j))
    BY <1>6 DEF vars, Fits, Differs, passdb_validate_totp, Shifts
  <2>3. Fits(call.checks - 1)' <=> Fits(call.checks - 1)
    BY <1>6 DEF vars, Fits, passdb_validate_totp, Shifts
  <2>4. AnswerOK'
    BY <1>6, <2>2, <2>3 DEF vars, IInv, AnswerOK, NoneFits
  <2> QED
    BY <2>1, <2>4 DEF IInv
<1> QED
  BY <1>1, <1>2, <1>3, <1>4, <1>5, <1>6 DEF Next

(* The invariant of every database.                                        *)
THEOREM Invariance == Spec => []IInv
<1>1. Init => IInv
  BY IInvInit
<1>2. IInv /\ [Next]_vars => IInv'
  BY IInvStep
<1> QED
  BY <1>1, <1>2, PTL DEF Spec

-----------------------------------------------------------------------------
(***************************************************************************)
(* What the invariant says of the answers.                                 *)
(***************************************************************************)
(* Only a passphrase whose digest is stored is accepted, and what is       *)
(* stored was confirmed by a creation with the function now in place.      *)
THEOREM OnlySetPassphrases == Spec => []AcceptedWasSet
<1>1. IInv => AcceptedWasSet
  <2> SUFFICES ASSUME IInv, Returned, entry.kdf # None, call.answer = TRUE
               PROVE  <<entry.kdf, call.passphrase>> \in set
    <3>1. IInv /\ Returned => call.answer = TRUE \/ ~call.answer
      BY Zenon DEF IInv, CallOK, Returned
    <3> QED
      BY <3>1, Zenon DEF AcceptedWasSet
  <2>1. call.digest_correct
    <3>1. call.checks = 0 \/ call.checks > 0
      BY DEF IInv, CallOK, Returned
    <3> QED
      BY <3>1, Zenon DEF IInv, AnswerOK, Returned
  <2>2. entry.hash = Digest(entry, call.passphrase)
    BY <2>1, Zenon DEF IInv, CallOK, Returned, DigestCorrect
  <2>3. entry.hash # <<>> /\ entry.hash[1] = entry.kdf /\ entry.hash[4] = call.passphrase
    BY <2>2 DEF Digest
  <2> QED
    BY <2>3 DEF IInv, EntryOK
<1> QED
  BY <1>1, Invariance, PTL

(* The number of codes compared depends on the code alone.                 *)
THEOREM TimingTellsNothing == Spec => []ChecksTellNothing
<1>1. IInv => ChecksTellNothing
  <2> SUFFICES ASSUME IInv, Returned, entry.totp # NULL, call.checks > 0, ~call.failed
               PROVE  /\ \A k \in 0 .. call.checks - 2 : Differs(k)
                      /\ Fits(call.checks - 1) \/ call.checks = 2 * entry.totp_window_size + 1
    BY DEF ChecksTellNothing, Fits, Differs
  <2>1. /\ NoneFits(call.checks - 1) \/ NoneFits(call.checks)
        /\ Fits(call.checks - 1) \/ call.checks = 2 * entry.totp_window_size + 1
        /\ call.checks \in Nat
    BY DEF IInv, AnswerOK, CallOK, Returned
  <2> QED
    BY <2>1 DEF NoneFits
<1> QED
  BY <1>1, Invariance, PTL

(* The slice, the window and the times of a validation.                    *)
LEMMA WindowOK ==
  ASSUME IInv, call # NULL, entry.totp # NULL
  PROVE  LET slice == entry.totp.slice_time_seconds
             window == entry.totp_window_size
         IN  /\ slice \in Nat /\ slice > 0 /\ window \in Nat
             /\ asked \in Nat /\ call.at \in Int /\ UintSize \in Nat /\ UintSize > 0
             /\ window * slice < asked + slice
             /\ asked + slice <= UintSize => asked <= window * slice
<1>1. /\ entry.totp.slice_time_seconds \in 1 .. UintSize - 1
      /\ asked \in 0 .. UintSize - 1 /\ UintSize \in Nat /\ call.at \in Int
      /\ entry.totp_window_size = WindowInSlices(asked, entry.totp.slice_time_seconds)
  BY ConfigHasSlice, PassdbAssumption DEF IInv, EntryOK, Entries, CallOK
<1>2. entry.totp.slice_time_seconds \in Nat /\ entry.totp.slice_time_seconds > 0
      /\ asked \in Nat /\ UintSize > 0
  BY <1>1
<1> QED
  BY <1>1, <1>2, RoundedUp

(* Whatever overflows, no code is looked for beyond the window of slices.  *)
LEMMA ShiftsStay ==
  ASSUME IInv, call # NULL, entry.totp # NULL,
         NEW off \in -entry.totp_window_size .. entry.totp_window_size, NEW shift \in Shifts(off)
  PROVE  LET far == entry.totp_window_size * entry.totp.slice_time_seconds
         IN  shift \in -far .. far
<1> DEFINE slice == entry.totp.slice_time_seconds
           window == entry.totp_window_size
           int == AsInt(slice)
           product == off * int
<1>1. /\ slice \in Nat /\ window \in Nat /\ UintSize \in Nat /\ UintSize > 0
  BY WindowOK
<1>2. shift = product \/ shift = AsInt(product)
  BY DEF Shifts
<1>3. off \in -window .. window
  OBVIOUS
<1> HIDE DEF slice, window
<1>4. int \in -slice .. slice
  BY <1>1, AsIntIs, slice \in -slice .. slice
<1> HIDE DEF int
<1>5. PICK size \in 0 .. window : off = size \/ off = -size
  BY <1>1, <1>3
<1>6. /\ size * int <= size * slice /\ -(size * slice) <= size * int
      /\ size * slice <= window * slice
  <2>1. int * size <= slice * size /\ (-slice) * size <= int * size
    BY <1>1, <1>4, <1>5, TimesKeepsOrder
  <2>2. size * slice <= window * slice
    BY <1>1, <1>5, TimesKeepsOrder
  <2>3. /\ int * size = size * int /\ slice * size = size * slice
        /\ (-slice) * size = -(size * slice)
    BY <1>1, <1>4, <1>5
  <2> QED
    BY <2>1, <2>2, <2>3
<1>7. window * slice \in Nat /\ size * int \in Int /\ size * slice \in Nat /\ product \in Int
  BY <1>1, <1>3, <1>4, <1>5
<1>8. product = size * int \/ product = -(size * int)
  BY <1>4, <1>5
<1>9. product \in -(window * slice) .. window * slice
  BY <1>6, <1>7, <1>8
<1> HIDE DEF product
<1>10. AsInt(product) \in -(window * slice) .. window * slice
  BY <1>1, <1>7, <1>9, AsIntIs
<1> QED
  BY <1>2, <1>9, <1>10 DEF slice, window

(* Where the last offset is an int of seconds, nothing overflows.          *)
LEMMA ShiftsAreSlices ==
  ASSUME IInv, call # NULL, entry.totp # NULL,
         entry.totp_window_size * entry.totp.slice_time_seconds <= IntMax,
         NEW off \in -entry.totp_window_size .. entry.totp_window_size
  PROVE  Shifts(off) = {off * entry.totp.slice_time_seconds}
<1> DEFINE slice == entry.totp.slice_time_seconds
           window == entry.totp_window_size
<1>1. /\ slice \in Nat /\ window \in Nat /\ UintSize \in Nat /\ UintSize > 0
  BY WindowOK
<1>2. window * slice <= IntMax /\ off \in -window .. window
  OBVIOUS
<1>3. Shifts(off) = {off * AsInt(slice), AsInt(off * AsInt(slice))}
  BY DEF Shifts
<1>4. IntMax \in Int
  BY <1>1 DEF IntMax
<1> HIDE DEF slice, window
<1>5. off * AsInt(slice) = off * slice
  <2>1. CASE off = 0
    BY <1>1, <2>1, AsIntIs
  <2>2. CASE off # 0
    <3>1. 1 * slice <= window * slice
      BY <1>1, <1>2, <2>2, TimesKeepsOrder
    <3>2. window * slice \in Int /\ 1 * slice = slice
      BY <1>1
    <3>3. slice \in -IntMax .. IntMax
      BY <1>1, <1>2, <1>4, <3>1, <3>2
    <3> QED
      BY <1>1, <3>3, AsIntIs
  <2> QED
    BY <2>1, <2>2
<1>6. off * slice \in -IntMax .. IntMax
  <2>1. off * slice <= window * slice /\ (-window) * slice <= off * slice
    BY <1>1, <1>2, TimesKeepsOrder
  <2>2. (-window) * slice = -(window * slice) /\ off * slice \in Int /\ window * slice \in Int
    BY <1>1, <1>2
  <2> QED
    BY <1>2, <1>4, <2>1, <2>2
<1>7. AsInt(off * slice) = off * slice
  BY <1>1, <1>6, AsIntIs
<1> QED
  BY <1>3, <1>5, <1>7 DEF slice

(* A time at most the window of slices away is one CodeTimes looks at.     *)
LEMMA CodeTimesInReach ==
  ASSUME IInv, call # NULL, entry.totp # NULL, NEW t \in Int,
         Distance(t, call.at) <= entry.totp_window_size * entry.totp.slice_time_seconds,
         call.code = rfc6238_generate_at(entry.totp, t)
  PROVE  t \in CodeTimes
<1> DEFINE slice == entry.totp.slice_time_seconds
           window == entry.totp_window_size
<1>1. /\ slice \in Nat /\ window \in Nat /\ asked \in Nat /\ call.at \in Int
  BY WindowOK
<1> HIDE DEF slice, window
<1>2. (window + 2) * slice = (window * slice) + (2 * slice) /\ window * slice \in Nat
  BY <1>1
<1>3. t \in call.at - (window + 2) * slice - asked .. call.at + (window + 2) * slice + asked
  <2>1. Distance(t, call.at) <= window * slice
    BY DEF slice, window
  <2> QED
    BY <1>1, <1>2, <2>1 DEF Distance
<1> QED
  BY <1>3 DEF CodeTimes, slice, window

(* Nothing older than the window and a slice lets anybody in.              *)
THEOREM OnlyFreshCodes == Spec => []AcceptedIsFresh
<1>1. IInv => AcceptedIsFresh
  <2> SUFFICES ASSUME IInv, Returned, entry.totp # NULL, call.answer = TRUE
               PROVE  \E t \in CodeTimes :
                        Distance(t, call.at) < asked + entry.totp.slice_time_seconds
    <3>1. IInv /\ Returned => call.answer = TRUE \/ ~call.answer
      BY Zenon DEF IInv, CallOK, Returned
    <3> QED
      BY <3>1, Zenon DEF AcceptedIsFresh
  <2> DEFINE slice == entry.totp.slice_time_seconds
             window == entry.totp_window_size
             k == call.checks - 1
  <2>1. call # NULL
    BY DEF Returned
  <2>2. /\ slice \in Nat /\ slice > 0 /\ window \in Nat /\ asked \in Nat /\ call.at \in Int
        /\ window * slice < asked + slice
    BY <2>1, WindowOK
  <2>3. Fits(call.checks - 1) /\ call.checks > 0
        /\ call.checks <= 2 * entry.totp_window_size + 1
    <3>1. call.checks = 0 \/ call.checks > 0
      BY <2>1 DEF IInv, CallOK
    <3> QED
      BY <3>1, Zenon DEF IInv, AnswerOK, Returned
  <2>4. Offset(k) \in -window .. window
    <3>1. k \in 0 .. 2 * window
      BY <2>1, <2>2, <2>3 DEF IInv, CallOK
    <3> HIDE DEF k, window
    <3> QED
      BY <2>2, <3>1, OffsetsCoverTheWindow
  <2>5. PICK shift \in Shifts(Offset(k)) :
          call.code = rfc6238_generate_at(entry.totp, call.at + shift)
    BY <2>3 DEF Fits, passdb_validate_totp
  <2> DEFINE t == call.at + shift
  <2>6. t \in Int /\ Distance(t, call.at) <= window * slice
    <3>1. shift \in -(window * slice) .. window * slice
      BY <2>1, <2>4, <2>5, ShiftsStay
    <3> HIDE DEF k, window, slice
    <3>2. window * slice \in Int
      BY <2>2
    <3> QED
      BY <2>2, <3>1, <3>2 DEF Distance
  <2>7. t \in CodeTimes
    BY <2>1, <2>5, <2>6, CodeTimesInReach
  <2>8. Distance(t, call.at) \in Int /\ window * slice \in Int
    BY <2>2, <2>6 DEF Distance
  <2>9. Distance(t, call.at) < asked + slice
    BY <2>2, <2>6, <2>8
  <2> QED
    BY <2>7, <2>9
<1> QED
  BY <1>1, Invariance, PTL

(* Every code of the window lets in.                                       *)
THEOREM WindowIsCovered == Spec => []CodeInWindowAccepted
<1>1. IInv => CodeInWindowAccepted
  <2> SUFFICES ASSUME IInv, Returned, entry.totp # NULL, ~call.failed, call.digest_correct,
                      asked + entry.totp.slice_time_seconds <= UintSize,
                      entry.totp_window_size * entry.totp.slice_time_seconds <= IntMax,
                      NEW t \in CodeTimes, Distance(t, call.at) <= asked
               PROVE  call.answer
    BY Zenon DEF CodeInWindowAccepted
  <2> DEFINE slice == entry.totp.slice_time_seconds
             window == entry.totp_window_size
  <2>1. call # NULL
    BY DEF Returned
  <2>2. /\ slice \in Nat /\ slice > 0 /\ window \in Nat /\ asked \in Nat /\ call.at \in Int
        /\ asked <= window * slice
    BY <2>1, WindowOK
  <2>3. t \in Int /\ call.code = rfc6238_generate_at(entry.totp, t)
    <3>1. (window + 2) * slice \in Int
      BY <2>2
    <3> QED
      BY <2>2, <3>1 DEF CodeTimes
  <2>4. \E k \in 0 .. 2 * window : ~Differs(k)
    <3>1. ASSUME NEW d \in -window .. window PROVE Shifts(d) = {d * slice}
      BY <2>1, <3>1, ShiftsAreSlices
    <3> HIDE DEF slice, window
    <3>2. Distance(t, call.at) <= window * slice
      BY <2>2, <2>3 DEF Distance
    <3>3. PICK d \in -window .. window :
            Timecode(call.at + (d * slice), slice) = Timecode(t, slice)
      BY <2>2, <2>3, <3>2, NoSliceMissed
    <3>4. PICK k \in 0 .. 2 * window : Offset(k) = d
      BY <2>2, OffsetsCoverTheWindow
    <3>5. call.code = rfc6238_generate_at(entry.totp, call.at + (Offset(k) * slice))
      BY <2>3, <3>3, <3>4 DEF rfc6238_generate_at, slice
    <3>6. ~Differs(k)
      BY <3>1, <3>4, <3>5 DEF Differs, passdb_validate_totp, slice
    <3> QED
      BY <3>6
  <2>5. ~ (NoneFits(call.checks) /\ call.checks = 2 * entry.totp_window_size + 1)
    <3>1. (2 * window + 1) - 1 = 2 * window
      BY <2>2
    <3> QED
      BY <2>4, <3>1 DEF NoneFits
  <2>6. call.checks = 0 \/ call.checks > 0
    BY <2>1 DEF IInv, CallOK
  <2> QED
    BY <2>5, <2>6, Zenon DEF IInv, AnswerOK, Returned
<1> QED
  BY <1>1, Invariance, PTL

-----------------------------------------------------------------------------
(***************************************************************************)
(* Base32.  A number of w bits is the sum of its bits' weights.            *)
(***************************************************************************)
(* Bit j of x, from the left.                                              *)
BitOf(x, w, j) == (x \div 2 ^ (w - 1 - j)) % 2

IsFive(x, b0, b1, b2, b3, b4) == x = 16 * b0 + 8 * b1 + 4 * b2 + 2 * b3 + b4

IsEight(x, b0, b1, b2, b3, b4, b5, b6, b7) ==
  x = 128 * b0 + 64 * b1 + 32 * b2 + 16 * b3 + 8 * b4 + 4 * b5 + 2 * b6 + b7

(* The powers of two up to the weight of a byte's first bit.               *)
LEMMA Powers ==
  /\ 2 ^ 0 = 1 /\ 2 ^ 1 = 2 /\ 2 ^ 2 = 4 /\ 2 ^ 3 = 8
  /\ 2 ^ 4 = 16 /\ 2 ^ 5 = 32 /\ 2 ^ 6 = 64 /\ 2 ^ 7 = 128
OBVIOUS

(* Every character of the alphabet is such a sum of five bits.             *)
LEMMA FiveExist ==
  ASSUME NEW m \in 0 .. 31
  PROVE  \E b0, b1, b2, b3, b4 \in {0, 1} : IsFive(m, b0, b1, b2, b3, b4)
BY DEF IsFive

(* Its bits are the five.                                                  *)
LEMMA FiveBits ==
  ASSUME NEW x, NEW b0 \in {0, 1}, NEW b1 \in {0, 1}, NEW b2 \in {0, 1}, NEW b3 \in {0, 1},
         NEW b4 \in {0, 1}, IsFive(x, b0, b1, b2, b3, b4)
  PROVE  /\ BitOf(x, 5, 0) = b0 /\ BitOf(x, 5, 1) = b1 /\ BitOf(x, 5, 2) = b2
         /\ BitOf(x, 5, 3) = b3 /\ BitOf(x, 5, 4) = b4
<1>1. /\ (x \div 16) % 2 = b0 /\ (x \div 8) % 2 = b1 /\ (x \div 4) % 2 = b2
      /\ (x \div 2) % 2 = b3 /\ (x \div 1) % 2 = b4
  BY DEF IsFive
<1>2. 5 - 1 - 0 = 4 /\ 5 - 1 - 1 = 3 /\ 5 - 1 - 2 = 2 /\ 5 - 1 - 3 = 1 /\ 5 - 1 - 4 = 0
  OBVIOUS
<1> QED
  BY <1>1, <1>2, Powers DEF BitOf

(* The same for the sum of eight.                                          *)
LEMMA EightBits ==
  ASSUME NEW x, NEW b0 \in {0, 1}, NEW b1 \in {0, 1}, NEW b2 \in {0, 1}, NEW b3 \in {0, 1},
         NEW b4 \in {0, 1}, NEW b5 \in {0, 1}, NEW b6 \in {0, 1}, NEW b7 \in {0, 1},
         IsEight(x, b0, b1, b2, b3, b4, b5, b6, b7)
  PROVE  /\ BitOf(x, 8, 0) = b0 /\ BitOf(x, 8, 1) = b1 /\ BitOf(x, 8, 2) = b2
         /\ BitOf(x, 8, 3) = b3 /\ BitOf(x, 8, 4) = b4 /\ BitOf(x, 8, 5) = b5
         /\ BitOf(x, 8, 6) = b6 /\ BitOf(x, 8, 7) = b7
<1>1. /\ (x \div 128) % 2 = b0 /\ (x \div 64) % 2 = b1
      /\ (x \div 32) % 2 = b2 /\ (x \div 16) % 2 = b3
      /\ (x \div 8) % 2 = b4 /\ (x \div 4) % 2 = b5
      /\ (x \div 2) % 2 = b6 /\ (x \div 1) % 2 = b7
  BY DEF IsEight
<1>2. /\ 8 - 1 - 0 = 7 /\ 8 - 1 - 1 = 6 /\ 8 - 1 - 2 = 5 /\ 8 - 1 - 3 = 4
      /\ 8 - 1 - 4 = 3 /\ 8 - 1 - 5 = 2 /\ 8 - 1 - 6 = 1 /\ 8 - 1 - 7 = 0
  OBVIOUS
<1> QED
  BY <1>1, <1>2, Powers DEF BitOf

(* Where bit j of byte i of a group comes from: a character and its bit.   *)
Source(i, j) == <<(8 * i + j) \div 5 + 1, (8 * i + j) % 5>>

(* Byte i has the bits that its sources have.                              *)
HasSources(x, m, i) ==
  x \in Int /\ \A j \in 0 .. 7 : BitOf(x, 8, j) = BitOf(m[Source(i, j)[1]], 5, Source(i, j)[2])

(* Byte 0 takes a whole character and the first three bits of the next.    *)
LEMMA Byte0 ==
  ASSUME NEW m, m[1] \in 0 .. 31, m[2] \in 0 .. 31
  PROVE  HasSources(Byte(m, 0), m, 0)
<1> DEFINE x == Byte(m, 0)
<1>1. PICK p0, p1, p2, p3, p4 \in {0, 1} : IsFive(m[1], p0, p1, p2, p3, p4)
  BY FiveExist
<1>2. PICK q0, q1, q2, q3, q4 \in {0, 1} : IsFive(m[2], q0, q1, q2, q3, q4)
  BY FiveExist
<1>3. x = m[1] * 8 + m[2] \div 4
  BY DEF Byte
<1>4. IsEight(x, p0, p1, p2, p3, p4, q0, q1, q2)
  BY <1>1, <1>2, <1>3 DEF IsFive, IsEight
<1>5. /\ BitOf(x, 8, 0) = p0 /\ BitOf(x, 8, 1) = p1
      /\ BitOf(x, 8, 2) = p2 /\ BitOf(x, 8, 3) = p3
      /\ BitOf(x, 8, 4) = p4 /\ BitOf(x, 8, 5) = q0
      /\ BitOf(x, 8, 6) = q1 /\ BitOf(x, 8, 7) = q2
  BY <1>4, EightBits
<1>6. /\ BitOf(m[1], 5, 0) = p0 /\ BitOf(m[1], 5, 1) = p1 /\ BitOf(m[1], 5, 2) = p2
      /\ BitOf(m[1], 5, 3) = p3 /\ BitOf(m[1], 5, 4) = p4
  BY <1>1, FiveBits
<1>7. BitOf(m[2], 5, 0) = q0 /\ BitOf(m[2], 5, 1) = q1 /\ BitOf(m[2], 5, 2) = q2
  BY <1>2, FiveBits
<1>8. /\ Source(0, 0) = <<1, 0>> /\ Source(0, 1) = <<1, 1>>
      /\ Source(0, 2) = <<1, 2>> /\ Source(0, 3) = <<1, 3>>
      /\ Source(0, 4) = <<1, 4>> /\ Source(0, 5) = <<2, 0>>
      /\ Source(0, 6) = <<2, 1>> /\ Source(0, 7) = <<2, 2>>
  BY DEF Source
<1>9. x \in Int
  BY <1>4 DEF IsEight
<1> HIDE DEF x
<1>10. ASSUME NEW j \in 0 .. 7
      PROVE  BitOf(x, 8, j) = BitOf(m[Source(0, j)[1]], 5, Source(0, j)[2])
  <2>1. j \in {0, 1, 2, 3, 4, 5, 6, 7}
    OBVIOUS
  <2> QED
    BY <2>1, <1>5, <1>6, <1>7, <1>8
<1> QED
  BY <1>9, <1>10 DEF HasSources, x

(* Byte 1 takes the rest of character 2, all of 3 and one bit of 4.        *)
LEMMA Byte1 ==
  ASSUME NEW m, m[2] \in 0 .. 31, m[3] \in 0 .. 31, m[4] \in 0 .. 31
  PROVE  HasSources(Byte(m, 1), m, 1)
<1> DEFINE x == Byte(m, 1)
<1>1. PICK p0, p1, p2, p3, p4 \in {0, 1} : IsFive(m[2], p0, p1, p2, p3, p4)
  BY FiveExist
<1>2. PICK q0, q1, q2, q3, q4 \in {0, 1} : IsFive(m[3], q0, q1, q2, q3, q4)
  BY FiveExist
<1>3. PICK r0, r1, r2, r3, r4 \in {0, 1} : IsFive(m[4], r0, r1, r2, r3, r4)
  BY FiveExist
<1>4. x = (m[2] * 64 + m[3] * 2 + m[4] \div 16) % 256
  BY DEF Byte
<1>5. IsEight(x, p3, p4, q0, q1, q2, q3, q4, r0)
  BY <1>1, <1>2, <1>3, <1>4 DEF IsFive, IsEight
<1>6. /\ BitOf(x, 8, 0) = p3 /\ BitOf(x, 8, 1) = p4
      /\ BitOf(x, 8, 2) = q0 /\ BitOf(x, 8, 3) = q1
      /\ BitOf(x, 8, 4) = q2 /\ BitOf(x, 8, 5) = q3
      /\ BitOf(x, 8, 6) = q4 /\ BitOf(x, 8, 7) = r0
  BY <1>5, EightBits
<1>7. BitOf(m[2], 5, 3) = p3 /\ BitOf(m[2], 5, 4) = p4
  BY <1>1, FiveBits
<1>8. /\ BitOf(m[3], 5, 0) = q0 /\ BitOf(m[3], 5, 1) = q1 /\ BitOf(m[3], 5, 2) = q2
      /\ BitOf(m[3], 5, 3) = q3 /\ BitOf(m[3], 5, 4) = q4
  BY <1>2, FiveBits
<1>9. BitOf(m[4], 5, 0) = r0
  BY <1>3, FiveBits
<1>10. /\ Source(1, 0) = <<2, 3>> /\ Source(1, 1) = <<2, 4>>
       /\ Source(1, 2) = <<3, 0>> /\ Source(1, 3) = <<3, 1>>
      /\ Source(1, 4) = <<3, 2>> /\ Source(1, 5) = <<3, 3>>
      /\ Source(1, 6) = <<3, 4>> /\ Source(1, 7) = <<4, 0>>
  BY DEF Source
<1>11. x \in Int
  BY <1>5 DEF IsEight
<1> HIDE DEF x
<1>12. ASSUME NEW j \in 0 .. 7
      PROVE  BitOf(x, 8, j) = BitOf(m[Source(1, j)[1]], 5, Source(1, j)[2])
  <2>1. j \in {0, 1, 2, 3, 4, 5, 6, 7}
    OBVIOUS
  <2> QED
    BY <2>1, <1>6, <1>7, <1>8, <1>9, <1>10
<1> QED
  BY <1>11, <1>12 DEF HasSources, x

(* Byte 2 takes the rest of character 4 and four bits of 5.                *)
LEMMA Byte2 ==
  ASSUME NEW m, m[4] \in 0 .. 31, m[5] \in 0 .. 31
  PROVE  HasSources(Byte(m, 2), m, 2)
<1> DEFINE x == Byte(m, 2)
<1>1. PICK p0, p1, p2, p3, p4 \in {0, 1} : IsFive(m[4], p0, p1, p2, p3, p4)
  BY FiveExist
<1>2. PICK q0, q1, q2, q3, q4 \in {0, 1} : IsFive(m[5], q0, q1, q2, q3, q4)
  BY FiveExist
<1>3. x = (m[4] * 16 + m[5] \div 2) % 256
  BY DEF Byte
<1>4. IsEight(x, p1, p2, p3, p4, q0, q1, q2, q3)
  BY <1>1, <1>2, <1>3 DEF IsFive, IsEight
<1>5. /\ BitOf(x, 8, 0) = p1 /\ BitOf(x, 8, 1) = p2
      /\ BitOf(x, 8, 2) = p3 /\ BitOf(x, 8, 3) = p4
      /\ BitOf(x, 8, 4) = q0 /\ BitOf(x, 8, 5) = q1
      /\ BitOf(x, 8, 6) = q2 /\ BitOf(x, 8, 7) = q3
  BY <1>4, EightBits
<1>6. /\ BitOf(m[4], 5, 1) = p1 /\ BitOf(m[4], 5, 2) = p2
      /\ BitOf(m[4], 5, 3) = p3 /\ BitOf(m[4], 5, 4) = p4
  BY <1>1, FiveBits
<1>7. /\ BitOf(m[5], 5, 0) = q0 /\ BitOf(m[5], 5, 1) = q1
      /\ BitOf(m[5], 5, 2) = q2 /\ BitOf(m[5], 5, 3) = q3
  BY <1>2, FiveBits
<1>8. /\ Source(2, 0) = <<4, 1>> /\ Source(2, 1) = <<4, 2>>
      /\ Source(2, 2) = <<4, 3>> /\ Source(2, 3) = <<4, 4>>
      /\ Source(2, 4) = <<5, 0>> /\ Source(2, 5) = <<5, 1>>
      /\ Source(2, 6) = <<5, 2>> /\ Source(2, 7) = <<5, 3>>
  BY DEF Source
<1>9. x \in Int
  BY <1>4 DEF IsEight
<1> HIDE DEF x
<1>10. ASSUME NEW j \in 0 .. 7
      PROVE  BitOf(x, 8, j) = BitOf(m[Source(2, j)[1]], 5, Source(2, j)[2])
  <2>1. j \in {0, 1, 2, 3, 4, 5, 6, 7}
    OBVIOUS
  <2> QED
    BY <2>1, <1>5, <1>6, <1>7, <1>8
<1> QED
  BY <1>9, <1>10 DEF HasSources, x

(* Byte 3 takes the last bit of character 5, all of 6 and two bits of 7.   *)
LEMMA Byte3 ==
  ASSUME NEW m, m[5] \in 0 .. 31, m[6] \in 0 .. 31, m[7] \in 0 .. 31
  PROVE  HasSources(Byte(m, 3), m, 3)
<1> DEFINE x == Byte(m, 3)
<1>1. PICK p0, p1, p2, p3, p4 \in {0, 1} : IsFive(m[5], p0, p1, p2, p3, p4)
  BY FiveExist
<1>2. PICK q0, q1, q2, q3, q4 \in {0, 1} : IsFive(m[6], q0, q1, q2, q3, q4)
  BY FiveExist
<1>3. PICK r0, r1, r2, r3, r4 \in {0, 1} : IsFive(m[7], r0, r1, r2, r3, r4)
  BY FiveExist
<1>4. x = (m[5] * 128 + m[6] * 4 + m[7] \div 8) % 256
  BY DEF Byte
<1>5. IsEight(x, p4, q0, q1, q2, q3, q4, r0, r1)
  BY <1>1, <1>2, <1>3, <1>4 DEF IsFive, IsEight
<1>6. /\ BitOf(x, 8, 0) = p4 /\ BitOf(x, 8, 1) = q0
      /\ BitOf(x, 8, 2) = q1 /\ BitOf(x, 8, 3) = q2
      /\ BitOf(x, 8, 4) = q3 /\ BitOf(x, 8, 5) = q4
      /\ BitOf(x, 8, 6) = r0 /\ BitOf(x, 8, 7) = r1
  BY <1>5, EightBits
<1>7. BitOf(m[5], 5, 4) = p4
  BY <1>1, FiveBits
<1>8. /\ BitOf(m[6], 5, 0) = q0 /\ BitOf(m[6], 5, 1) = q1 /\ BitOf(m[6], 5, 2) = q2
      /\ BitOf(m[6], 5, 3) = q3 /\ BitOf(m[6], 5, 4) = q4
  BY <1>2, FiveBits
<1>9. BitOf(m[7], 5, 0) = r0 /\ BitOf(m[7], 5, 1) = r1
  BY <1>3, FiveBits
<1>10. /\ Source(3, 0) = <<5, 4>> /\ Source(3, 1) = <<6, 0>>
       /\ Source(3, 2) = <<6, 1>> /\ Source(3, 3) = <<6, 2>>
      /\ Source(3, 4) = <<6, 3>> /\ Source(3, 5) = <<6, 4>>
      /\ Source(3, 6) = <<7, 0>> /\ Source(3, 7) = <<7, 1>>
  BY DEF Source
<1>11. x \in Int
  BY <1>5 DEF IsEight
<1> HIDE DEF x
<1>12. ASSUME NEW j \in 0 .. 7
      PROVE  BitOf(x, 8, j) = BitOf(m[Source(3, j)[1]], 5, Source(3, j)[2])
  <2>1. j \in {0, 1, 2, 3, 4, 5, 6, 7}
    OBVIOUS
  <2> QED
    BY <2>1, <1>6, <1>7, <1>8, <1>9, <1>10
<1> QED
  BY <1>11, <1>12 DEF HasSources, x

(* Byte 4 takes the rest of character 7 and all of 8.                      *)
LEMMA Byte4 ==
  ASSUME NEW m, m[7] \in 0 .. 31, m[8] \in 0 .. 31
  PROVE  HasSources(Byte(m, 4), m, 4)
<1> DEFINE x == Byte(m, 4)
<1>1. PICK p0, p1, p2, p3, p4 \in {0, 1} : IsFive(m[7], p0, p1, p2, p3, p4)
  BY FiveExist
<1>2. PICK q0, q1, q2, q3, q4 \in {0, 1} : IsFive(m[8], q0, q1, q2, q3, q4)
  BY FiveExist
<1>3. x = (m[7] * 32 + m[8]) % 256
  BY DEF Byte
<1>4. IsEight(x, p2, p3, p4, q0, q1, q2, q3, q4)
  BY <1>1, <1>2, <1>3 DEF IsFive, IsEight
<1>5. /\ BitOf(x, 8, 0) = p2 /\ BitOf(x, 8, 1) = p3
      /\ BitOf(x, 8, 2) = p4 /\ BitOf(x, 8, 3) = q0
      /\ BitOf(x, 8, 4) = q1 /\ BitOf(x, 8, 5) = q2
      /\ BitOf(x, 8, 6) = q3 /\ BitOf(x, 8, 7) = q4
  BY <1>4, EightBits
<1>6. BitOf(m[7], 5, 2) = p2 /\ BitOf(m[7], 5, 3) = p3 /\ BitOf(m[7], 5, 4) = p4
  BY <1>1, FiveBits
<1>7. /\ BitOf(m[8], 5, 0) = q0 /\ BitOf(m[8], 5, 1) = q1 /\ BitOf(m[8], 5, 2) = q2
      /\ BitOf(m[8], 5, 3) = q3 /\ BitOf(m[8], 5, 4) = q4
  BY <1>2, FiveBits
<1>8. /\ Source(4, 0) = <<7, 2>> /\ Source(4, 1) = <<7, 3>>
      /\ Source(4, 2) = <<7, 4>> /\ Source(4, 3) = <<8, 0>>
      /\ Source(4, 4) = <<8, 1>> /\ Source(4, 5) = <<8, 2>>
      /\ Source(4, 6) = <<8, 3>> /\ Source(4, 7) = <<8, 4>>
  BY DEF Source
<1>9. x \in Int
  BY <1>4 DEF IsEight
<1> HIDE DEF x
<1>10. ASSUME NEW j \in 0 .. 7
      PROVE  BitOf(x, 8, j) = BitOf(m[Source(4, j)[1]], 5, Source(4, j)[2])
  <2>1. j \in {0, 1, 2, 3, 4, 5, 6, 7}
    OBVIOUS
  <2> QED
    BY <2>1, <1>5, <1>6, <1>7, <1>8
<1> QED
  BY <1>9, <1>10 DEF HasSources, x

(* A string is shorter than its NUL, and has none inside.                  *)
LEMMA InputIs ==
  ASSUME input \in Inputs
  PROVE  /\ Len(input) \in Nat
         /\ \A i \in 1 .. Len(input) :
              input[i] \in (0 .. 31) \cup {Padding, Illegal} /\ input[i] # Nul
<1>1. input \in Seq((0 .. 31) \cup {Padding, Illegal})
  BY Base32Assumption
<1>2. \A x \in (0 .. 31) \cup {Padding, Illegal} : x # Nul
  BY Base32Assumption, Zenon
<1>3. ASSUME NEW i \in 1 .. Len(input) PROVE input[i] \in (0 .. 31) \cup {Padding, Illegal}
  <2> DEFINE C == (0 .. 31) \cup {Padding, Illegal}
  <2>1. input \in Seq(C)
    BY <1>1
  <2> HIDE DEF C
  <2>2. input[i] \in C
    BY <2>1
  <2> QED
    BY <2>2 DEF C
<1>4. Len(input) \in Nat
  BY <1>1
<1> QED
  BY <1>2, <1>3, <1>4

(* GroupLength is the number of characters before the group's end.         *)
LEMMA GroupLengthIs ==
  ASSUME src_offset \in Nat
  PROVE  /\ GroupLength \in 0 .. 8
         /\ \A i \in 1 .. GroupLength : Char(src_offset + i) \notin {Nul, Padding}
         /\ GroupLength < 8 => Char(src_offset + GroupLength + 1) \in {Nul, Padding}
<1> DEFINE T == {n \in 0 .. 8 : \A i \in 1 .. n : Char(src_offset + i) \notin {Nul, Padding}}
<1>1. T \in SUBSET (0 .. 8) /\ 0 \in T
  OBVIOUS
<1>2. PICK m \in T : \A k \in T : k <= m
  BY <1>1, Largest
<1>3. GroupLength = m
  BY <1>1, <1>2, MaxIs, T \in SUBSET Int DEF GroupLength
<1>4. m \in 0 .. 8 /\ \A i \in 1 .. m : Char(src_offset + i) \notin {Nul, Padding}
  OBVIOUS
<1>5. ASSUME m < 8, Char(src_offset + m + 1) \notin {Nul, Padding} PROVE FALSE
  <2>1. \A i \in 1 .. m + 1 : Char(src_offset + i) \notin {Nul, Padding}
    <3> SUFFICES ASSUME NEW i \in 1 .. m + 1 PROVE Char(src_offset + i) \notin {Nul, Padding}
      OBVIOUS
    <3>1. i \in 1 .. m \/ i = m + 1
      BY <1>4
    <3>2. src_offset + (m + 1) = src_offset + m + 1
      BY <1>4
    <3> QED
      BY <1>4, <1>5, <3>1, <3>2
  <2>2. m + 1 \in T
    BY <1>4, <1>5, <2>1
  <2> QED
    BY <1>2, <1>4, <2>2
<1> QED
  BY <1>3, <1>4, <1>5

(* The group lies before the NUL, and ends at it or at a padding character *)
(* unless it is full.                                                      *)
LEMMA GroupIs ==
  ASSUME input \in Inputs, src_offset \in Nat, src_offset <= Len(input)
  PROVE  /\ GroupLength \in 0 .. 8 /\ src_offset + GroupLength <= Len(input)
         /\ Len(Mapped) = GroupLength /\ DOMAIN Mapped = 1 .. GroupLength
         /\ \A i \in 1 .. GroupLength :
              Mapped[i] = input[src_offset + i] /\ Mapped[i] \in (0 .. 31) \cup {Illegal}
                /\ Mapped[i] # Padding
         /\ GroupLength < 8 => \/ src_offset + GroupLength = Len(input)
                               \/ input[src_offset + GroupLength + 1] = Padding
<1> DEFINE n == GroupLength
<1>1. /\ n \in 0 .. 8
      /\ \A i \in 1 .. n : Char(src_offset + i) \notin {Nul, Padding}
      /\ n < 8 => Char(src_offset + n + 1) \in {Nul, Padding}
  BY GroupLengthIs
<1>2. /\ Len(input) \in Nat
      /\ \A i \in 1 .. Len(input) :
           input[i] \in (0 .. 31) \cup {Padding, Illegal} /\ input[i] # Nul
  BY InputIs
<1>3. input \in Seq((0 .. 31) \cup {Padding, Illegal})
  BY Base32Assumption
<1>4. Mapped = SubSeq(input, src_offset + 1, src_offset + n)
  BY DEF Mapped
<1> HIDE DEF n
<1>5. \A i \in 1 .. n : src_offset + i <= Len(input) /\ input[src_offset + i] # Padding
  BY <1>1, <1>2 DEF Char
<1>6. src_offset + n <= Len(input)
  <2>1. CASE n = 0
    BY <2>1, <1>2
  <2>2. CASE n # 0
    BY <2>2, <1>1, <1>5
  <2> QED
    BY <2>1, <2>2
<1>7. /\ Len(Mapped) = n /\ DOMAIN Mapped = 1 .. n
      /\ \A i \in 1 .. n : Mapped[i] = input[src_offset + i]
  BY <1>1, <1>3, <1>4, <1>6
<1>8. ASSUME NEW i \in 1 .. n PROVE input[src_offset + i] \in (0 .. 31) \cup {Illegal}
  <2>1. src_offset + i \in 1 .. Len(input)
    <3>1. src_offset + i <= Len(input)
      BY <1>5
    <3>2. i \in Nat /\ i >= 1
      BY <1>1
    <3> QED
      BY <1>2, <3>1, <3>2
  <2>2. /\ input[src_offset + i] \in (0 .. 31) \cup {Padding, Illegal}
        /\ input[src_offset + i] # Padding
    BY <1>2, <1>5, <2>1
  <2> QED
    BY <2>2
<1>9. n < 8 => src_offset + n = Len(input) \/ input[src_offset + n + 1] = Padding
  <2> SUFFICES ASSUME n < 8, src_offset + n # Len(input) PROVE input[src_offset + n + 1] = Padding
    OBVIOUS
  <2>1. src_offset + n + 1 \in 1 .. Len(input)
    BY <1>1, <1>2, <1>6
  <2>2. Char(src_offset + n + 1) = input[src_offset + n + 1] /\ input[src_offset + n + 1] # Nul
    BY <1>2, <2>1 DEF Char
  <2> QED
    BY <1>1, <2>2
<1> QED
  BY <1>1, <1>5, <1>6, <1>7, <1>8, <1>9 DEF n

(* Text is the number of characters before the first padding or the end.   *)
LEMMA TextIs ==
  ASSUME input \in Inputs
  PROVE  /\ Text \in 0 .. Len(input)
         /\ \A i \in 1 .. Text : input[i] # Padding
         /\ \A n \in 0 .. Len(input) : (\A i \in 1 .. n : input[i] # Padding) => n <= Text
<1> DEFINE T == {n \in 0 .. Len(input) : Padding \notin Range(SubSeq(input, 1, n))}
<1>1. Len(input) \in Nat /\ input \in Seq((0 .. 31) \cup {Padding, Illegal})
  BY Base32Assumption
<1>2. ASSUME NEW n \in 0 .. Len(input)
      PROVE  Padding \notin Range(SubSeq(input, 1, n)) <=> \A i \in 1 .. n : input[i] # Padding
  <2>1. /\ DOMAIN SubSeq(input, 1, n) = 1 .. n
        /\ \A i \in 1 .. n : SubSeq(input, 1, n)[i] = input[i]
    BY <1>1
  <2> QED
    BY <2>1 DEF Range
<1>3. T \in SUBSET (0 .. Len(input)) /\ 0 \in T
  BY <1>1, <1>2
<1>4. PICK m \in T : \A k \in T : k <= m
  BY <1>1, <1>3, Largest
<1>5. T \in SUBSET Int
  BY <1>1
<1>6. Text = m
  BY <1>4, <1>5, MaxIs DEF Text
<1> QED
  BY <1>2, <1>4, <1>6

(* The bytes of a group that n characters complete.                        *)
Complete(n) == {i \in 0 .. 4 : Needs[i] <= n}

(* The bytes that n characters complete are the first (5 * n) \div 8.       *)
LEMMA CompleteIs ==
  ASSUME NEW n \in 0 .. 8
  PROVE  (5 * n) \div 8 \in 0 .. 5 /\ Complete(n) = 0 .. (5 * n) \div 8 - 1
<1>1. Needs[0] = 2 /\ Needs[1] = 4 /\ Needs[2] = 5 /\ Needs[3] = 7 /\ Needs[4] = 8
  BY DEF Needs
<1>2. (5 * n) \div 8 \in 0 .. 5
  OBVIOUS
<1>3. ASSUME NEW i \in 0 .. 4 PROVE Needs[i] <= n <=> i <= (5 * n) \div 8 - 1
  <2>1. i \in {0, 1, 2, 3, 4}
    OBVIOUS
  <2> QED
    BY <1>1, <2>1
<1> QED
  BY <1>2, <1>3 DEF Complete

(* Those that fit are the first of these, all of them if there is room.    *)
LEMMA FittingIs ==
  ASSUME NEW n \in 0 .. 8, Len(output) \in Nat, bufsize \in Nat, Len(output) <= bufsize
  PROVE  \E f \in 0 .. (5 * n) \div 8 :
           /\ {i \in Complete(n) : HasRoom(i + 1)} = 0 .. f - 1
           /\ Cardinality(0 .. f - 1) = f /\ Len(output) + f <= bufsize
           /\ 0 .. f - 1 = Complete(n) <=> f = (5 * n) \div 8
           /\ f = (5 * n) \div 8 <=> Len(output) + (5 * n) \div 8 <= bufsize
<1> DEFINE c == (5 * n) \div 8
           room == bufsize - Len(output)
           f == IF c <= room THEN c ELSE room
<1>1. c \in 0 .. 5 /\ Complete(n) = 0 .. c - 1
  BY CompleteIs
<1>2. room \in Nat /\ f \in 0 .. c /\ f <= room /\ (f = c <=> c <= room)
  BY <1>1
<1> HIDE DEF c, f
<1>3. \A i \in 0 .. c - 1 : HasRoom(i + 1) <=> i <= room - 1
  BY <1>1 DEF HasRoom
<1>4. {i \in Complete(n) : HasRoom(i + 1)} = 0 .. f - 1
  <2>1. \A i \in 0 .. c - 1 : HasRoom(i + 1) <=> i <= f - 1
    BY <1>1, <1>2, <1>3 DEF f
  <2> HIDE DEF room
  <2> QED
    BY <1>1, <1>2, <2>1
<1>5. Cardinality(0 .. f - 1) = f
  <2>1. 0 \in Int /\ f - 1 \in Int
    BY <1>1, <1>2
  <2>2. Cardinality(0 .. f - 1) = IF 0 > f - 1 THEN 0 ELSE f - 1 - 0 + 1
    BY <2>1, FS_Interval
  <2> QED
    BY <1>1, <1>2, <2>2
<1>6. 0 .. f - 1 = Complete(n) <=> f = c
  BY <1>1, <1>2
<1>7. f \in 0 .. c /\ Len(output) + f <= bufsize /\ (f = c <=> Len(output) + c <= bufsize)
  BY <1>1, <1>2
<1> QED
  BY <1>4, <1>5, <1>6, <1>7 DEF c

(* A complete byte has its sources among the characters of the group.      *)
LEMMA ByteIs ==
  ASSUME NEW m, NEW n \in 0 .. 8, \A k \in 1 .. n : m[k] \in 0 .. 31,
         NEW i \in 0 .. (5 * n) \div 8 - 1
  PROVE  /\ HasSources(Byte(m, i), m, i)
         /\ \A j \in 0 .. 7 : Source(i, j)[1] \in 1 .. n
<1>1. Needs[0] = 2 /\ Needs[1] = 4 /\ Needs[2] = 5 /\ Needs[3] = 7 /\ Needs[4] = 8
  BY DEF Needs
<1>2. i \in 0 .. 4 /\ Needs[i] <= n
  BY CompleteIs DEF Complete
<1>3. i \in {0, 1, 2, 3, 4}
  BY <1>2
<1>4. HasSources(Byte(m, i), m, i)
  BY <1>1, <1>2, <1>3, Byte0, Byte1, Byte2, Byte3, Byte4
<1>5. ASSUME NEW j \in 0 .. 7 PROVE Source(i, j)[1] \in 1 .. n
  <2>1. Source(i, j)[1] = (8 * i + j) \div 5 + 1
    BY DEF Source
  <2>2. (8 * i + j) \div 5 + 1 \in 1 .. Needs[i]
    BY <1>1, <1>3
  <2>3. Needs[i] \in Nat
    BY <1>1, <1>3
  <2> QED
    BY <1>2, <2>1, <2>2, <2>3
<1> QED
  BY <1>4, <1>5

(* What is written is the beginning of the text, bit for bit.              *)
BitsRight(out) == \A b \in 0 .. 8 * Len(out) - 1 : Bit(out, 8, b) = Bit(input, 5, b)

(* Bytes of the next group, put behind those of the groups so far.         *)
LEMMA BitsGrow ==
  ASSUME NEW g \in Nat, NEW out \in Seq(Int), Len(out) = 5 * g, BitsRight(out),
         NEW m, NEW n \in 0 .. 8, NEW f \in 0 .. (5 * n) \div 8,
         \A k \in 1 .. n : m[k] = input[8 * g + k] /\ m[k] \in 0 .. 31
  PROVE  LET longer == out \o [i \in 1 .. f |-> Byte(m, i - 1)]
         IN  longer \in Seq(Int) /\ Len(longer) = 5 * g + f /\ BitsRight(longer)
<1> DEFINE new == [i \in 1 .. f |-> Byte(m, i - 1)]
           longer == out \o new
<1>1. f \in Nat /\ (5 * n) \div 8 \in 0 .. 5
  BY CompleteIs
<1>2. ASSUME NEW i \in 0 .. f - 1
      PROVE  /\ HasSources(Byte(m, i), m, i) /\ Byte(m, i) \in Int
             /\ \A j \in 0 .. 7 : Source(i, j)[1] \in 1 .. n
  <2>1. i \in 0 .. (5 * n) \div 8 - 1
    BY <1>1
  <2>2. HasSources(Byte(m, i), m, i) /\ \A j \in 0 .. 7 : Source(i, j)[1] \in 1 .. n
    BY <2>1, ByteIs
  <2> QED
    BY <2>2 DEF HasSources
<1>3. new \in Seq(Int) /\ Len(new) = f /\ \A i \in 1 .. f : new[i] = Byte(m, i - 1)
  <2>1. \A i \in 1 .. f : Byte(m, i - 1) \in Int
    <3> SUFFICES ASSUME NEW i \in 1 .. f PROVE Byte(m, i - 1) \in Int
      OBVIOUS
    <3>1. i - 1 \in 0 .. f - 1
      BY <1>1
    <3> QED
      BY <1>2, <3>1
  <2> QED
    BY <1>1, <2>1
<1> HIDE DEF new
<1>4. /\ longer \in Seq(Int) /\ Len(longer) = 5 * g + f
      /\ \A k \in 1 .. 5 * g : longer[k] = out[k]
      /\ \A k \in 1 .. f : longer[5 * g + k] = new[k]
  <2>1. longer \in Seq(Int) /\ Len(longer) = Len(out) + Len(new)
    <3>1. out \in Seq(Int) /\ new \in Seq(Int)
      BY <1>3
    <3> QED
      BY <3>1
  <2>2. \A k \in 1 .. 5 * g : longer[k] = out[k]
    BY <1>3
  <2>3. ASSUME NEW k \in 1 .. f PROVE longer[5 * g + k] = new[k]
    <3>1. /\ 5 * g + k \in 1 .. Len(out) + Len(new) /\ 5 * g + k > Len(out)
          /\ 5 * g + k - Len(out) = k
      BY <1>1, <1>3
    <3> QED
      BY <1>3, <3>1
  <2> QED
    BY <1>3, <2>1, <2>2, <2>3
<1> HIDE DEF longer
<1>5. ASSUME NEW b \in 0 .. 8 * (5 * g + f) - 1 PROVE Bit(longer, 8, b) = Bit(input, 5, b)
  <2>1. b \in Nat /\ b \div 8 \in Nat /\ b % 8 \in 0 .. 7 /\ b = 8 * (b \div 8) + (b % 8)
    BY <1>1
  <2>2. CASE b < 40 * g
    <3>1. b \div 8 + 1 \in 1 .. 5 * g
      BY <2>1, <2>2
    <3>2. Bit(longer, 8, b) = Bit(out, 8, b)
      BY <1>4, <3>1 DEF Bit
    <3>3. b \in 0 .. 8 * Len(out) - 1
      BY <2>1, <2>2
    <3> QED
      BY <3>2, <3>3 DEF BitsRight
  <2>3. CASE b >= 40 * g
    <3> DEFINE i == b \div 8 - 5 * g
               j == b % 8
    <3>1. i \in 0 .. f - 1 /\ j \in 0 .. 7 /\ b = 40 * g + (8 * i + j) /\ b \div 8 = 5 * g + i
      BY <1>1, <2>1, <2>3
    <3> HIDE DEF i, j
    <3>2. b \div 8 + 1 = 5 * g + (i + 1) /\ i + 1 \in 1 .. f
      BY <1>1, <3>1
    <3>3. longer[b \div 8 + 1] = Byte(m, i)
      <4>1. PICK k \in 1 .. f : k = i + 1
        BY <3>2
      <4>2. k - 1 = i
        BY <3>1, <4>1
      <4>3. new[k] = Byte(m, i)
        BY <1>3, <4>2
      <4> QED
        BY <1>4, <3>2, <4>1, <4>3
    <3>4. Bit(longer, 8, b) = BitOf(Byte(m, i), 8, j)
      BY <3>3 DEF Bit, BitOf, j
    <3>5. b \div 5 = 8 * g + (8 * i + j) \div 5 /\ b % 5 = (8 * i + j) % 5
      BY <3>1
    <3>6. /\ Source(i, j)[1] = (8 * i + j) \div 5 + 1 /\ Source(i, j)[2] = (8 * i + j) % 5
          /\ Source(i, j)[1] \in 1 .. n
      BY <1>2, <3>1 DEF Source
    <3>7. b \div 5 + 1 = 8 * g + Source(i, j)[1]
      BY <3>1, <3>5, <3>6
    <3>8. m[Source(i, j)[1]] = input[b \div 5 + 1]
      BY <3>6, <3>7
    <3>9. Bit(input, 5, b) = BitOf(m[Source(i, j)[1]], 5, Source(i, j)[2])
      BY <3>5, <3>6, <3>8 DEF Bit, BitOf
    <3>10. BitOf(Byte(m, i), 8, j) = BitOf(m[Source(i, j)[1]], 5, Source(i, j)[2])
      BY <1>2, <3>1 DEF HasSources
    <3> QED
      BY <3>4, <3>9, <3>10
  <2> QED
    BY <2>1, <2>2, <2>3
<1>6. BitsRight(longer)
  BY <1>4, <1>5 DEF BitsRight
<1> QED
  BY <1>4, <1>6 DEF longer, new

-----------------------------------------------------------------------------
(* Before it returns, the call has decoded whole groups of the alphabet's  *)
(* characters, and their bytes are in the buffer.                          *)
WholeGroups ==
  result = Running =>
    \E g \in Nat :
      /\ src_offset = 8 * g /\ Len(output) = 5 * g /\ src_offset <= Len(input)
      /\ \A i \in 1 .. src_offset : input[i] \in 0 .. 31

(* The result says whether all of the text has been decoded.               *)
ResultRight ==
  /\ result # Running =>
       (result <=> Illegal \notin Range(SubSeq(input, 1, Text)) /\ (5 * Text) \div 8 <= bufsize)
  /\ result = TRUE => Len(output) = (5 * Text) \div 8

DecoderInv ==
  /\ input \in Inputs /\ bufsize \in BufSizes /\ output \in Seq(Int)
  /\ result \in BOOLEAN \cup {Running}
  /\ WholeGroups /\ ResultRight /\ BitsRight(output) /\ StaysInside

(* Nothing has been read or written at first.                              *)
LEMMA DecoderInvInit == DecoderInit => DecoderInv
<1> SUFFICES ASSUME DecoderInit PROVE DecoderInv
  OBVIOUS
<1>1. /\ input \in Inputs /\ bufsize \in BufSizes /\ src_offset = 0 /\ output = <<>>
      /\ result = Running /\ read = 0
  BY DEF DecoderInit
<1>2. Len(input) \in Nat /\ bufsize \in Nat
  BY <1>1, InputIs, Base32Assumption
<1>3. output \in Seq(Int) /\ Len(output) = 0
  BY <1>1
<1>4. WholeGroups
  <2>1. src_offset = 8 * 0 /\ Len(output) = 5 * 0 /\ src_offset <= Len(input) /\ 0 \in Nat
    BY <1>1, <1>2, <1>3
  <2>2. \A i \in 1 .. src_offset : input[i] \in 0 .. 31
    BY <1>1
  <2> QED
    BY <2>1, <2>2 DEF WholeGroups
<1>5. ResultRight
  BY <1>1, Base32Assumption, TRUE \in BOOLEAN DEF ResultRight
<1>6. BitsRight(output)
  BY <1>3 DEF BitsRight
<1>7. StaysInside
  BY <1>1, <1>2, <1>3 DEF StaysInside
<1> QED
  BY <1>1, <1>3, <1>4, <1>5, <1>6, <1>7 DEF DecoderInv

(* Characters without a padding belong to the text, and end it where the   *)
(* string ends or is padded.                                               *)
LEMMA TextReaches ==
  ASSUME input \in Inputs, NEW n \in 0 .. Len(input), \A i \in 1 .. n : input[i] # Padding
  PROVE  /\ n <= Text
         /\ n = Len(input) \/ input[n + 1] = Padding => Text = n
<1>1. /\ Text \in 0 .. Len(input) /\ Len(input) \in Nat
      /\ \A i \in 1 .. Text : input[i] # Padding
      /\ \A k \in 0 .. Len(input) : (\A i \in 1 .. k : input[i] # Padding) => k <= Text
  BY TextIs, InputIs
<1>2. n <= Text
  BY <1>1
<1>3. ASSUME n < Text PROVE n # Len(input) /\ input[n + 1] # Padding
  <2>1. n + 1 \in 1 .. Text
    BY <1>1, <1>3
  <2> QED
    BY <1>1, <1>3, <2>1
<1> QED
  BY <1>1, <1>2, <1>3

(* A wrong character among the first n.                                    *)
LEMMA IllegalIs ==
  ASSUME input \in Inputs, NEW n \in 0 .. Len(input)
  PROVE  Illegal \in Range(SubSeq(input, 1, n)) <=> \E i \in 1 .. n : input[i] = Illegal
<1>1. Len(input) \in Nat /\ input \in Seq((0 .. 31) \cup {Padding, Illegal})
  BY Base32Assumption
<1>2. DOMAIN SubSeq(input, 1, n) = 1 .. n /\ \A i \in 1 .. n : SubSeq(input, 1, n)[i] = input[i]
  BY <1>1
<1> QED
  BY <1>2 DEF Range

(* A group with whole characters adds its bytes as far as they fit; a full *)
(* one that fits leaves the next group to read, any other one is the last. *)
LEMMA GroupDecodesKeeps ==
  ASSUME DecoderInv, GroupDecodes PROVE DecoderInv'
<1> DEFINE n == GroupLength
           c == (5 * n) \div 8
<1>1. /\ input \in Inputs /\ bufsize \in Nat /\ Len(input) \in Nat /\ Len(output) \in Nat
      /\ output \in Seq(Int) /\ Len(output) <= bufsize
  BY InputIs, Base32Assumption DEF DecoderInv, StaysInside
<1>2. PICK g \in Nat :
        /\ src_offset = 8 * g /\ Len(output) = 5 * g /\ src_offset <= Len(input)
        /\ \A i \in 1 .. src_offset : input[i] \in 0 .. 31
  BY DEF DecoderInv, WholeGroups, GroupDecodes
<1>3. /\ n \in 0 .. 8 /\ 8 * g + n <= Len(input)
      /\ DOMAIN Mapped = 1 .. n
      /\ \A i \in 1 .. n :
           /\ Mapped[i] = input[8 * g + i] /\ Mapped[i] \in (0 .. 31) \cup {Illegal}
           /\ Mapped[i] # Padding
      /\ n < 8 => 8 * g + n = Len(input) \/ input[8 * g + n + 1] = Padding
  BY <1>1, <1>2, GroupIs
<1>4. \A i \in 1 .. n : Mapped[i] = input[8 * g + i] /\ Mapped[i] \in 0 .. 31
  <2>1. Illegal \notin Range(Mapped)
    BY DEF GroupDecodes
  <2> QED
    BY <1>3, <2>1 DEF Range
<1>5. PICK f \in 0 .. c :
        /\ {i \in Complete(n) : HasRoom(i + 1)} = 0 .. f - 1
        /\ Cardinality(0 .. f - 1) = f /\ Len(output) + f <= bufsize
        /\ 0 .. f - 1 = Complete(n) <=> f = c
        /\ f = c <=> Len(output) + c <= bufsize
  BY <1>1, <1>3, FittingIs
<1>6. /\ read' = 8 * g + (IF n = 8 THEN 8 ELSE n + 1)
      /\ output' = output \o [i \in 1 .. f |-> Byte(Mapped, i - 1)]
      /\ result' = IF f # c THEN FALSE ELSE IF n < 8 THEN TRUE ELSE Running
      /\ src_offset' = 8 * g + 8
      /\ input' = input /\ bufsize' = bufsize
  <2>1. {i \in {k \in 0 .. 4 : Needs[k] <= GroupLength} : HasRoom(i + 1)} = 0 .. f - 1
    BY <1>5 DEF Complete
  <2>2. {k \in 0 .. 4 : Needs[k] <= GroupLength} = Complete(n)
    BY DEF Complete
  <2> HIDE DEF n, c
  <2> QED
    BY <1>2, <1>5, <2>1, <2>2 DEF GroupDecodes, Finished, n
<1> HIDE DEF n
<1>7. output' \in Seq(Int) /\ Len(output') = 5 * g + f /\ BitsRight(output')
  <2>1. BitsRight(output) /\ f \in 0 .. (5 * n) \div 8
    BY <1>5 DEF DecoderInv
  <2>2. \A k \in 1 .. n : Mapped[k] = input[8 * g + k] /\ Mapped[k] \in 0 .. 31
    BY <1>4
  <2> DEFINE longer == output \o [i \in 1 .. f |-> Byte(Mapped, i - 1)]
  <2>3. longer \in Seq(Int) /\ Len(longer) = 5 * g + f /\ BitsRight(longer)
    BY <1>1, <1>2, <1>3, <2>1, <2>2, BitsGrow
  <2> HIDE DEF longer
  <2>4. output' = longer
    BY <1>6 DEF longer
  <2> QED
    BY <2>3, <2>4
<1>8. BitsRight(output)'
  BY <1>6, <1>7 DEF BitsRight, Bit
<1>9. StaysInside'
  BY <1>1, <1>2, <1>3, <1>5, <1>6, <1>7 DEF StaysInside
<1>10. \A i \in 1 .. 8 * g + n :
         input[i] \in 0 .. 31 /\ input[i] # Padding /\ input[i] # Illegal
  <2> SUFFICES ASSUME NEW i \in 1 .. 8 * g + n PROVE input[i] \in 0 .. 31
    BY Base32Assumption
  <2>1. CASE i <= 8 * g
    BY <1>2, <2>1
  <2>2. CASE i > 8 * g
    <3>1. i - 8 * g \in 1 .. n /\ 8 * g + (i - 8 * g) = i
      BY <1>3, <2>2
    <3> QED
      BY <1>4, <3>1
  <2> QED
    BY <1>3, <2>1, <2>2
<1>11. 8 * g + n <= Text /\ (n < 8 => Text = 8 * g + n)
  BY <1>1, <1>3, <1>10, TextReaches
<1>12. Text \in 0 .. Len(input) /\ Text' = Text
  BY <1>1, <1>6, TextIs DEF Text
<1>13. (5 * (8 * g + n)) \div 8 = 5 * g + c /\ c \in 0 .. 5
  BY <1>3
<1>14. WholeGroups'
  <2> SUFFICES ASSUME result' = Running
               PROVE  \E h \in Nat :
                        /\ src_offset' = 8 * h /\ Len(output') = 5 * h
                        /\ src_offset' <= Len(input')
                        /\ \A i \in 1 .. src_offset' : input'[i] \in 0 .. 31
    BY DEF WholeGroups
  <2>1. f = c /\ n = 8
    <3>1. FALSE # Running /\ TRUE # Running
      BY Base32Assumption, TRUE \in BOOLEAN, FALSE \in BOOLEAN
    <3>2. f = c /\ ~(n < 8)
      <4> HIDE DEF c
      <4> QED
        BY <1>6, <3>1
    <3> QED
      BY <1>3, <3>2
  <2>2. c = 5
    BY <2>1
  <2>3. g + 1 \in Nat /\ src_offset' = 8 * (g + 1) /\ Len(output') = 5 * (g + 1)
    BY <1>6, <1>7, <2>1, <2>2
  <2>4. src_offset' = 8 * g + n
    BY <1>6, <2>1
  <2> QED
    BY <1>3, <1>6, <1>10, <2>3, <2>4
<1>15. ResultRight'
  <2> DEFINE fits == /\ Illegal \notin Range(SubSeq(input, 1, Text))
                     /\ (5 * Text) \div 8 <= bufsize
  <2>1. SUFFICES /\ result' # Running => (result' <=> fits)
                 /\ result' = TRUE => Len(output') = (5 * Text) \div 8
    BY <1>6, <1>12 DEF ResultRight
  <2>2. CASE f # c
    <3>1. 5 * g + c > bufsize
      BY <1>1, <1>2, <1>5, <1>13, <2>2
    <3>2. (5 * Text) \div 8 >= 5 * g + c
      BY <1>1, <1>3, <1>11, <1>12, <1>13
    <3>3. ~fits
      BY <1>1, <1>12, <1>13, <3>1, <3>2
    <3>4. result' = FALSE
      BY <1>6, <2>2
    <3> HIDE DEF fits
    <3> QED
      BY <3>3, <3>4
  <2>3. CASE f = c /\ n < 8
    <3>1. Text = 8 * g + n /\ (5 * Text) \div 8 = 5 * g + c
      BY <1>11, <1>13, <2>3
    <3>2. 5 * g + c <= bufsize /\ Len(output') = 5 * g + c
      BY <1>2, <1>5, <1>7, <2>3
    <3>3. Illegal \notin Range(SubSeq(input, 1, Text))
      BY <1>1, <1>10, <1>12, <3>1, IllegalIs
    <3>4. fits
      BY <3>1, <3>2, <3>3
    <3>5. result' = TRUE
      BY <1>6, <2>3
    <3> HIDE DEF fits
    <3> QED
      BY <3>1, <3>2, <3>4, <3>5
  <2>4. CASE f = c /\ ~(n < 8)
    <3>1. result' = Running
      BY <1>6, <2>4
    <3> HIDE DEF fits
    <3> QED
      BY <3>1, Base32Assumption, TRUE \in BOOLEAN
  <2> QED
    BY <2>2, <2>3, <2>4
<1>16. result' \in BOOLEAN \cup {Running}
  BY <1>6
<1> QED
  BY <1>6, <1>7, <1>8, <1>9, <1>14, <1>15, <1>16 DEF DecoderInv

(* A group with a wrong character: the character is in the text, and       *)
(* nothing is written.                                                     *)
LEMMA GroupRefusedKeeps ==
  ASSUME DecoderInv, GroupRefused PROVE DecoderInv'
<1>1. input \in Inputs /\ Len(input) \in Nat
  BY InputIs DEF DecoderInv
<1>2. PICK g \in Nat :
        /\ src_offset = 8 * g /\ Len(output) = 5 * g /\ src_offset <= Len(input)
        /\ \A i \in 1 .. src_offset : input[i] \in 0 .. 31
  BY DEF DecoderInv, WholeGroups, GroupRefused
<1>3. /\ GroupLength \in 0 .. 8 /\ 8 * g + GroupLength <= Len(input)
      /\ \A i \in 1 .. GroupLength : Mapped[i] = input[8 * g + i] /\ Mapped[i] # Padding
  BY <1>1, <1>2, GroupIs
<1>4. PICK k \in 1 .. GroupLength : Mapped[k] = Illegal /\ read' = 8 * g + k
  BY <1>2 DEF GroupRefused
<1>5. /\ result' = FALSE
      /\ input' = input /\ bufsize' = bufsize /\ src_offset' = src_offset /\ output' = output
  BY DEF GroupRefused
<1>6. \A i \in 1 .. 8 * g + k : input[i] # Padding
  <2> SUFFICES ASSUME NEW i \in 1 .. 8 * g + k PROVE input[i] # Padding
    OBVIOUS
  <2>1. CASE i <= 8 * g
    <3>1. input[i] \in 0 .. 31
      BY <1>2, <2>1
    <3> QED
      BY <3>1, Base32Assumption
  <2>2. CASE i > 8 * g
    <3>1. i - 8 * g \in 1 .. GroupLength /\ 8 * g + (i - 8 * g) = i
      BY <1>3, <1>4, <2>2
    <3> QED
      BY <1>3, <3>1
  <2> QED
    BY <1>3, <2>1, <2>2
<1>7. 8 * g + k \in 1 .. Len(input) /\ input[8 * g + k] = Illegal
  BY <1>1, <1>3, <1>4
<1>8. 8 * g + k <= Text /\ Text \in 0 .. Len(input) /\ Text' = Text
  BY <1>1, <1>5, <1>6, <1>7, TextReaches, TextIs DEF Text
<1>9. Illegal \in Range(SubSeq(input, 1, Text))
  BY <1>1, <1>7, <1>8, IllegalIs
<1>10. FALSE # Running /\ FALSE # TRUE
  BY Base32Assumption, FALSE \in BOOLEAN
<1>11. ResultRight'
  BY <1>5, <1>8, <1>9, <1>10 DEF ResultRight
<1>12. WholeGroups'
  BY <1>5, <1>10 DEF WholeGroups
<1>13. StaysInside'
  BY <1>1, <1>4, <1>5, <1>7 DEF StaysInside, DecoderInv
<1>14. BitsRight(output)'
  BY <1>5 DEF BitsRight, Bit, DecoderInv
<1> QED
  BY <1>5, <1>11, <1>12, <1>13, <1>14 DEF DecoderInv

(* The two ways a group ends.                                              *)
LEMMA DecoderInvStep == DecoderInv /\ [DecoderNext]_decoder_vars => DecoderInv'
<1> SUFFICES ASSUME DecoderInv, [DecoderNext]_decoder_vars PROVE DecoderInv'
  OBVIOUS
<1>1. CASE GroupDecodes
  BY <1>1, GroupDecodesKeeps
<1>2. CASE GroupRefused
  BY <1>2, GroupRefusedKeeps
<1>3. CASE UNCHANGED decoder_vars
  BY <1>3 DEF decoder_vars, DecoderInv, WholeGroups, ResultRight, BitsRight, Bit, Text, StaysInside
<1> QED
  BY <1>1, <1>2, <1>3 DEF DecoderNext

(* For every string and every buffer, the decoder succeeds exactly if the  *)
(* text has no wrong character and its whole bytes fit, and what it has    *)
(* written is, bit for bit, the beginning of the text.                     *)
THEOREM DecoderIsRight == DecoderSpec => []DecodesTheBits
<1>1. DecoderInv => DecodesTheBits
  BY DEF DecoderInv, ResultRight, BitsRight, DecodesTheBits
<1> QED
  BY <1>1, DecoderInvInit, DecoderInvStep, PTL DEF DecoderSpec

(* It never writes behind the buffer and never reads behind the NUL.       *)
THEOREM DecoderStaysInside == DecoderSpec => []StaysInside
<1>1. DecoderInv => StaysInside
  BY DEF DecoderInv
<1> QED
  BY <1>1, DecoderInvInit, DecoderInvStep, PTL DEF DecoderSpec
=============================================================================
