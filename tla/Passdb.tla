-------------------------------- MODULE Passdb --------------------------------
(***************************************************************************)
(* One entry of the password database of passdb.c: it is created, over     *)
(* memory that may hold an older entry, it gets a TOTP configuration, and  *)
(* passphrases are validated against it.  The loop of                      *)
(* passdb_validate_around over neighbouring codes is one step per code.    *)
(***************************************************************************)
EXTENDS Totp, FiniteSets

CONSTANTS
  Kdfs,          \* key derivation functions other than PASSDB_KDF_NONE
  Params,        \* what kdf parameters a caller passes
  Salts,         \* what getrandom(2) may draw
  Passphrases,   \* passphrases entries are created for
  Wrong,         \* a passphrase no entry is created for
  TotpRequests,  \* <<slice_time_seconds, digits>> rfc6238_new is asked for
  WindowSizes,   \* window_size_seconds passed to passdb_attach_totp
  Times,         \* what time(2) may report
  UintSize,      \* one more than UINT_MAX
  MaxCreates     \* bound: calls of passdb_create_entry

ASSUME PassdbAssumption ==
  /\ Times \subseteq Int /\ UintSize \in Nat /\ MaxCreates \in Nat
  /\ WindowSizes \subseteq 0 .. UintSize - 1
  /\ \A r \in TotpRequests :
       /\ r[1] \in 1 .. UintSize - 1 /\ r[2] \in Nat
       /\ r[1] = 1 => UintSize - 1 \notin WindowSizes  \* the loop would not end
  /\ Wrong \notin Passphrases
  /\ NULL \notin BOOLEAN

VARIABLES
  entry,    \* struct passdb_entry_t
  call,     \* the validation in progress or just answered, or NULL
  set,      \* history: <<kdf, passphrase>> of the creations that succeeded
  asked,    \* history: window_size_seconds of the last passdb_attach_totp
  creates   \* calls of passdb_create_entry so far

vars == <<entry, call, set, asked, creates>>

(* A digest is known by what it was computed from; <<>> stands for bytes   *)
(* that are the digest of nothing, NULL for a salt of zeros.               *)
Digest(e, passphrase) == <<e.kdf, e.params, e.salt, passphrase>>

None == "PASSDB_KDF_NONE"

(* entry = { 0 }, as every caller starts it.                               *)
Init ==
  /\ entry = [kdf |-> None, params |-> NULL, salt |-> NULL, hash |-> <<>>,
              totp |-> NULL, totp_window_size |-> 0]
  /\ call = NULL
  /\ set = {} /\ asked = 0 /\ creates = 0

-----------------------------------------------------------------------------
(***************************************************************************)
(* passdb_create_entry.  The function and its parameters are in place      *)
(* before getrandom(2), which may fail or fill a part of the salt, and     *)
(* before the derivation, which may fail with the hash half written.       *)
(***************************************************************************)
CreateFails_Mut(new, passphrase) ==
  \E salt \in Salts :
    entry' = [new EXCEPT !.salt = salt, !.hash = Digest([new EXCEPT !.salt = salt], passphrase)]

CreateFails(new, passphrase) ==
  \E salt \in Salts \cup {new.salt}, hash \in {new.hash, <<>>} :
    /\ new.kdf = None => hash = new.hash
    /\ entry' = [new EXCEPT !.salt = salt, !.hash = hash]

(* passdb_derive_none leaves the hash alone.                               *)
CreateSucceeds(new, passphrase) ==
  \E salt \in Salts :
    LET salted == [new EXCEPT !.salt = salt]
    IN  entry' = IF new.kdf = None THEN salted
                 ELSE [salted EXCEPT !.hash = Digest(salted, passphrase)]

passdb_create_entry(kdf, params, passphrase) ==
  LET new == [entry EXCEPT !.kdf = kdf, !.params = params]
  IN  /\ call = NULL /\ creates < MaxCreates
      /\ creates' = creates + 1
      /\ \/ CreateFails(new, passphrase) /\ UNCHANGED set
         \/ CreateSucceeds(new, passphrase) /\ set' = set \cup {<<kdf, passphrase>>}
      /\ UNCHANGED <<call, asked>>

(***************************************************************************)
(* passdb_attach_totp: the window in slices, rounded up in unsigned        *)
(* arithmetic.                                                             *)
(***************************************************************************)
WindowInSlices_Mut(seconds, slice) == seconds \div slice

WindowInSlices_Mut2(seconds, slice) == seconds \div slice + 1

WindowInSlices(seconds, slice) == ((seconds + slice - 1) % UintSize) \div slice

passdb_attach_totp(config, seconds) ==
  /\ call = NULL /\ config # NULL
  /\ entry' = [entry EXCEPT !.totp = config,
       !.totp_window_size = WindowInSlices(seconds, config.slice_time_seconds)]
  /\ asked' = seconds
  /\ UNCHANGED <<call, set, creates>>

-----------------------------------------------------------------------------
(***************************************************************************)
(* passdb_validate_around up to its first code: the last characters are    *)
(* the code, if the entry has a TOTP and there are enough of them.         *)
(***************************************************************************)
SplitAt(typed) ==
  IF entry.totp # NULL /\ Len(typed) >= entry.totp.digits
  THEN Len(typed) - entry.totp.digits ELSE Len(typed)

DigestCorrect(passphrase) == entry.kdf = None \/ entry.hash = Digest(entry, passphrase)

passdb_validate(typed, at) ==
  LET passphrase == SubSeq(typed, 1, SplitAt(typed))
      begun == [at |-> at, passphrase |-> passphrase,
                code |-> SubSeq(typed, SplitAt(typed) + 1, Len(typed)),
                digest_correct |-> DigestCorrect(passphrase),
                checks |-> 0, failed |-> FALSE, answer |-> NULL]
  IN  /\ call = NULL
      /\ \/ call' = begun
         \/ /\ entry.kdf # None
            /\ call' = [begun EXCEPT !.failed = TRUE, !.answer = FALSE]
      /\ UNCHANGED <<entry, set, asked, creates>>

(* The offsets in the order the loop tries them: 0, -1, 1, -2, 2, ...      *)
Offset(k) == IF k % 2 = 1 THEN -((k + 1) \div 2) ELSE k \div 2

IntMax == UintSize \div 2 - 1

(* A machine's int of the bits of n.                                       *)
AsInt(n) == ((n + UintSize \div 2) % UintSize) - UintSize \div 2

(* The seconds from the time of the validation to that of a code.  The     *)
(* slice is converted to an int.  Beyond an int the product is undefined:  *)
(* the machine's multiplication wraps around, one that the compiler has    *)
(* widened does not.  So it is with the offset, which is counted in an int *)
(* up to an unsigned bound: it gets there only if the slice is a second.   *)
Shifts(offset) ==
  LET product == offset * AsInt(entry.totp.slice_time_seconds)
  IN  {product, AsInt(product)}

(* The answers that are possible, one but for an overflow.                 *)
passdb_validate_totp(code, at, offset) ==
  IF entry.totp = NULL THEN {TRUE}
  ELSE {code = rfc6238_generate_at(entry.totp, at + shift) : shift \in Shifts(offset)}

Checking == call # NULL /\ call.answer = NULL

CheckGoesOn_Mut(k) == k < 2 * entry.totp_window_size /\ call.digest_correct

CheckGoesOn(k) == k < 2 * entry.totp_window_size

(* One code fits, or does not.  A failing HMAC is a code that does not.    *)
CheckOffset ==
  /\ Checking
  /\ \E failed \in {FALSE, entry.totp # NULL} :
       LET k == call.checks
       IN  \E fits \in passdb_validate_totp(call.code, call.at, Offset(k)) :
             call' = [call EXCEPT !.checks = k + 1, !.failed = call.failed \/ failed,
                        !.answer = IF fits /\ ~failed THEN call.digest_correct
                                   ELSE IF CheckGoesOn(k) THEN NULL ELSE FALSE]
  /\ UNCHANGED <<entry, set, asked, creates>>

(* The caller takes the answer.                                            *)
Answered ==
  /\ call # NULL /\ call.answer # NULL
  /\ call' = NULL
  /\ UNCHANGED <<entry, set, asked, creates>>

Configs == {rfc6238_new(r[1], r[2]) : r \in TotpRequests}

Codes ==
  {<<>>} \cup {rfc6238_generate_at(c, t) : c \in Configs \ {NULL}, t \in Times}

Next ==
  \/ \E kdf \in Kdfs \cup {None}, params \in Params, passphrase \in Passphrases :
       passdb_create_entry(kdf, params, passphrase)
  \/ \E config \in Configs, seconds \in WindowSizes : passdb_attach_totp(config, seconds)
  \/ \E passphrase \in Passphrases \cup {Wrong}, code \in Codes, at \in Times :
       passdb_validate(passphrase \o code, at)
  \/ CheckOffset
  \/ Answered

Spec == Init /\ [][Next]_vars

-----------------------------------------------------------------------------
Returned == call # NULL /\ call.answer # NULL

Distance(t, u) == IF t <= u THEN u - t ELSE t - u

(* The times whose code the caller typed.                                  *)
CodeTimes ==
  LET slice == entry.totp.slice_time_seconds
      reach == (entry.totp_window_size + 2) * slice
  IN  {t \in call.at - reach - asked .. call.at + reach + asked :
         call.code = rfc6238_generate_at(entry.totp, t)}

(* With the right passphrase, a code generated at most the requested       *)
(* window away is accepted, wherever in its slice either time falls,       *)
(* unless a call of the crypto library fails or the window is too long:    *)
(* rounding it up wraps around, or its last offset is no int of seconds.   *)
CodeInWindowAccepted ==
  Returned /\ entry.totp # NULL /\ ~call.failed /\ call.digest_correct
    /\ asked + entry.totp.slice_time_seconds <= UintSize
    /\ entry.totp_window_size * entry.totp.slice_time_seconds <= IntMax
    /\ (\E t \in CodeTimes : Distance(t, call.at) <= asked)
  => call.answer

(* An accepted code was generated less than the requested window and one   *)
(* slice away: rounding up and trying both sides let nothing older in, and *)
(* an offset that overflows leads to nowhere farther away.                 *)
AcceptedIsFresh ==
  Returned /\ entry.totp # NULL /\ call.answer
  => \E t \in CodeTimes : Distance(t, call.at) < asked + entry.totp.slice_time_seconds

(* With a key derivation function in place, only a passphrase that some    *)
(* creation with that function has confirmed is accepted, after any mix of *)
(* creations that failed half way and older entries below them.            *)
AcceptedWasSet ==
  Returned /\ entry.kdf # None /\ call.answer => <<entry.kdf, call.passphrase>> \in set

(* passdb.c:188 always validates the TOTP so that its timing says little:  *)
(* as many codes are tried with a wrong passphrase as with the right one,  *)
(* up to the first that fits and otherwise all of the window.              *)
ChecksTellNothing ==
  Returned /\ entry.totp # NULL /\ call.checks > 0 /\ ~call.failed =>
    LET Outcomes(k) == passdb_validate_totp(call.code, call.at, Offset(k))
    IN  /\ \A k \in 0 .. call.checks - 2 : FALSE \in Outcomes(k)
        /\ \/ TRUE \in Outcomes(call.checks - 1)
           \/ call.checks = 2 * entry.totp_window_size + 1
=============================================================================
