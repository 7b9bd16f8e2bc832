SPECIFICATION Spec
CONSTANTS
  Hmac <- MCHmac
  NULL = NULL
  Kdfs = {"PASSDB_KDF_SCRYPT"}
  Params = {"default"}
  Salts = {"salt1", "salt2"}
  Passphrases <- MCPassphrases
  Wrong <- MCWrong
  TotpRequests <- MCTotpRequests
  WindowSizes = {0, 1, 3, 10, 15}
  Times <- MCTimes
  UintSize = 16
  MaxCreates = 3
INVARIANTS
  CodeInWindowAccepted
  AcceptedIsFresh
  AcceptedWasSet
  ChecksTellNothing
