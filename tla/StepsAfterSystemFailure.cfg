SPECIFICATION Spec
CONSTANTS
  a1 = a1
  Attempts = {a1}
  Services <- MCServices
  MaxMishaps = 1
  Programs <- MCPrograms
  Byte <- MCByte
  Secrets <- MCSecrets
  Texts <- MCTexts
INVARIANTS SystemFailureStops
CHECK_DEADLOCK FALSE
