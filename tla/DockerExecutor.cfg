SPECIFICATION FairSpec
CONSTANTS
  a1 = a1
  Attempts = {a1}
  Services <- MCServices
  MaxMishaps = 1
  Programs <- MCPrograms
  Byte <- MCByte
  Secrets <- MCSecrets
  Texts <- MCTexts
INVARIANTS TypeOK OutcomeSound OutputFaithful SuccessLeavesNothing ResourcesStay
PROPERTIES ExecutionEnds Reclaimed
