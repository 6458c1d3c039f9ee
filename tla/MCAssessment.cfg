CONSTANTS
  Keyworded <- MCKeyworded
  Income = "income"
  Other = "other"
  Amounts <- MCAmounts
  Unlisted = "unlisted"
  Missing = "missing"
  RuneTexts <- MCRuneTexts
  MaxReason = 3
  MaxStored = 3
SPECIFICATION AssessmentSpec
INVARIANTS AssessmentTypeOK OrdinaryIsNotFlagged ReasonIsTrue
