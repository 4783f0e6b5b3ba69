SPECIFICATION Spec
CONSTANTS
  Source = {"meter_readings", "sites", "meters", "tariffs", "weather"}
  Multiplier = {1, 40}
  MaxFlaws = 2
  Char <- MCChar
  Letters <- MCLetters
  Word <- MCWord
  Literal <- MCLiteral
  Block <- MCBlock
  Comment <- MCComment
  MaxTokens = 4
  RegisterMax = 210
  StartRegister = {20, 207}
  Energy = {0, 1, 2}
  AfterReset = {0, 5}
  Nudge <- MCNudge
  MaxIntervals = 5
  MaxMissed = 1
  MaxCorrected = 1
  MaxReset = 1
  MaxSpikes = 1
  Row <- MCRow
  Batch = {ingested, promoted}
  RunBatch = {promoted}
  Nowhere = Nowhere
  Null = Null
CHECK_DEADLOCK FALSE
INVARIANTS NonNegative Truthful AcceptedIsPromotable AcceptedHasKey SplitsAsWritten WholeIsInCore
