SPECIFICATION AnswerSpec
CONSTANTS
  t1 = t1
  t2 = t2
  t3 = t3
  NoAnswer = NoAnswer
  NoSkill = NoSkill
  NoUri = NoUri
  NoError = NoError
  NoPlan = NoPlan
  Normalized <- MCNormalized
  Decisions <- MCDecisions
  Catalog <- MCCatalog
  Limits <- MCLimits
  ResultsFor <- MCResultsFor
  OutputPolicy <- MCOutputPolicy
INVARIANT OnlyHandledOutput
CHECK_DEADLOCK FALSE
