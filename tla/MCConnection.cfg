SPECIFICATION FairSpec
CONSTANTS
  None = None
  Cases <- MCCases
  HeadSize = 2
  ReadSize = 3
  SharedSize = 5
  AnswerHead = 2
  Slack = 1
  Threshold = 1
  MaxGarbled = 1
  Slots = 3
  Sleep = 3
  MaxLate = 1
INVARIANTS
  TypeOK
  RequestsKept
  AnswersMatch
  NegotiationKept
  CrashExplained
  HistoryExact
PROPERTY
  EntryRemoved
