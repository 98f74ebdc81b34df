CONSTANTS
  None = None
  Word = {w1, w2}
  Kanji = {k1, k2}
  Unknown = {w2}
  KanjiOf <- MCKanjiOf
  Limit = 2
  Batch = 1
  MinFails = 1
  Patient = TRUE
  Remote = FALSE
  MaxAnswers = 3
  MaxLoads = 2
SPECIFICATION Spec
CHECK_DEADLOCK FALSE
INVARIANTS
  NothingIsSkipped
  LogMatchesProgress
PROPERTIES
  AnswersAreSeen
  RatingsEnd
