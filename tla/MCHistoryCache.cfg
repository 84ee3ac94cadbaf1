SPECIFICATION Spec
CONSTANTS
  Term = {t1, t2}
  Worker = {w1, w2}
  Expiry = 2
  Patience = 1
  None = None
SYMMETRY Interchangeable
INVARIANTS TypeOK OwnKeyword AnswersAreFresh
