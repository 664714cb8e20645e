SPECIFICATION Spec
SYMMETRY Callers
CONSTANTS
  Actions = {a1, a2}
  Shares = {a1}
  Markets = {a1}
  Requests = {r1, r2}
  Decides = TRUE
  MaxCrashes = 1
INVARIANT AnswerFiled
INVARIANT RestingSurvives
PROPERTY PromiseKept
