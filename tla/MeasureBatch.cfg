SPECIFICATION BatchSpec
CONSTANTS
  c1 = c1 c2 = c2 c3 = c3 c4 = c4
  Workers = {w1, w2}
  Builder = builder
  Clients = {builder}
  Tasks = {c1, c2, c3, c4}
  Urgent = {}
  ApplyFails = {c2}
  Throws = {c3}
  NoModule = none
  NParallel = 2
  params_lst <- MCParams
  Program <- MCProgram
INVARIANTS ResultsInPlace AnswersComplete CreditedSound ModulesPaired
PROPERTY BatchEnds
CHECK_DEADLOCK FALSE
