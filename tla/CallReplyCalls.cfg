SPECIFICATION Spec
CONSTANTS
  p1 = p1
  c1 = c1
  c2 = c2
  NoPod = NoPod
  Pod = {p1, p2}
  Target = {t1}
  Method = {m1}
  Call = {c1, c2}
  From <- Two
  MaxConcurrentHandlers = 1
  MaxWrites = 1
  MaxCopies = 2
  Env = {"duplicate", "publishFails", "timeout"}
INVARIANT OutcomeIsTrue
INVARIANT TokensBalance
SYMMETRY CallSymmetry
CHECK_DEADLOCK FALSE
