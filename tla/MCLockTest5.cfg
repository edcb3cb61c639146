SPECIFICATION TesterSpec
CONSTANTS
  c1 = c1  c2 = c2
  t1 = t1  t2 = t2  t3 = t3
  Client = {c1, c2}
  Thread = {t1, t2, t3}
  NoClient = NoClient
  Home <- Test5Home
  Rounds = 2
PROPERTIES AllFinish
CHECK_DEADLOCK FALSE
