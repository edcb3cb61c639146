SPECIFICATION DispatchSpec
CONSTANTS
  c1 = c1  c2 = c2
  t1 = t1  t2 = t2
  Client = {c1, c2}
  Thread = {t1, t2}
  NoClient = NoClient
  Home <- TwoHome
  Job <- Request
  nthreads = 3
  max = 8
INVARIANTS PoolSuffices
PROPERTIES AllAnswered
