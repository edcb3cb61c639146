SPECIFICATION ProtocolSpec
CONSTANTS
  c1 = c1
  c2 = c2
  c3 = c3
  t1 = t1
  t2 = t2
  t3 = t3
  t4 = t4
  NoClient = NoClient
  Client <- ThreeClients
  Thread = {t1, t2, t3, t4}
  Home <- MixedThree
INVARIANTS MutualExclusion CachedIsHeld AssertsHold OneCallEach RevokeNotLost NestedOnce IInv
PROPERTIES ImplementsLock CallsReturn WaiterServed SleeperWoken
