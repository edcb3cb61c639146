CONSTANTS
  Client = Client
  Server = Server
  MaxCalls = 2
  Closer = 0
  NoThread = NoThread
  Fd <- MCFd
  Thread <- MCThread
  Size <- MCSize
  Scenarios <- MCScenarios
  SocketBuffer = 2
  Lossy = {Server}
SPECIFICATION FairSpec
INVARIANTS Framing DeletedUnused RefExact ReadFindsData
PROPERTIES RemovedForGood LibraryReturns
CHECK_DEADLOCK FALSE
