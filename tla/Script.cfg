\* main.cc over and over, with another client that asks and recovers in vain.
SPECIFICATION ScriptSpec
CONSTANTS
  WorkerIds = {1, 2, 3, 4, 5}
  MyId = 1
  IntRange = 8
  MacLen = 1
  ByteRange = 1
  ip = ip
  RpcIps = {ip}
  LongIps = {}
  RpcPorts = {80}
  Quotas = {0, 7}
  None = None
  RpcThreads = {t1}
  EnqueueResults = {TRUE}
  Verdicts = {TRUE}
  Tester = c1
  Clients = {c1, c2}
  SomeIp = ip
  OtherRequests <- QuietRequests
  Requests <- AllRequests
INVARIANTS
  ExpectedResults
PROPERTIES
  MainReturns
  EveryCallAnswered
