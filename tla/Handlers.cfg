\* One client with every kind of request, and a worker that may refuse.
SPECIFICATION Spec
CONSTANTS
  WorkerIds = {1, 2, 3, 10}
  MyId = 1
  IntRange = 8
  MacLen = 2
  ByteRange = 2
  ip = ip
  longIp = longIp
  RpcIps = {ip, longIp}
  LongIps = {longIp}
  RpcPorts = {80, 81}
  Quotas = {0, 7}
  None = None
  RpcThreads = {t1}
  EnqueueResults = {TRUE}
  Verdicts = {TRUE, FALSE}
  c1 = c1
  c2 = c2
  Clients = {c1}
  Requests <- AllRequests
INVARIANTS
  TypeOK
  NoSelfReplica
  NegotiatedOnOwnLists
  CallChangesOnlyItsItems
  ListsAgreeWithWorker
  SuccessMeansChange
  StoredAsRequested
