\* A replica whose id is congruent to MyId.
SPECIFICATION Spec
CONSTANTS
  WorkerIds = {1, 2, 9}
  MyId = 1
  IntRange = 8
  MacLen = 1
  ByteRange = 1
  ip = ip
  longIp = longIp
  RpcIps = {ip, longIp}
  LongIps = {longIp}
  RpcPorts = {80, 81}
  Quotas = {0, 7}
  None = None
  RpcThreads = {t1}
  EnqueueResults = {TRUE}
  Verdicts = {TRUE}
  c1 = c1
  c2 = c2
  Clients = {c1}
  Requests <- WideRequests
INVARIANTS
  NoSelfReplica
