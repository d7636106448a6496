\* The MAC addresses of answered views.
SPECIFICATION Spec
CONSTANTS
  WorkerIds = {1, 2, 3, 10}
  MyId = 1
  IntRange = 8
  MacLen = 2
  ByteRange = 2
  ip = ip
  longIp = longIp
  RpcIps = {ip, longIp}
  LongIps = {longIp}
  RpcPorts = {80, 81}
  Quotas = {0, 7}
  None = None
  RpcThreads = {t1}
  EnqueueResults = {TRUE}
  Verdicts = {TRUE}
  c1 = c1
  c2 = c2
  Clients = {c1}
  Requests <- MacRequests
INVARIANTS
  AnswerShowsTheEntries
