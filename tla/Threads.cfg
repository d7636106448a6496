\* HandleRpcs on two threads: what does not depend on the rings, whose
\* messages may be lost for want of memory.
SPECIFICATION Spec
CONSTANTS
  WorkerIds = {1, 2, 3, 10}
  MyId = 1
  IntRange = 8
  MacLen = 1
  ByteRange = 1
  ip = ip
  longIp = longIp
  RpcIps = {ip, longIp}
  LongIps = {longIp}
  RpcPorts = {80, 81}
  Quotas = {0, 7}
  None = None
  RpcThreads = {t1, t2}
  EnqueueResults = {TRUE, FALSE}
  Verdicts = {TRUE}
  c1 = c1
  c2 = c2
  Clients = {c1, c2}
  Requests <- FewRequests
SYMMETRY Sym
\* A handler whose message is lost waits for ever.
CHECK_DEADLOCK FALSE
INVARIANTS
  OneHandlerPerCall
  HandlersAccounted
  AcceptorsReplenished
