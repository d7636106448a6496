\* The parts of the queue, each on its own.
SPECIFICATION QueueSpec
CONSTANTS
  Users = {m1, m2, m3}
  Nodes = {n1, n2}
  RefsRange = 8
  Threads = {t1, t2, t3}
  t3 = t3
  OwnProducers = {m1, m2, m3}
  HashSize = 2
  invalid_thread_id = invalid_thread_id
  Scanners = {n1, n2}
  Producers = {m1, m2, m3}
  MaxEnqueued = 1
  nullptr = nullptr
  Consumers = {n1, n2}
  IndexRange = 16
  BLOCK_SIZE = 2
  MaxLag = 3
SYMMETRY Sym
CHECK_DEADLOCK FALSE
INVARIANTS
  TypeOK
  OneUser
  NothingLost
  OneAdder
  OneProducerEach
  OneSlotFree
  CountReserves
  ProducersListed
  ElementsForClaims
  CountsBalance
PROPERTIES
  NothingOverlooked
