\* The same under fairness, with one consumer as each ring of the program has.
SPECIFICATION QueueFairSpec
CONSTANTS
  Users = {u1, u2}
  Nodes = {b1, b2}
  RefsRange = 8
  Threads = {t1, t2}
  t3 = t3
  OwnProducers = {o1, o2}
  HashSize = 2
  invalid_thread_id = invalid_thread_id
  Scanners = {s1}
  Producers = {p1, p2, p3, p4}
  MaxEnqueued = 1
  nullptr = nullptr
  Consumers = {c1}
  IndexRange = 16
  BLOCK_SIZE = 2
  MaxLag = 7
CHECK_DEADLOCK FALSE
PROPERTIES
  OperationsEnd
  CallsReturn
  EverythingTaken
  FalseMeansEmpty
  ElementsTaken
