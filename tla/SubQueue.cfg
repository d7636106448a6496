\* Two consumers, three blocks, and a block index that grows and is reused.
SPECIFICATION Spec
CONSTANTS
  Consumers = {c1, c2}
  Blocks = {b1, b2, b3}
  BLOCK_SIZE = 2
  IMPLICIT_INITIAL_INDEX_SIZE = 2
  MaxTail = 7
  MaxAttempts = 5
  MaxHeaders = 2
  nullptr = nullptr
  garbage = garbage
SYMMETRY Sym
CHECK_DEADLOCK FALSE
INVARIANTS
  TypeOK
  BlocksAccounted
  HeadBehindTail
  EntryFound
PROPERTIES
  IsFifo
