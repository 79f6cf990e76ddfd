SPECIFICATION FairSpec
CONSTANTS
  Readers = {r1}
  Writers = {w1, w2}
  r1 = r1
  w1 = w1
  w2 = w2
  Named = TRUE
  PIPE_BUF = 2
  Payloads <- LongAndShort
  ReadLens = {1, 2}
  NonBlockers = {r1}
  Selectors = {r1, w2}
  Interrupted = {"pi_read"}
  MaxOpens = 2
INVARIANTS
  Inv
  NotForgotten
PROPERTIES
  ImplementsChannel
  CallEnds
CHECK_DEADLOCK FALSE
