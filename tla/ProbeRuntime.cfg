SPECIFICATION RuntimeSpec
CONSTANTS
  Probes = 2
  Deadline = 5
  Grace = 2
  Cleanup = 1
  Transport = 4
  Timeout = 2
  Limit = 1
  Capacity = 1
  Input = 2
  Words = 1
  ManyWords = 3
CHECK_DEADLOCK FALSE
INVARIANTS AnswersAreWhole NoOrphans TurnBounded RunsAreSettled
PROPERTY RunsEnd
