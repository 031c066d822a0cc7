\* The driver called from the interrupt handler of the recovery measurement.
CONSTANTS
  Depth = 2
  Threshold = 0
  BUF_LEN = 4
  Span = 8
  INT_MAX = 4
  DefaultTimeout = 2
  Counts = {2}
  Timeouts = {1, 2}
  Unread = 0
  Programs = {{"write", "take timer", "handler prints"}}
SPECIFICATION FairSpec
PROPERTY HandlerPrintsEnd
CHECK_DEADLOCK FALSE
