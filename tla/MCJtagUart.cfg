\* The JTAG UART driver against its device, its host and the system clock.
\* A handler that prints into a full ring stops the processor for good, hence no deadlock check.
CONSTANTS
  Depth = 2
  Threshold = 0
  BUF_LEN = 4
  Span = 8
  INT_MAX = 4
  DefaultTimeout = 2
  Counts = {2}
  Timeouts = {1, 2}
  Unread = 1
  Programs = {{"write", "close"}, {"read"}, {"close", "ioctl", "take timer", "handler prints"}}
SPECIFICATION FairSpec
INVARIANTS TransmitsInOrder ReceivesInOrder KickIsNotLost ReceiverIsNotDeaf CopyIsTheRegister
PROPERTIES OnlyASilentHostIsGone CallsEnd
CHECK_DEADLOCK FALSE
