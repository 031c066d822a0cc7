\* The stride of the burst_mode accelerator against the columns it is for.
CONSTANTS
  AddrSpace = 1024
  Stride <- BurstStride
  MaxLgt = 2
  Word <- MCWord
  Transform <- BurstTransform
  Jobs <- MCJobs
  InitMem <- MCInitMem
SPECIFICATION Spec
INVARIANTS ReadsTheColumns
