\* What a call leaves in memory, for every placement of the two arrays.
CONSTANTS
  AddrSpace = 32
  Stride = 4
  MaxLgt = 3
  Word <- MCWord
  Transform <- MCTransform
  Jobs <- MCJobs
  InitMem <- MCInitMem
SPECIFICATION MCSpec
INVARIANTS ResultIsTheTransform RestIsUntouched
CHECK_DEADLOCK FALSE
