\* The driver and the accelerator: safety, refinement and progress.
CONSTANTS
  AddrSpace = 32
  Stride = 4
  MaxLgt = 2
  Word <- MCWord
  Transform <- MCTransform
  Jobs <- MCJobs
  InitMem <- MCInitMem
SPECIFICATION FairSpec
INVARIANTS IInv FinishIsNotStale StartIsSeen WorksForTheCaller ReadsBackParameters
PROPERTIES WritesOnlyTheWindow ImplementsBitReshuffle CallsReturn
