\* The length the documentation gives against the words the FSM processes.
CONSTANTS
  AddrSpace = 32
  Stride = 4
  MaxLgt = 2
  Word <- MCWord
  Transform <- MCTransform
  Jobs <- MCJobs
  InitMem <- MCInitMem
SPECIFICATION Spec
PROPERTIES WritesOnlyTheArray
