\* The accelerator under any bus master and any reset.
CONSTANTS
  AddrSpace = 16
  Stride = 4
  MaxLgt = 1
  Word <- MCWord
  Transform <- MCTransform
  InitMem <- MCInitMem
  Source = {0, 8}
  Destination = {12}
  Length = {0, 1}
SPECIFICATION FairSpec
INVARIANTS RetainsParameters FinishMeansIdle ResidueIsOneWord RequestMatchesState
PROPERTIES HoldsRequests ComesBackToIdle
