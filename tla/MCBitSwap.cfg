\* The custom instruction and the accelerator, bit by bit.
CONSTANT Inputs <- MCInputs
SPECIFICATION Spec
INVARIANTS WaysAgree MatchesTheExample
