\* Integers of four bits; up to three instructions.
SPECIFICATION Spec
CONSTANTS
  W = 4
  Konst <- MCKonst
  Inputs <- MCInputs
  FirstOps <- MCFirst
  SecondOps <- MCSecond
  ThirdOps = {"SUB"}
  SumOps = {"ADD", "SUB"}
  MaxRetries = 10
CHECK_DEADLOCK FALSE
INVARIANT FoldEnds
PROPERTY FoldSound
