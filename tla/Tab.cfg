CONSTANTS
  s1 = s1
  s2 = s2
  s3 = s3
  Str = {s1, s2, s3}
  MaxInt = 5
  Null = null
  Hashes <- MCHashes
  IntHash <- MCIntHash
  Nil = Nil
  Self = Self
  Idle = Idle
  Error = Error
  Programs <- TabPrograms
SPECIFICATION Spec
INVARIANTS NodesSound Faithful LenIsBorder
PROPERTY TraversalExact
SYMMETRY Symmetry
