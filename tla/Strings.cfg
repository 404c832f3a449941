\* Five contents and five strings; chains that collide.
SPECIFICATION Spec
CONSTANTS
  Str = {s1, s2, s3, s4, s5}  s1 = s1  s2 = s2  s3 = s3  s4 = s4  s5 = s5
  None = None
  Data <- MCData
  Keyword = {1}
  Hash <- MCHash
  MinTab = 1
  MaxTab = 16
SYMMETRY Sym
INVARIANT StringsSound
PROPERTY ImplementsStrSet
