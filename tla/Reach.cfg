SPECIFICATION MCSpec
CONSTANTS
  t1 = t1  t2 = t2  f1 = f1  f2 = f2  u1 = u1  u2 = u2  co = co  d1 = d1  d2 = d2  s1 = s1
  Tab = {reg, glob, t1, t2}  Func = {f1, f2}  Uv = {u1, u2}
  Thread = {main, co}  Udata = {d1}  Str = {}
  Main = main  Reg = reg  Glob = glob
  Nil = nil  Prim = prim  Off = off  Closed = closed
  NS = 1  MaxEnt = 1
  Rank <- AgeRank
  Programs <- ReachPrograms
SYMMETRY Sym
INVARIANTS TypeOK TriColour ListsConsistent NoDangling OpenUvsShared SweepComplete
PROPERTY WavefrontAdvances
