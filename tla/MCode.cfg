\* Two traces in at most three areas of two sizes.
SPECIFICATION Spec
CONSTANTS
  a1 = a1  a2 = a2  a3 = a3  NoArea = noarea  Area = {a1, a2, a3}
  t1 = t1  t2 = t2  NoTrace = notrace  Trace = {t1, t2}
  Sizes = {8, 11}  MaxMCode = 25  Link = 1  RedZone = 2  MaxIns = 2  TailRoom = 1  Pad = 1
  GroupSize = 3  NGroups = 1  Lengths = {2, 10}  ProtFails = FALSE
SYMMETRY Sym
INVARIANTS TypeOK NoOverlap Executable ExitsLead SizesAccounted FewRetries
