SPECIFICATION MCSpec
CONSTANTS
  l1 = l1  l2 = l2  r1 = r1  o1 = o1  o2 = o2  o3 = o3
  Obj = {o1, o2, o3}  Null = null  Cur = cur  MaxTrace = 3
  Proto = {p1}  Loop = {l1, l2}  Ret = {r1}  ProtoOf <- OneProto  NoPC = nopc
  MaxPenalty = 1
  Programs <- AllPrograms
SYMMETRY Sym
INVARIANTS NumbersSound CodeValid PatchUndone
PROPERTIES SideAtItsExit AbortHonoured HotsideIdle
