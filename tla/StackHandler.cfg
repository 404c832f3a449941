\* Stacks of at most 40 slots, with frames of nine slots.
SPECIFICATION Spec
CONSTANTS
  LUA_MINSTACK = 4
  LUAI_MAXSTACK = 40
  LJ_STACK_EXTRA = 5
  FrameSizes = {9}
  NRes = {1}
  CSlots = {6, 20}
  MemFails = TRUE
  MaxCalls = 4
INVARIANT HandlerInherited
CHECK_DEADLOCK FALSE
