SPECIFICATION Spec
CONSTANTS
  Programs <- Both
  MaxDepth = 3
  MaxTicks = 2
INVARIANTS ProfilerSound MaskRestored SamplesConserved
PROPERTY NoTraceWithin
