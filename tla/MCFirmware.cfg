SPECIFICATION Spec
CONSTANTS
  HalfRange = 3
  Irqs = {0, 1, 2}
  Depth = 8
  LineWords = 16
  Apps = {"uart", "spi", "timer"}
  TestNum = 16
  RxTh = 4
  LoopCyc = 5
  LoopNum = 2
INVARIANTS Conserved NoSpurious ReadWhole DividerNearest
PROPERTIES OnPeriod Finishes
CHECK_DEADLOCK FALSE
