CONSTANT N = 4
SPECIFICATION Spec
INVARIANTS CommitsInOrder NothingLost RfPrecise ShadowBounded NoNestedIrq
