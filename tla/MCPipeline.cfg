CONSTANT Programs <- MCPrograms
CONSTANT MulStage = 2
CONSTANT DivCycles = 2
SPECIFICATION Spec
INVARIANTS OperandsNewest CsrReadNewest LateOperandsNewest ResultsRetired MulDivOwn StallsEnd
