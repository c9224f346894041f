CONSTANT N = 4
SPECIFICATION Spec
INVARIANT FlushedHasNoEffect
