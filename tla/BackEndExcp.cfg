CONSTANT N = 4
SPECIFICATION Spec
PROPERTY ExceptionsPrecise
