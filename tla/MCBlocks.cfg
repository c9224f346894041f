CONSTANTS
    Data = {a, b}
    QUE_DEPTH = 3
    PTR_SPAN = 4
    WIDTH = 4
SPECIFICATION MCSpec
INVARIANTS GrantsNearest BoundedWaiting
PROPERTIES ReadyLooksAhead ImplementsFifo
