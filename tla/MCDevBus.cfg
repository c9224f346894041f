CONSTANTS
    Reqs = {0, 1}
    Data = {d0, d1}
    Nil = Nil
    None = None
    MST_PORT_NUM = 2
    Slaves = {Bridge}
    Present = {Bridge}
    Bridge = Bridge
    Unmapped = Unmapped
SPECIFICATION DevSpec
INVARIANTS AccessedOnce AnswersAsker
PROPERTIES ImplementsFabric ImplementsSlavePort RequestsServed RequestsAnswered
