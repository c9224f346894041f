CONSTANTS
    MST_PORT_NUM = 2
    Slaves = {s0, s1}
    Present = {s0, s1}
    Unmapped = Unmapped
    None = None
SPECIFICATION Spec
INVARIANTS RequestsSeparate NoOverrun ResponsesRouted
