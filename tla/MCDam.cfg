CONSTANTS
    MST_PORT_NUM = 2
    Slaves = {bank_a, bank_b}
    Present = {bank_a, bank_b}
    Unmapped = Unmapped
    None = None
SPECIFICATION DamSpec
PROPERTY Accessible
