SPECIFICATION AtomicSpec
CONSTANTS
    Users = {t1, t2, t3}
    Values = {0, 1, 2}
    Add <- MCAdd
    Zero = 0
    None = None
PROPERTIES
    ImplementsCell
