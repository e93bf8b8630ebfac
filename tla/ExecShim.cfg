SPECIFICATION LiveSpec
CONSTANTS
    Shims = {"s1", "s2"}
    Numbers = {1, 2, 3}
    NoNumber = 0
INVARIANTS TypeOK PidFiles NothingLeft TimeoutTold
PROPERTIES LimitKept ShimsEnd
