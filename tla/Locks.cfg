SPECIFICATION Spec
CONSTANTS
    None = None
    t1 = t1
    t2 = t2
    t3 = t3
    Txs = {t1, t2, t3}
    Kinds <- LockKinds
    Entries = {1, 2}
INVARIANTS
    SortedNeverDeadlock
PROPERTIES
    CommitsAreAtomic
    OrderedEnd
CHECK_DEADLOCK FALSE
