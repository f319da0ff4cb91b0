SPECIFICATION Spec
CONSTANTS
    AB = AB  path1 = path1  path2 = path2  None = None
    Pairs = {AB}
    Modes = {"ExactIn"}
    Paths = {path1, path2}
    Amounts = {1, 2, 3}
    MaxAccounts = {4, 5}
    MaxAge = 1  ExpireInterval = 1  Exact = 4  MaxSearch = 1
    MaxTime = 2  MaxBack = 1  MaxInserts = 3
INVARIANT TypeOK
INVARIANT EntriesSorted
PROPERTY ImplementsMap
