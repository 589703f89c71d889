SPECIFICATION Spec
CONSTANTS
    e1 = e1
    c2 = c2
    c1 = c1
    v1 = v1
    Entries <- MCEntries
    CAs <- MCCAs
    Builtin <- MCBuiltin
    Values <- MCValues
    Stamps <- MCStamps
    MaxSuffix = 1
    MaxFiles = 2
    Default = Default
    Partial = Partial
    None = None
    Empty = Empty
INVARIANT FilesAreNotShared
PROPERTY StoreIsDurable
