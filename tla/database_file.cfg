SPECIFICATION Spec
CONSTANTS
    h1 = h1
    L1 = L1
    i1 = i1
    i2 = i2
    Objects = {h1, L1}
    MaxEdits = 1
    Declared <- LinkReplacedByHost
    Collectors = {collector}
    Nodes = {h1}
    Visitors = {action}
    Initialisers = {i1, i2}
    MaxFiles = 2
SYMMETRY InitialisersAlike
INVARIANTS
    RowsResolve
    RegistryWhole
PROPERTIES
    ImplementsContract
    InitializedIsUsable
    InitFailsForCause
CHECK_DEADLOCK FALSE
