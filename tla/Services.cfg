SPECIFICATION FairSpec
CONSTANTS
    MaxFlaws = 2
    root = root
    child = child
    grandchild = grandchild
    Namespaces <- ThreeNamespaces
    Parent <- ParentChain
    NoNamespace = NoNamespace
    Mosaics = {m1, m2}
    NoMosaic = NoMosaic
    MaxHeight = 2
    MaxChanges = 1
    MaxList = 3
    MaxInner = 2
CHECK_DEADLOCK FALSE
INVARIANTS TypeOK  LineageComplete ResolvedDuringCall MappingInListOrder
PROPERTIES MappingEnds
