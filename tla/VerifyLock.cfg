CONSTANTS
    None = None
    Versions = {1, 2, 3}
    MaxRounds = 64
    Identifiers <- MCIdentifiers
    Interfaces <- MCInterfaces
    Documents <- MCDocuments
    Registries <- MCRegistries
    Precedes <- MCPrecedes
    Provides <- MCProvides
SPECIFICATION LockSpec
INVARIANT FreshLockVerifies
