SPECIFICATION Spec
CONSTANTS
    WindowPages = 3
    MaxSupply = 16
    Identity = Identity
    Null = Null
INVARIANTS
    PreparedIsReachable
