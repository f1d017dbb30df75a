SPECIFICATION StoresSpec
CONSTANTS
    N = 3
    MaxWrites = 2
INVARIANTS
    QuorumReadIsLatest
