SPECIFICATION Spec
CONSTANTS
    l1 = l1  l2 = l2  cpu = cpu  memory = memory
    Lords = {l1, l2}
    NoLord = NoLord
    Algo = "weighted"
    Loads <- SomeLoads
    Controllers = {cpu, memory}
    Cpu = cpu
    Mem = memory
    Domain = {memory}
    Delegated <- OneDelegated
    Values <- SomeValues
    MaxLimit <- SmallLimit
    DefaultRestarts = 1
    MaxRespawns = 3
    MaxCrashes = 1
INVARIANTS TypeOK NoneOverlooked   
CHECK_DEADLOCK FALSE
