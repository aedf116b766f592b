SPECIFICATION ScalerSpec
CONSTANTS
    Lords = {l1, l2, l3}
    Procs = {p1}
    CpuLevels = {0, 2}
    OtherLevels = {0, 3}
    OverloadCPU = 2
    RebalanceDelta = 0
    Cooldown = 2
    Minute = 2
    MaxPerMin = 2
    MaxRestarts = 1
    MaxTime = 3
SYMMETRY NameSymmetry
INVARIANTS ScalerTypeOK CooldownKept RebalanceLimited
