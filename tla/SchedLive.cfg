CONSTANTS
    MaxCpus = 2
    Machines <- MCMachines
    MaxThreads = 3
    UINT_MOD = 16
SPECIFICATION LiveSpec
PROPERTIES ReadyRuns ClocksleepReturns
