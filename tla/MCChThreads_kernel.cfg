SPECIFICATION FairSpec
CONSTANTS
    Main = main
    Idle = idle
    Threads = {main, a, b, idle}
    Servers = {b}
    Objects = {}
    Quantum = 1
    Prios = {2, 3}
    Times = {1, 2}
INVARIANTS HighestRuns TimersOnTime NobodyStranded RegistryIsLive
PROPERTY TopGetsTurn
