SPECIFICATION Spec
CONSTANTS
    Main = a
    Idle = idle
    Threads = {a, b, c, idle}
    Mutexes = {m1, m2}
    m1 = m1
    m2 = m2
    Rank <- MCRank
    Conds = {cond}
    Objects = {m1, m2, cond}
    Quantum = 1
    Prios = {2, 3}
    Times <- MCTimes
INVARIANTS HeldIsOwned PriorityIsInherited
SYMMETRY MCSymmetry
