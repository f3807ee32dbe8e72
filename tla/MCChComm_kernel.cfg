SPECIFICATION Spec
CONSTANTS
    Idle = idle
    Threads = {a, b, idle}
    Objects = {full, empty, rx, tx}
    Quantum = 1
    Full = full
    Empty = empty
    BoxSize = 2
    Msgs = {m1, m2}
    Queues = {rx, tx}
    Inputs = {rx}
    RingSize = 2
    Bytes = {m1, m2}
    Events = {0, 1}
    Kinds = {"semaphore", "binary", "mailbox", rx, tx, "event", "source"}
    Times <- MCTimes
    Lengths = {1, 2}
    Counts = {0, 2}
    MaxCount = 2
INVARIANTS SemsCount MailIsKept RingHoldsBytes NobodyForgotten EventsAnswered
SYMMETRY MCSymmetry
