SPECIFICATION FairSpec
CONSTANTS
    Lame = lame
    Ide = ide
    Prog = prog
    Sensor = sensor
    Idle = idle
    Threads = {lame, ide, prog, sensor, idle}
    Buffer = buffer
    IdePort = ideport
    EnodePort = enodeport
    Spi = spi
    Objects = {buffer, ideport, enodeport, spi}
    Quantum = 1
    Delays = {2}
INVARIANTS OneHolder
PROPERTY AskedIsHeld
