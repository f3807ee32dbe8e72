------------------------------ MODULE PortLocks ------------------------------
(***************************************************************************)
(* The locks of ASIF_Control on the Mega - the shared buffer, the ports of *)
(* the IDE and of the node, the SPI bus of the SD card - and the threads   *)
(* of the sketch that nest them, on the semaphores and the scheduler of    *)
(* the kernel.  What the threads do between two lock operations is in the  *)
(* other modules; here it takes any time, timer interrupts included.       *)
(***************************************************************************)
EXTENDS ChSem

CONSTANTS
    Lame,           \* the main thread, which runs ASIF_LameThread
    Ide, Prog, Sensor,              \* ideThd, progThd, sensorThd
    Buffer, IdePort, EnodePort, Spi,    \* the semaphores, SEMAPHORE_DECL(.., 1)
    Delays          \* ASIF_DELAY() times, in ticks

ASSUME LocksAssumption ==
    /\ Threads = {Lame, Ide, Prog, Sensor, Idle} /\ Cardinality(Threads) = 5
    /\ Objects = {Buffer, IdePort, EnodePort, Spi} /\ Cardinality(Objects) = 4
    /\ Delays \subseteq Nat \ {0}

VARIABLE held       \* the locks each thread holds, in the order it took them

vars == <<k, call, held>>

\* The locks each thread nests: trigger() of the four threads, with the
\* file operations under them, which take the SPI bus and give it back.
Nests(t) ==
    CASE t = Ide    -> {<<IdePort>>, <<IdePort, Buffer>>, <<IdePort, Buffer, Spi>>}
      [] t = Prog   -> {<<EnodePort>>, <<EnodePort, Spi>>, <<EnodePort, Buffer>>,
                        <<EnodePort, Buffer, Spi>>}
      [] t = Sensor -> {<<Spi>>}
      [] t = Lame   -> {<<Buffer>>}
      [] OTHER      -> {}

\* What a thread holds when it delays: nothing between two lines of the lame
\* thread, the node and the buffer between two attempts to program the node.
DelaysWith(t) ==
    CASE t = Lame -> {<<>>}
      [] t = Prog -> {<<EnodePort, Buffer>>}
      [] OTHER    -> {}

\* chibiSetup() has created the three threads, as urgent as the main one.
Init ==
    /\ k = InitialState([t \in Threads |-> IF t = Idle THEN 1 ELSE 64],
                        <<Ide, Prog, Sensor, Idle>>, Lame, [o \in Objects |-> 1])
    /\ call = [t \in Threads |-> User]
    /\ held = [t \in Threads |-> <<>>]

Gets(t, o) == held' = [held EXCEPT ![t] = Append(@, o)]

\* lockPort(), lockBuffer(), lockSD(): chSemWait().
Lock(t, o) ==
    /\ Calls(t) /\ Append(held[t], o) \in Nests(t)
    /\ \/ SemFree(k, o) /\ Returns(SemTake(k, o)) /\ Gets(t, o)
       \/ /\ ~SemFree(k, o)
          /\ Sleeps(t, SemSleep(k, o, Infinite), [op |-> "lock", of |-> o])
          /\ UNCHANGED held

LockBack(t) ==
    /\ IsBack(t, "lock") /\ Sleeps(t, AwakeS(k), User) /\ Gets(t, call[t].of)

\* unlockPort(), unlockBuffer(), unlockSD(): chSemSignal().
MayUnlock(t, o) == Calls(t) /\ held[t] # <<>> /\ Last(held[t]) = o
Unlock(t, o) ==
    /\ MayUnlock(t, o)
    /\ Returns(SemSignal(k, o))
    /\ held' = [held EXCEPT ![t] = Front(@)]

Delay(t, time) ==
    /\ Calls(t) /\ held[t] \in DelaysWith(t)
    /\ Sleeps(t, GoSleepTimeoutS(k, "SLEEPING", time), [op |-> "delay"])
    /\ UNCHANGED held

DelayBack(t) == IsBack(t, "delay") /\ Sleeps(t, AwakeS(k), User) /\ UNCHANGED held

TickStep == Tick /\ UNCHANGED held

Next ==
    \/ TickStep
    \/ \E t \in Threads :
        \/ \E o \in Objects : Lock(t, o) \/ Unlock(t, o)
        \/ LockBack(t)
        \/ \E time \in Delays : Delay(t, time)
        \/ DelayBack(t)

Spec == Init /\ [][Next]_vars

\* The timer keeps ticking; a thread back from its sleep goes on; and a
\* thread that holds the SPI bus or the buffer and is given the processor
\* again and again comes to the end of what it does with it - of a file
\* operation, of the host's session, of the five attempts to program the
\* node.  (Fairness written out, as in ChThreads.)
TickChanges == InUser /\ k # Epilogue(SysTimerHandlerI(k))
Freed(o) ==
    \/ <>[](\A t \in Threads : ~MayUnlock(t, o))
    \/ []<><<\E t \in Threads : Unlock(t, o)>>_vars
FairSpec ==
    /\ Spec
    /\ []<>(~TickChanges) \/ []<><<TickStep>>_vars
    /\ []<>InUser
    /\ Freed(Spi) /\ Freed(Buffer)
-----------------------------------------------------------------------------

TypeOK == PlacesOK /\ held \in [Threads -> Seq(Objects)]

\* A lock has one holder at most, and one that is not free has exactly one:
\* the thread that took it, or the one chSemSignal() has handed it to and
\* that has not run since.
Granted(t, o) ==
    k.state[t] \in {"READY", "CURRENT"} /\ call[t].op = "lock" /\ call[t].of = o
OneHolder ==
    \A o \in Objects :
        Cardinality({t \in Threads : o \in ToSet(held[t]) \/ Granted(t, o)})
            = (IF k.cnt[o] > 0 THEN 0 ELSE 1)

\* No deadlock and no starvation: whoever asks for a lock more than one
\* thread uses gets it, though the others may ask for it again and again.
AskedIsHeld ==
    \A t \in Threads \ {Idle}, o \in {Spi, Buffer} :
        (call[t].op = "lock" /\ call[t].of = o) ~> (o \in ToSet(held[t]))
=============================================================================
