-------------------------------- MODULE ChSem --------------------------------
(***************************************************************************)
(* Counting semaphores of ChibiOS/RT (chsem.c) and the binary semaphores   *)
(* made of them (chbsem.h), as operators on the state of the kernel: the   *)
(* counter of semaphore o is s.cnt[o], its queue s.queue[o].               *)
(***************************************************************************)
EXTENDS ChSchd

Up(s, o) == [s EXCEPT !.cnt[o] = @ + 1]
Unqueue(s, o) == [s EXCEPT !.queue[o] = Tail(@)]

\* chSemWaitS() and chSemWaitTimeoutS() when the count is there, and when
\* it is not and the thread goes to sleep.
SemTake(s, o) == [s EXCEPT !.cnt[o] = @ - 1]
\* Mutant: off by one
SemFreeAtZero(s, o) == s.cnt[o] >= 0

SemFree(s, o) == s.cnt[o] > 0
\* Mutant: the last thread to come is the first to go
SemSleepFirst(s, o, time) ==
    GoSleepTimeoutS([SemTake(s, o) EXCEPT !.u[s.current] = o,
                                          !.queue[o] = <<s.current>> \o @],
                    "WTSEM", time)

SemSleep(s, o, time) ==
    GoSleepTimeoutS([SemTake(s, o) EXCEPT !.u[s.current] = o,
                                          !.queue[o] = Append(@, s.current)],
                    "WTSEM", time)

SemSignal(s, o) ==
    LET up == Up(s, o)
    IN  IF up.cnt[o] <= 0 THEN WakeupS(Unqueue(up, o), Head(up.queue[o]), "OK") ELSE up

SemSignalI(s, o) ==
    LET up == Up(s, o)
    IN  IF up.cnt[o] <= 0 THEN ReadyWith(Unqueue(up, o), Head(up.queue[o]), "OK") ELSE up

SemAddCounterI(s, o, n) == FoldLeft(LAMBDA r, i : SemSignalI(r, o), s, [i \in 1..n |-> i])

\* As many threads as the counter is below zero, the last one first.
SemResetI(s, o, n) ==
    LET q    == s.queue[o]
        wake == IF s.cnt[o] < 0 THEN -s.cnt[o] ELSE 0
        kept == [s EXCEPT !.cnt[o] = n, !.queue[o] = SubSeq(q, 1, Len(q) - wake)]
    IN  FoldLeft(LAMBDA r, t : ReadyWith(r, t, "RESET"), kept,
                 Reverse(SubSeq(q, Len(q) - wake + 1, Len(q))))

BSemSignalI(s, o) == IF s.cnt[o] < 1 THEN SemSignalI(s, o) ELSE s

\* chSemSignalWait(), up to where it may sleep.
SemSignalThenWait(s, signalled, waited) ==
    LET up == SemSignalI(s, signalled)
    IN  IF SemFree(up, waited) THEN RescheduleS(SemTake(up, waited))
                               ELSE SemSleep(up, waited, Infinite)

(* The calls of threads and of interrupt handlers on a semaphore. *)

SemWait(t, o, time) ==
    /\ Calls(t)
    /\ \/ SemFree(k, o) /\ Returns(SemTake(k, o))
       \/ ~SemFree(k, o) /\ time = Immediate /\ Returns(k)
       \/ /\ ~SemFree(k, o) /\ time # Immediate
          /\ Sleeps(t, SemSleep(k, o, time), [op |-> "sem"])

SemWaitBack(t) == IsBack(t, "sem") /\ Sleeps(t, AwakeS(k), User)

SemSignalWait(t, signalled, waited) ==
    /\ Calls(t)
    /\ Sleeps(t, SemSignalThenWait(k, signalled, waited),
              IF SemFree(SemSignalI(k, signalled), waited) THEN User ELSE [op |-> "sem"])

SemReset(t, o, n) == Calls(t) /\ Returns(RescheduleS(SemResetI(k, o, n)))
SemSignalCall(t, o) == Calls(t) /\ Returns(SemSignal(k, o))

SemSignalIsr(o) == InUser /\ Returns(Epilogue(SemSignalI(k, o)))
SemAddCounterIsr(o, n) == InUser /\ Returns(Epilogue(SemAddCounterI(k, o, n)))
SemResetIsr(o, n) == InUser /\ Returns(Epilogue(SemResetI(k, o, n)))

(* Binary semaphores: initialised and reset to 0, taken, or 1, free. *)

BSemCount(taken) == IF taken THEN 0 ELSE 1

BSemWait(t, o) == SemWait(t, o, Infinite)
BSemWaitTimeout(t, o, time) == SemWait(t, o, time)
BSemReset(t, o, taken) == SemReset(t, o, BSemCount(taken))
BSemResetIsr(o, taken) == SemResetIsr(o, BSemCount(taken))
BSemSignal(t, o) == Calls(t) /\ Returns(RescheduleS(BSemSignalI(k, o)))
BSemSignalIsr(o) == InUser /\ Returns(Epilogue(BSemSignalI(k, o)))

\* What every function of chsem.c asserts when it is entered: threads are
\* queued on a semaphore exactly when its counter is below zero, and then as
\* many as it is below.
SemConsistent ==
    \A o \in DOMAIN k.cnt :
        Len(k.queue[o]) = (IF k.cnt[o] < 0 THEN -k.cnt[o] ELSE 0)
=============================================================================
