------------------------------- MODULE ChSchd -------------------------------
(***************************************************************************)
(* The scheduler of ChibiOS/RT, the kernel under the sketch of the Mega:   *)
(* thread queues (chinline.h), ready list (chschd.c), virtual timers       *)
(* (chvt.c, chvt.h), the timer interrupt (chsys.c, chcore.h).              *)
(*                                                                         *)
(* The processor has one core and the kernel works with interrupts off, so *)
(* what runs between chSysLock() and the next context switch or            *)
(* chSysUnlock() is one step.  Such a step calls several kernel functions, *)
(* each of which goes on from where the previous one left the kernel, so   *)
(* they are operators that map a kernel state to a kernel state.  A thread *)
(* that went to sleep inside a call finishes it, interrupts still off, as  *)
(* soon as it is current again: call[t] says what is left to do.           *)
(***************************************************************************)
EXTENDS Integers, FiniteSets, FiniteSetsExt, SequencesExt

CONSTANTS
    Threads,        \* every thread, the idle thread included
    Idle,           \* the idle thread, which never sleeps
    Objects,        \* the objects that have a queue of waiting threads
    Quantum         \* CH_TIME_QUANTUM, in system ticks

ASSUME SchdAssumption == Idle \in Threads /\ Quantum \in Nat \ {0}

VARIABLES
    k,              \* the state of the kernel
    call            \* for each thread, the rest of the kernel call it is in

schdVars == <<k, call>>

Immediate == 0      \* TIME_IMMEDIATE
Infinite == -1      \* TIME_INFINITE, (systime_t)-1
None == "none"
User == [op |-> "user"]     \* running its own code: no kernel call to finish

(* Thread queues: the first element is the next thread to take. *)

\* Behind every thread of the same priority or a higher one.
PrioInsert(q, t, prio) ==
    LET lower == {i \in DOMAIN q : prio[q[i]] < prio[t]}
    IN  InsertAt(q, IF lower = {} THEN Len(q) + 1 ELSE Min(lower), t)

\* Behind the threads of a higher priority only.
PrioInsertAhead(q, t, prio) ==
    LET notHigher == {i \in DOMAIN q : prio[q[i]] <= prio[t]}
    IN  InsertAt(q, IF notHigher = {} THEN Len(q) + 1 ELSE Min(notHigher), t)

\* Out of wherever in the queue it is.
Dequeue(q, t) == RemoveAt(q, CHOOSE i \in DOMAIN q : q[i] = t)

(* The ready list. *)

ReadyI(s, t) ==
    [s EXCEPT !.state[t] = "READY", !.ready = PrioInsert(@, t, s.prio)]

ReadyWith(s, t, msg) == [ReadyI(s, t) EXCEPT !.u[t] = msg]

\* The first thread of the ready list becomes the current one.
TakeFirst(s) ==
    [s EXCEPT !.current = Head(s.ready), !.ready = Tail(@),
              !.state[Head(s.ready)] = "CURRENT"]

\* Mutant: the thread that goes to sleep is put on the ready list
GoSleepReady(s, newstate) ==
    TakeFirst(ReadyI([s EXCEPT !.preempt[s.current] = Quantum], s.current))

GoSleepS(s, newstate) ==
    TakeFirst([s EXCEPT !.state[s.current] = newstate,
                        !.preempt[s.current] = Quantum])

WakeupS(s, t, msg) ==
    LET w == [s EXCEPT !.u[t] = msg]
    IN  IF s.prio[t] <= s.prio[s.current]
        THEN ReadyI(w, t)
        ELSE [ReadyI(w, s.current) EXCEPT !.current = t, !.state[t] = "CURRENT"]

\* The head of an empty list has priority NOPRIO, lower than any thread's.
FirstPrio(s) == IF s.ready = <<>> THEN 0 ELSE s.prio[Head(s.ready)]

DoRescheduleBehind(s) ==
    ReadyI([TakeFirst(s) EXCEPT !.preempt[s.current] = Quantum], s.current)

DoRescheduleAhead(s) ==
    LET n == TakeFirst(s)
    IN  [n EXCEPT !.state[s.current] = "READY",
                  !.ready = PrioInsertAhead(@, s.current, s.prio)]

RescheduleS(s) ==
    IF FirstPrio(s) > s.prio[s.current] THEN DoRescheduleAhead(s) ELSE s

DoYieldS(s) ==
    IF FirstPrio(s) >= s.prio[s.current] THEN DoRescheduleBehind(s) ELSE s

\* Mutant: a thread whose quantum is over is treated like any other
IsPreemptionRequiredOnce(s) == FirstPrio(s) > s.prio[s.current]

IsPreemptionRequired(s) ==
    IF s.preempt[s.current] > 0 THEN FirstPrio(s) > s.prio[s.current]
                                ELSE FirstPrio(s) >= s.prio[s.current]

DoReschedule(s) ==
    IF s.preempt[s.current] = 0 THEN DoRescheduleBehind(s) ELSE DoRescheduleAhead(s)

\* The end of every interrupt handler (PORT_IRQ_EPILOGUE).
Epilogue(s) == IF IsPreemptionRequired(s) THEN DoReschedule(s) ELSE s

(* Virtual timers: a list of deltas, each the ticks after the one before.  *)
(* A thread has at most one, the one on its stack while it sleeps.  "due"  *)
(* is history: the ticks really left to each thread, which no code reads.  *)

TicksBefore(vt, i) == FoldLeft(LAMBDA sum, e : sum + e.time, 0, SubSeq(vt, 1, i - 1))

Armed(s, t) == \E i \in DOMAIN s.vt : s.vt[i].par = t

\* Mutant: the timer after the new one keeps its delta
VTSetIAlone(s, t, time) ==
    LET later == {i \in DOMAIN s.vt : TicksBefore(s.vt, i + 1) >= time}
        at    == IF later = {} THEN Len(s.vt) + 1 ELSE Min(later)
        delta == time - TicksBefore(s.vt, at)
    IN  [s EXCEPT !.vt = InsertAt(@, at, [par |-> t, time |-> delta]), !.due[t] = time]

VTSetI(s, t, time) ==
    LET later == {i \in DOMAIN s.vt : TicksBefore(s.vt, i + 1) >= time}
        at    == IF later = {} THEN Len(s.vt) + 1 ELSE Min(later)
        delta == time - TicksBefore(s.vt, at)
        next  == [i \in DOMAIN s.vt |->
                    IF i = at THEN [s.vt[i] EXCEPT !.time = @ - delta] ELSE s.vt[i]]
    IN  [s EXCEPT !.vt = InsertAt(next, at, [par |-> t, time |-> delta]), !.due[t] = time]

VTResetI(s, t) ==
    LET at   == CHOOSE i \in DOMAIN s.vt : s.vt[i].par = t
        next == [i \in DOMAIN s.vt |->
                    IF i = at + 1 THEN [s.vt[i] EXCEPT !.time = @ + s.vt[at].time]
                                  ELSE s.vt[i]]
    IN  [s EXCEPT !.vt = RemoveAt(next, at), !.due[t] = 0]

GoSleepTimeoutS(s, newstate, time) ==
    GoSleepS(IF time = Infinite THEN s ELSE VTSetI(s, s.current, time), newstate)

\* What chSchGoSleepTimeoutS() does when the thread is back.
AwakeS(s) == IF Armed(s, s.current) THEN VTResetI(s, s.current) ELSE s

\* Mutant: the semaphore does not count out a thread whose time is over
WakeupUncounted(s, t) ==
    LET o == s.u[t]
        out == IF s.state[t] \in {"WTSEM", "WTQUEUE", "WTCOND"}
               THEN [s EXCEPT !.queue[o] = Dequeue(@, t)] ELSE s
    IN  IF s.state[t] = "READY" THEN s ELSE ReadyWith(out, t, "TIMEOUT")

\* Mutant: a thread that waits on an I/O queue stays in it
WakeupQueued(s, t) ==
    LET o == s.u[t]
        out == CASE s.state[t] = "WTSEM" -> [s EXCEPT !.cnt[o] = @ + 1, !.queue[o] = Dequeue(@, t)]
                 [] OTHER -> s
    IN  IF s.state[t] = "READY" THEN s ELSE ReadyWith(out, t, "TIMEOUT")

\* The callback of a sleeping thread's timer: it leaves the queue it is in,
\* and a semaphore counts it out.
Wakeup(s, t) ==
    LET o == s.u[t]
        out ==
          CASE s.state[t] = "WTSEM" ->
                 [s EXCEPT !.cnt[o] = @ + 1, !.queue[o] = Dequeue(@, t)]
            [] s.state[t] \in {"WTQUEUE", "WTCOND"} ->
                 [s EXCEPT !.queue[o] = Dequeue(@, t)]
            [] OTHER -> s
    IN  IF s.state[t] = "READY" THEN s ELSE ReadyWith(out, t, "TIMEOUT")

\* The first timer loses a tick; every timer with none left leaves the list
\* and calls back, the first first.
VTDoTickI(s) ==
    IF s.vt = <<>> THEN s
    ELSE LET vt    == [s.vt EXCEPT ![1].time = @ - 1]
             later == {i \in DOMAIN vt : vt[i].time # 0}
             n     == IF later = {} THEN Len(vt) ELSE Min(later) - 1
             left  == [s EXCEPT !.vt = SubSeq(vt, n + 1, Len(vt)),
                                !.due = [t \in Threads |-> IF @[t] > 0 THEN @[t] - 1 ELSE 0]]
         IN  FoldLeft(LAMBDA r, e : Wakeup(r, e.par), left, SubSeq(vt, 1, n))

SysTimerHandlerI(s) ==
    VTDoTickI([s EXCEPT !.preempt[s.current] = IF @ > 0 THEN @ - 1 ELSE 0])

(* The steps the primitives are built from. *)

\* The current thread runs its own code: interrupts are on.
InUser == call[k.current] = User

Tick == InUser /\ k' = Epilogue(SysTimerHandlerI(k)) /\ UNCHANGED call

\* The kernel calls of the current thread that return without sleeping.
Returns(s) == k' = s /\ UNCHANGED call

\* Those that sleep, and what they do when the thread is current again.
Sleeps(t, s, rest) == k' = s /\ call' = [call EXCEPT ![t] = rest]

Calls(t) == t = k.current /\ t # Idle /\ InUser
IsBack(t, op) == t = k.current /\ call[t].op = op

-----------------------------------------------------------------------------

InitialState(prio, ready, current, cnt) ==
    [current |-> current,
     ready   |-> ready,
     state   |-> [t \in Threads |-> IF t = current THEN "CURRENT"
                                    ELSE IF t \in ToSet(ready) THEN "READY" ELSE None],
     prio    |-> prio,
     preempt |-> [t \in Threads |-> Quantum],
     u       |-> [t \in Threads |-> "OK"],
     queue   |-> [o \in Objects |-> <<>>],
     cnt     |-> cnt,
     vt      |-> <<>>,
     due     |-> [t \in Threads |-> 0]]

WaitStates == {"WTSEM", "WTMTX", "WTCOND", "WTQUEUE"}
States == WaitStates \cup
    {None, "READY", "CURRENT", "SUSPENDED", "SLEEPING", "WTEXIT", "WTOREVT", "WTANDEVT",
     "SNDMSGQ", "SNDMSG", "WTMSG", "FINAL"}

\* Part of every module's type invariant: a thread is in the queue its state
\* says, once, and in no other one.
PlacesOK ==
    /\ k.state \in [Threads -> States]
    /\ \A t \in Threads :
         /\ (k.state[t] = "CURRENT") <=> (t = k.current)
         /\ (k.state[t] = "READY") <=> (t \in ToSet(k.ready))
         /\ \A o \in Objects : (t \in ToSet(k.queue[o])) <=> (k.state[t] \in WaitStates /\ k.u[t] = o)
    /\ IsInjective(k.ready)
    /\ \A o \in Objects : IsInjective(k.queue[o])

\* No thread runs while one of a higher priority could: whatever step made
\* a thread ready or changed a priority, chSchRescheduleS(), chSchWakeupS()
\* or the end of the interrupt has put it right before user code goes on.
HighestRuns ==
    InUser => \A i \in DOMAIN k.ready : k.prio[k.ready[i]] <= k.prio[k.current]

\* A sleep is never cut short nor overrun: the deltas before a thread's
\* timer add up to the ticks it has left, whatever other timers came, fired
\* or were taken back since it was set.
TimersOnTime ==
    /\ \A i \in DOMAIN k.vt : k.vt[i].time >= 0 /\ k.due[k.vt[i].par] = TicksBefore(k.vt, i + 1)
    /\ k.vt # <<>> => k.vt[1].time > 0
    /\ IsInjective([i \in DOMAIN k.vt |-> k.vt[i].par])
=============================================================================
