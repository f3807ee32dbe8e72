------------------------------ MODULE ChQueues ------------------------------
(***************************************************************************)
(* I/O queues of ChibiOS/RT (chqueues.c): rings of bytes between an        *)
(* interrupt handler and threads.  The handler fills an input queue and    *)
(* empties an output queue, and never waits; threads are at the other end, *)
(* and wait.  q_counter is what threads can take: the bytes of an input    *)
(* queue, the free places of an output queue.                              *)
(***************************************************************************)
EXTENDS ChSchd

CONSTANTS
    Queues,         \* the queues
    Inputs,         \* those of them that are input queues
    RingSize,       \* q_top - q_buffer
    Bytes           \* the bytes that go through them

ASSUME QueuesAssumption ==
    Inputs \subseteq Queues /\ Queues \subseteq Objects /\ RingSize \in Nat \ {0}

VARIABLES
    ring,           \* for each queue: counter, rd, wr and buffer
    job,            \* for each thread, the transfer it is in the middle of
    inside          \* history: the bytes in each queue, the oldest first
queueVars == <<ring, job, inside>>

NoJob == [left |-> 0]
EmptyRing(q, buffer) ==
    [counter |-> IF q \in Inputs THEN 0 ELSE RingSize, rd |-> 0, wr |-> 0, buffer |-> buffer]

QueuesInit ==
    /\ ring = [q \in Queues |-> EmptyRing(q, [i \in 0..RingSize - 1 |-> None])]
    /\ job = [t \in Threads |-> NoJob]
    /\ inside = [q \in Queues |-> <<>>]

NextPlace(i) == IF i + 1 >= RingSize THEN 0 ELSE i + 1

Put(q, b, count) ==
    LET r == ring[q]
    IN  /\ ring' = [ring EXCEPT ![q] = [r EXCEPT !.counter = @ + count, !.wr = NextPlace(@),
                                                 !.buffer[r.wr] = b]]
        /\ inside' = [inside EXCEPT ![q] = Append(@, b)]
Get(q, count) ==
    LET r == ring[q]
    IN  /\ ring' = [ring EXCEPT ![q] = [r EXCEPT !.counter = @ + count, !.rd = NextPlace(@)]]
        /\ inside' = [inside EXCEPT ![q] = Tail(@)]

(* The thread's end: n bytes, one after the other, interrupts on between   *)
(* two of them.  The notification only starts the device.                  *)

TransferStart(t, q, n, time) ==
    /\ Calls(t) /\ job[t] = NoJob
    /\ job' = [job EXCEPT ![t] = [of |-> q, left |-> n, time |-> time]]
    /\ UNCHANGED <<k, call, ring, inside>>

IQGetTimeout(t, q, time) == q \in Inputs /\ TransferStart(t, q, 1, time)
IQReadTimeout(t, q, n, time) == q \in Inputs /\ TransferStart(t, q, n, time)
OQPutTimeout(t, q, time) == q \notin Inputs /\ TransferStart(t, q, 1, time)
OQWriteTimeout(t, q, n, time) == q \notin Inputs /\ TransferStart(t, q, n, time)

Move(t) ==
    LET j == job[t]
    IN  /\ IF j.of \in Inputs THEN Get(j.of, -1) ELSE \E b \in Bytes : Put(j.of, b, -1)
        /\ job' = [job EXCEPT ![t] = IF j.left = 1 THEN NoJob ELSE [j EXCEPT !.left = @ - 1]]

GivesUp(t) == job' = [job EXCEPT ![t] = NoJob] /\ UNCHANGED <<ring, inside>>

\* qwait()
QWait(s, q, time) ==
    GoSleepTimeoutS([s EXCEPT !.u[s.current] = q, !.queue[q] = Append(@, s.current)],
                    "WTQUEUE", time)

Available(t) == ring[job[t].of].counter > 0

Transfer(t) ==
    /\ Calls(t) /\ job[t] # NoJob
    /\ \/ Available(t) /\ Move(t) /\ Returns(k)
       \/ ~Available(t) /\ job[t].time = Immediate /\ GivesUp(t) /\ Returns(k)
       \/ /\ ~Available(t) /\ job[t].time # Immediate /\ UNCHANGED queueVars
          /\ Sleeps(t, QWait(k, job[t].of, job[t].time), [op |-> "queue"])

\* A thread that was let go may find the byte taken by another one, and then
\* waits again, the whole time anew.
TransferBack(t) ==
    /\ IsBack(t, "queue")
    /\ LET s == AwakeS(k)
       IN  \/ k.u[t] # "OK" /\ GivesUp(t) /\ Sleeps(t, s, User)
           \/ k.u[t] = "OK" /\ Available(t) /\ Move(t) /\ Sleeps(t, s, User)
           \/ /\ k.u[t] = "OK" /\ ~Available(t) /\ UNCHANGED queueVars
              /\ Sleeps(t, QWait(s, job[t].of, job[t].time), [op |-> "queue"])

(* The interrupt handler's end. *)

QueueFull(q) == ring[q].wr = ring[q].rd /\ ring[q].counter # 0
WakeOne(s, q) ==
    IF s.queue[q] = <<>> THEN s
    ELSE ReadyWith([s EXCEPT !.queue[q] = Tail(@)], Head(s.queue[q]), "OK")

Serve(q) ==
    /\ InUser /\ UNCHANGED job
    /\ IF QueueFull(q) THEN Returns(Epilogue(k)) /\ UNCHANGED <<ring, inside>>
       ELSE /\ Returns(Epilogue(WakeOne(k, q)))
            /\ IF q \in Inputs THEN \E b \in Bytes : Put(q, b, 1) ELSE Get(q, 1)

IQPutI(q) == q \in Inputs /\ Serve(q)
OQGetI(q) == q \notin Inputs /\ Serve(q)

\* Mutant: the counter is not reset
QueueResetPointers(q) ==
    /\ InUser /\ UNCHANGED job
    /\ ring' = [ring EXCEPT ![q].rd = 0, ![q].wr = 0]
    /\ inside' = [inside EXCEPT ![q] = <<>>]
    /\ Returns(Epilogue(FoldLeft(LAMBDA s, t : ReadyWith(s, t, "RESET"),
                                 [k EXCEPT !.queue[q] = <<>>], k.queue[q])))

QueueReset(q) ==
    /\ InUser /\ UNCHANGED job
    /\ ring' = [ring EXCEPT ![q] = EmptyRing(q, @.buffer)]
    /\ inside' = [inside EXCEPT ![q] = <<>>]
    /\ Returns(Epilogue(FoldLeft(LAMBDA s, t : ReadyWith(s, t, "RESET"),
                                 [k EXCEPT !.queue[q] = <<>>], k.queue[q])))

IQResetI(q) == q \in Inputs /\ QueueReset(q)
OQResetI(q) == q \notin Inputs /\ QueueReset(q)

QueueNext(t, q, times, lengths) ==
    \/ IQPutI(q) \/ OQGetI(q) \/ IQResetI(q) \/ OQResetI(q)
    \/ \E time \in times :
        \/ IQGetTimeout(t, q, time) \/ OQPutTimeout(t, q, time)
        \/ \E n \in lengths : IQReadTimeout(t, q, n, time) \/ OQWriteTimeout(t, q, n, time)
    \/ Transfer(t)
    \/ TransferBack(t)

\* The two ends agree on one byte stream: the counter, the two pointers and
\* the buffer describe exactly the bytes that were put and not yet got,
\* whoever put them, through every wrap and reset.
RingHoldsBytes ==
    \A q \in Queues :
        LET r == ring[q]
            n == Len(inside[q])
        IN  /\ r.counter = (IF q \in Inputs THEN n ELSE RingSize - n)
            /\ (r.rd + n) % RingSize = r.wr
            /\ \A i \in 1..n : r.buffer[(r.rd + i - 1) % RingSize] = inside[q][i]

\* No wake-up is lost: while threads wait and there is something to take,
\* at least as many threads as there are things have been let go and have
\* not run since, though others took bytes before them or gave up.
LetGo(q) ==
    {t \in Threads : /\ call[t].op = "queue" /\ job[t].of = q
                     /\ k.state[t] \in {"READY", "CURRENT"} /\ k.u[t] = "OK"}
NobodyForgotten ==
    \A q \in Queues :
        k.queue[q] # <<>> => Cardinality(LetGo(q)) >= ring[q].counter
=============================================================================
