------------------------------- MODULE ChComm -------------------------------
(***************************************************************************)
(* Threads and interrupt handlers that communicate through one of the      *)
(* kernel's objects: semaphores of either kind, a mailbox, I/O queues or   *)
(* events.  What the objects share is the scheduler and the timers under   *)
(* them, so each behaviour uses objects of one kind.                       *)
(***************************************************************************)
EXTENDS ChMBoxes, ChQueues, ChEvents

CONSTANTS
    Kinds,          \* "semaphore", "binary", "mailbox", "event", "source" and the queues
    Times,          \* the timeouts given
    Lengths,        \* the lengths of the transfers
    Counts,         \* what semaphores are reset to and added to them
    MaxCount        \* bound: how far up a semaphore counts

\* The kinds that are not I/O queues.
Others == {"semaphore", "binary", "mailbox", "event", "source"}
ASSUME CommAssumption ==
    /\ IsFiniteSet(Threads) /\ Threads # {Idle}
    /\ Kinds \subseteq Others \cup Queues /\ Others \cap Queues = {}
    /\ {Full, Empty} \cap Queues = {}
    /\ Times \subseteq Nat \cup {Infinite} /\ Lengths \subseteq Nat \ {0}
    /\ Counts \subseteq Nat /\ MaxCount \in Nat

VARIABLE kind

vars == <<k, call, kind, boxVars, queueVars, eventVars>>

\* Every thread runs at the same priority or each at one of its own.
Init ==
    /\ kind \in Kinds
    /\ \E order \in SetToSeqs(Threads \ {Idle}), equal \in BOOLEAN :
         k = InitialState([t \in Threads |->
                             IF t = Idle THEN 1 ELSE IF equal THEN 2
                             ELSE 2 + Len(order) - CHOOSE i \in DOMAIN order : order[i] = t],
                          Tail(order) \o <<Idle>>, Head(order),
                          [o \in {Full, Empty} |-> IF o = Empty /\ kind = "mailbox" THEN BoxSize ELSE 0])
    /\ call = [t \in Threads |-> User]
    /\ BoxInit /\ QueuesInit /\ EventsInit

SemNext(t) ==
    /\ \E o, o2 \in {Full, Empty}, n \in Counts, time \in Times :
         \/ SemWait(t, o, time) \/ SemSignalWait(t, o, o2) \/ SemWaitBack(t)
         \/ SemSignalCall(t, o) \/ SemReset(t, o, n)
         \/ SemSignalIsr(o) \/ SemAddCounterIsr(o, n) \/ SemResetIsr(o, n)
    /\ \A o \in {Full, Empty} : k'.cnt[o] <= MaxCount
    /\ UNCHANGED boxVars

BSemNext(t) ==
    /\ \E o \in {Full, Empty}, taken \in BOOLEAN, time \in Times :
         \/ BSemWait(t, o) \/ BSemWaitTimeout(t, o, time) \/ SemWaitBack(t)
         \/ BSemReset(t, o, taken) \/ BSemSignal(t, o)
         \/ BSemResetIsr(o, taken) \/ BSemSignalIsr(o)
    /\ UNCHANGED boxVars

TickStep == Tick /\ UNCHANGED <<boxVars, queueVars, eventVars>>

Next ==
    /\ UNCHANGED kind
    /\ \/ TickStep
       \/ \E t \in Threads :
            \/ kind = "semaphore" /\ SemNext(t) /\ UNCHANGED <<queueVars, eventVars>>
            \/ kind = "binary" /\ BSemNext(t) /\ UNCHANGED <<queueVars, eventVars>>
            \/ kind = "mailbox" /\ BoxNext(t, Times) /\ UNCHANGED <<queueVars, eventVars>>
            \/ kind \in Queues /\ QueueNext(t, kind, Times, Lengths) /\ UNCHANGED <<boxVars, eventVars>>
            \/ kind = "event" /\ EventNext(t, Times) /\ UNCHANGED <<boxVars, queueVars>>
            \/ kind = "source" /\ SourceNext(t, Times) /\ UNCHANGED <<boxVars, queueVars>>

Spec == Init /\ [][Next]_vars
-----------------------------------------------------------------------------

TypeOK ==
    /\ PlacesOK /\ TimersOnTime
    /\ k.cnt \in [{Full, Empty} -> Int]
    /\ pending \in [Threads -> SUBSET Events]
    /\ flags \in [Threads -> SUBSET Events]

\* A binary semaphore is taken or free, whoever gives it twice.
SemsCount == SemConsistent /\ (kind = "binary" => \A o \in DOMAIN k.cnt : k.cnt[o] <= 1)

\* A mailbox loses, repeats and reorders nothing unless a reset overtakes a
\* thread that was let go, and then its places are one too many: see ChMBoxes.
MailIsKept == kind = "mailbox" => BoxHoldsMail
=============================================================================
