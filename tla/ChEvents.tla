------------------------------ MODULE ChEvents ------------------------------
(***************************************************************************)
(* Events of ChibiOS/RT (chevents.c): flags pending on a thread, which     *)
(* waits for one, any or all of a mask, and an event source that signals   *)
(* its registered listeners.  A mask is a set of event numbers.            *)
(***************************************************************************)
EXTENDS ChSchd

CONSTANTS
    Events          \* the event numbers in use

ASSUME EventsAssumption == Events \subseteq Nat /\ IsFiniteSet(Events)

VARIABLES
    pending,        \* p_epending of each thread
    listeners,      \* the source's list, the newest listener first
    flags           \* el_flags of the listener each thread has
eventVars == <<pending, listeners, flags>>

EventsInit ==
    /\ pending = [t \in Threads |-> {}]
    /\ listeners = <<>>
    /\ flags = [t \in Threads |-> {}]

Masks == SUBSET Events \ {{}}

(* The source.  A thread has one listener at most. *)

RegisterMask(t, mask) ==
    /\ Calls(t) /\ Returns(k) /\ \A i \in DOMAIN listeners : listeners[i].thread # t
    /\ listeners' = <<[thread |-> t, mask |-> mask]>> \o listeners
    /\ flags' = [flags EXCEPT ![t] = {}]
    /\ UNCHANGED pending

Unregister(t) ==
    /\ Calls(t) /\ Returns(k)
    /\ \/ \E i \in DOMAIN listeners :
            listeners[i].thread = t /\ listeners' = RemoveAt(listeners, i)
       \/ (\A i \in DOMAIN listeners : listeners[i].thread # t) /\ UNCHANGED listeners
    /\ UNCHANGED <<pending, flags>>

\* chEvtGetAndClearFlagsI(), by whoever has interrupts off.
GetAndClearFlagsI(t) ==
    /\ InUser /\ Returns(k)
    /\ flags' = [flags EXCEPT ![t] = {}]
    /\ UNCHANGED <<pending, listeners>>
GetAndClearFlags(t) == Calls(t) /\ GetAndClearFlagsI(t)

(* Signalling.  The kernel and the pending events are one state here: a    *)
(* broadcast signals one listener after the other.                         *)

Satisfied(state, p, mask) ==
    \/ state = "WTOREVT" /\ p \cap mask # {}
    \/ state = "WTANDEVT" /\ mask \subseteq p

\* Mutant: a thread that waits for all its events is not thought of
EvtSignalIAny(e, t, mask) ==
    LET p == e.pending[t] \cup mask
    IN  [k |-> IF e.k.state[t] = "WTOREVT" /\ p \cap e.k.u[t] # {}
               THEN ReadyWith(e.k, t, "OK") ELSE e.k,
         pending |-> [e.pending EXCEPT ![t] = p]]

EvtSignalI(e, t, mask) ==
    LET p == e.pending[t] \cup mask
    IN  [k |-> IF Satisfied(e.k.state[t], p, e.k.u[t]) THEN ReadyWith(e.k, t, "OK") ELSE e.k,
         pending |-> [e.pending EXCEPT ![t] = p]]

BroadcastFlagsI(e) ==
    FoldLeft(LAMBDA r, l : EvtSignalI(r, l.thread, l.mask), e, listeners)

Now == [k |-> k, pending |-> pending]

\* By a thread, and by an interrupt handler.
EvtSignal(t, mask) ==
    LET e == EvtSignalI(Now, t, mask)
    IN  /\ Calls(k.current) /\ Returns(RescheduleS(e.k))
        /\ pending' = e.pending /\ UNCHANGED <<listeners, flags>>

EvtSignalIsr(t, mask) ==
    LET e == EvtSignalI(Now, t, mask)
    IN  /\ InUser /\ Returns(Epilogue(e.k))
        /\ pending' = e.pending /\ UNCHANGED <<listeners, flags>>

Broadcasts(f) ==
    LET e == BroadcastFlagsI(Now)
    IN  /\ pending' = e.pending
        /\ flags' = [t \in Threads |->
                       IF \E i \in DOMAIN listeners : listeners[i].thread = t
                       THEN flags[t] \cup f ELSE flags[t]]
        /\ UNCHANGED listeners

BroadcastFlags(f) ==
    Calls(k.current) /\ Broadcasts(f) /\ Returns(RescheduleS(BroadcastFlagsI(Now).k))
BroadcastFlagsIsr(f) ==
    InUser /\ Broadcasts(f) /\ Returns(Epilogue(BroadcastFlagsI(Now).k))

(* The thread's own events. *)

AddEvents(t, mask) ==
    /\ Calls(t) /\ Returns(k)
    /\ pending' = [pending EXCEPT ![t] = @ \cup mask] /\ UNCHANGED <<listeners, flags>>

GetAndClearEvents(t, mask) ==
    /\ Calls(t) /\ Returns(k)
    /\ pending' = [pending EXCEPT ![t] = @ \ mask] /\ UNCHANGED <<listeners, flags>>

(* Waiting for one, any or all of a mask. *)

WaitState(way) == IF way = "all" THEN "WTANDEVT" ELSE "WTOREVT"

\* Of the events that came, the first one (m &= -m), or all of the mask.
Taken(way, p, mask) == IF way = "one" THEN {Min(p \cap mask)} ELSE p \cap mask

TakesEvents(t, way, mask) ==
    /\ pending' = [pending EXCEPT ![t] = @ \ Taken(way, @, mask)]
    /\ UNCHANGED <<listeners, flags>>

EvtWait(t, way, mask, time) ==
    LET came == Satisfied(WaitState(way), pending[t], mask)
    IN  /\ Calls(t)
        /\ \/ came /\ TakesEvents(t, way, mask) /\ Returns(k)
           \/ ~came /\ time = Immediate /\ Returns(k) /\ UNCHANGED eventVars
           \/ /\ ~came /\ time # Immediate /\ UNCHANGED eventVars
              /\ Sleeps(t, GoSleepTimeoutS([k EXCEPT !.u[t] = mask], WaitState(way), time),
                        [op |-> "event", way |-> way, mask |-> mask])

EvtWaitBack(t) ==
    /\ IsBack(t, "event") /\ Sleeps(t, AwakeS(k), User)
    /\ \/ k.u[t] = "OK" /\ TakesEvents(t, call[t].way, call[t].mask)
       \/ k.u[t] # "OK" /\ UNCHANGED eventVars

EvtWaitOne(t, mask) == EvtWait(t, "one", mask, Infinite)
EvtWaitAny(t, mask) == EvtWait(t, "any", mask, Infinite)
EvtWaitAll(t, mask) == EvtWait(t, "all", mask, Infinite)
EvtWaitOneTimeout(t, mask, time) == EvtWait(t, "one", mask, time)
EvtWaitAnyTimeout(t, mask, time) == EvtWait(t, "any", mask, time)
EvtWaitAllTimeout(t, mask, time) == EvtWait(t, "all", mask, time)

Waits(t, mask, times) ==
    \/ EvtWaitOne(t, mask) \/ EvtWaitAny(t, mask) \/ EvtWaitAll(t, mask)
    \/ \E time \in times \ {Infinite} :
                          \/ EvtWaitOneTimeout(t, mask, time)
                          \/ EvtWaitAnyTimeout(t, mask, time)
                          \/ EvtWaitAllTimeout(t, mask, time)

\* Threads that signal each other, and a source with its listeners.
EventNext(t, times) ==
    \/ \E mask \in Masks :
        \/ EvtSignal(t, mask) \/ EvtSignalIsr(t, mask)
        \/ AddEvents(t, mask) \/ GetAndClearEvents(t, mask)
        \/ Waits(t, mask, times)
    \/ EvtWaitBack(t)

SourceNext(t, times) ==
    \/ \E mask \in {Events, {Min(Events)}} : RegisterMask(t, mask)
    \/ Unregister(t) \/ GetAndClearFlags(t) \/ GetAndClearFlagsI(t)
    \/ BroadcastFlags(Events) \/ BroadcastFlagsIsr(Events)
    \/ EvtWaitAny(t, Events) \/ \E time \in times : EvtWaitAllTimeout(t, Events, time)
    \/ EvtWaitBack(t)

\* Nobody sleeps on events that have come, and nobody is told that they have
\* come who does not find them when it runs: whatever was signalled or timed
\* out between the wake-up and then.
EventsAnswered ==
    \A t \in Threads : call[t].op = "event" =>
        LET c    == call[t]
            came == Satisfied(WaitState(c.way), pending[t], c.mask)
        IN  \/ k.state[t] = WaitState(c.way) /\ k.u[t] = c.mask /\ ~came
            \/ k.state[t] \in {"READY", "CURRENT"} /\ (k.u[t] = "OK" => came)
=============================================================================
