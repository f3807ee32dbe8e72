------------------------------ MODULE ChThreads ------------------------------
(***************************************************************************)
(* Threads of ChibiOS/RT (chthreads.c): creation, priority, sleep, end and *)
(* join, with the registry (chregistry.h) they are listed in and the       *)
(* synchronous messages (chmsg.c) they exchange.                           *)
(***************************************************************************)
EXTENDS ChSchd

CONSTANTS
    Main,           \* the thread chSysInit() makes of main()
    Servers,        \* the threads that answer messages; they do not end
    Prios,          \* the priorities of the threads but the idle one
    Times           \* the times threads sleep for

RList == "rlist"    \* the ready list structure, both ends of the registry

ASSUME ThreadsAssumption ==
    /\ Main \in Threads \ {Idle} /\ Servers \subseteq Threads \ {Main, Idle}
    /\ Prios \subseteq Nat \ {0, 1} /\ Times \subseteq Nat \ {0}
    /\ IsFiniteSet(Threads) /\ Threads \cap {RList, None} = {}

VARIABLES
    waiting,        \* p_waiting of each thread: those in chThdWait() for it
    msgqueue,       \* p_msgqueue of each thread: those in chMsgSend() to it
    serving,        \* the client each server's chMsgWait() returned, or None
    newer, older    \* the two links of the registry

vars == <<k, call, waiting, msgqueue, serving, newer, older>>

Top == Max(Prios)

\* One direction of the ring of the registry: first, second and round again.
Linking(first, second) ==
    [x \in Threads \cup {RList} |->
        CASE x = RList -> first [] x = first -> second
          [] x = second -> RList [] OTHER -> None]

Init ==
    /\ \E p \in Prios :
         k = InitialState([t \in Threads |-> IF t = Main THEN p ELSE 1], <<Idle>>, Main, <<>>)
    /\ call = [t \in Threads |-> User]
    /\ waiting = [t \in Threads |-> <<>>]
    /\ msgqueue = [t \in Threads |-> <<>>]
    /\ serving = [t \in Threads |-> None]
    /\ newer = Linking(Main, Idle) /\ older = Linking(Idle, Main)

RegUnchanged == UNCHANGED <<newer, older>>
MsgUnchanged == UNCHANGED <<msgqueue, serving>>

(* Creation and the registry. *)

RegInsert(t) ==
    /\ newer' = [newer EXCEPT ![t] = RList, ![older[RList]] = t]
    /\ older' = [older EXCEPT ![t] = older[RList], ![RList] = t]

\* Mutant: one of the two links only
RegRemoveNewer(t) ==
    newer' = [newer EXCEPT ![older[t]] = newer[t]] /\ UNCHANGED older

RegRemove(t) ==
    /\ newer' = [newer EXCEPT ![older[t]] = newer[t]]
    /\ older' = [older EXCEPT ![newer[t]] = older[t]]

ThreadInit(c, p) == [k EXCEPT !.state[c] = "SUSPENDED", !.prio[c] = p]

CreateI(t, c, p) ==
    /\ Calls(t) /\ k.state[c] = None
    /\ Returns(ThreadInit(c, p)) /\ RegInsert(c)
    /\ MsgUnchanged /\ UNCHANGED waiting

CreateStatic(t, c, p) ==
    /\ Calls(t) /\ k.state[c] = None
    /\ Returns(WakeupS(ThreadInit(c, p), c, "OK")) /\ RegInsert(c)
    /\ MsgUnchanged /\ UNCHANGED waiting

Resume(t, c) ==
    /\ Calls(t) /\ k.state[c] = "SUSPENDED"
    /\ Returns(WakeupS(k, c, "OK"))
    /\ RegUnchanged /\ MsgUnchanged /\ UNCHANGED waiting

\* From an interrupt handler, which ends in the epilogue.
ResumeI(c) ==
    /\ InUser /\ k.state[c] = "SUSPENDED"
    /\ Returns(Epilogue(ReadyI(k, c)))
    /\ RegUnchanged /\ MsgUnchanged /\ UNCHANGED waiting

(* Priority and time.  No mutexes here: a thread's own priority is the one *)
(* it runs at (ChMtx has the rest of chThdSetPriority()).                  *)

\* Mutant: the thread that lowered its priority goes on
SetPriorityLazy(t, p) ==
    /\ Calls(t) /\ Returns([k EXCEPT !.prio[t] = p])
    /\ RegUnchanged /\ MsgUnchanged /\ UNCHANGED waiting

SetPriority(t, p) ==
    /\ Calls(t) /\ Returns(RescheduleS([k EXCEPT !.prio[t] = p]))
    /\ RegUnchanged /\ MsgUnchanged /\ UNCHANGED waiting

Yield(t) ==
    /\ Calls(t) /\ Returns(DoYieldS(k))
    /\ RegUnchanged /\ MsgUnchanged /\ UNCHANGED waiting

Sleep(t, time) ==
    /\ Calls(t) /\ Sleeps(t, GoSleepTimeoutS(k, "SLEEPING", time), [op |-> "sleep"])
    /\ RegUnchanged /\ MsgUnchanged /\ UNCHANGED waiting

SleepBack(t) ==
    /\ IsBack(t, "sleep") /\ Sleeps(t, AwakeS(k), User)
    /\ RegUnchanged /\ MsgUnchanged /\ UNCHANGED waiting

(* End and join.  A thread's exit code is its own name. *)

\* Mutant: wakes the first of the threads that wait, as a semaphore would
ExitWakingOne(t) ==
    /\ Calls(t) /\ t \notin Servers
    /\ LET coded == [k EXCEPT !.u[t] = t]
           woken == IF waiting[t] = <<>> THEN coded ELSE ReadyI(coded, Head(waiting[t]))
       IN  Returns(GoSleepS(woken, "FINAL"))
    /\ waiting' = [waiting EXCEPT ![t] = <<>>]
    /\ RegRemove(t) /\ MsgUnchanged

Exit(t) ==
    /\ Calls(t) /\ t \notin Servers
    /\ LET coded == [k EXCEPT !.u[t] = t]
           woken == FoldLeft(ReadyI, coded, waiting[t])
       IN  Returns(GoSleepS(woken, "FINAL"))
    /\ waiting' = [waiting EXCEPT ![t] = <<>>]
    /\ RegRemove(t) /\ MsgUnchanged

Wait(t, c) ==
    /\ Calls(t) /\ c # t /\ k.state[c] \notin {None, "FINAL"}
    /\ waiting' = [waiting EXCEPT ![c] = <<t>> \o @]
    /\ Sleeps(t, GoSleepS(k, "WTEXIT"), [op |-> "join", of |-> c])
    /\ RegUnchanged /\ MsgUnchanged

WaitBack(t) ==
    /\ IsBack(t, "join") /\ Sleeps(t, k, User)
    /\ RegUnchanged /\ MsgUnchanged /\ UNCHANGED waiting

(* Messages. *)

MsgSend(t, c) ==
    /\ Calls(t) /\ c # t /\ k.state[c] # None
    /\ msgqueue' = [msgqueue EXCEPT ![c] = Append(@, t)]
    /\ LET ready == IF k.state[c] = "WTMSG" THEN ReadyI(k, c) ELSE k
       IN  Sleeps(t, GoSleepS(ready, "SNDMSGQ"), [op |-> "send"])
    /\ RegUnchanged /\ UNCHANGED <<waiting, serving>>

MsgSendBack(t) ==
    /\ IsBack(t, "send") /\ Sleeps(t, k, User)
    /\ RegUnchanged /\ MsgUnchanged /\ UNCHANGED waiting

\* chMsgWait() once a message is there: its sender is taken off the queue.
TakeMsg(t) ==
    /\ serving' = [serving EXCEPT ![t] = Head(msgqueue[t])]
    /\ msgqueue' = [msgqueue EXCEPT ![t] = Tail(@)]
    /\ Sleeps(t, [k EXCEPT !.state[Head(msgqueue[t])] = "SNDMSG"], User)

MsgWait(t) ==
    /\ Calls(t) /\ serving[t] = None
    /\ \/ msgqueue[t] # <<>> /\ TakeMsg(t)
       \/ /\ msgqueue[t] = <<>> /\ Sleeps(t, GoSleepS(k, "WTMSG"), [op |-> "receive"])
          /\ MsgUnchanged
    /\ RegUnchanged /\ UNCHANGED waiting

MsgWaitBack(t) ==
    /\ IsBack(t, "receive") /\ TakeMsg(t)
    /\ RegUnchanged /\ UNCHANGED waiting

MsgRelease(t) ==
    /\ Calls(t) /\ serving[t] # None
    /\ Returns(WakeupS(k, serving[t], "OK"))
    /\ serving' = [serving EXCEPT ![t] = None]
    /\ RegUnchanged /\ UNCHANGED <<waiting, msgqueue>>

TickStep == Tick /\ RegUnchanged /\ MsgUnchanged /\ UNCHANGED waiting

Back(t) == SleepBack(t) \/ WaitBack(t) \/ MsgSendBack(t) \/ MsgWaitBack(t)

Next ==
    \/ TickStep
    \/ \E c \in Threads : ResumeI(c)
    \/ \E t \in Threads :
        \/ Back(t)
        \/ Exit(t)
        \/ Yield(t)
        \/ \E p \in Prios : SetPriority(t, p)
        \/ \E time \in Times : Sleep(t, time)
        \/ \E c \in Threads \ {Idle} :
            \/ \E p \in Prios : CreateI(t, c, p) \/ CreateStatic(t, c, p)
            \/ Resume(t, c)
            \/ c \notin Servers /\ Wait(t, c)
        \/ \E c \in Servers : MsgSend(t, c)
        \/ t \in Servers /\ MsgWait(t)
        \/ MsgRelease(t)

Spec == Init /\ [][Next]_vars

\* The timer interrupt keeps coming: weak fairness of TickStep, written out
\* with the condition under which the step changes anything, because TLC is
\* slow to find out whether so long an action is enabled.  A thread back from
\* its sleep goes on with its call: nothing else can happen until it does.
TickChanges == InUser /\ k # Epilogue(SysTimerHandlerI(k))
FairSpec ==
    /\ Spec
    /\ []<>(~TickChanges) \/ []<><<TickStep>>_vars
    /\ []<>InUser
-----------------------------------------------------------------------------

TypeOK ==
    /\ PlacesOK
    /\ waiting \in [Threads -> Seq(Threads)]
    /\ msgqueue \in [Threads -> Seq(Threads)]
    /\ serving \in [Threads -> Threads \cup {None}]

\* Nobody waits for what has already happened: a joined thread still runs,
\* each message on its way has exactly one holder - the queue it waits in or
\* the server that took it - and no server sleeps with a message queued
\* unless it has been made ready.
NobodyStranded ==
    \A t \in Threads :
        /\ k.state[t] = "WTEXIT" =>
             Cardinality({c \in Threads : k.state[c] # "FINAL" /\ t \in ToSet(waiting[c])}) = 1
        /\ k.state[t] = "SNDMSGQ" =>
             Cardinality({c \in Threads : t \in ToSet(msgqueue[c])}) = 1
        /\ k.state[t] = "SNDMSG" =>
             Cardinality({c \in Threads : serving[c] = t}) = 1
        /\ k.state[t] = "WTMSG" => msgqueue[t] = <<>>

\* The registry lists exactly the threads that were created and have not
\* ended, each once, both ways along its links.
Walk(link) ==
    LET w[n \in 0..Cardinality(Threads) + 1] == IF n = 0 THEN RList ELSE link[w[n - 1]] IN w
Live == {t \in Threads : k.state[t] \notin {None, "FINAL"}}
RegistryIsLive ==
    LET n == Cardinality(Live)
    IN  /\ {Walk(newer)[i] : i \in 1..n} = Live /\ Walk(newer)[n + 1] = RList
        /\ \A i \in 0..n + 1 : Walk(older)[i] = Walk(newer)[n + 1 - i]

\* A thread of the highest priority gets the processor, whatever the others
\* of that priority do: the time quantum takes it from the one that runs.
TopGetsTurn ==
    \A t \in Threads : k.state[t] = "READY" /\ k.prio[t] = Top ~> t = k.current
=============================================================================
