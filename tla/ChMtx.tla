-------------------------------- MODULE ChMtx --------------------------------
(***************************************************************************)
(* Mutexes of ChibiOS/RT (chmtx.c), which lend the priority of a waiting   *)
(* thread to the owner and on along the chain of owners, the condition     *)
(* variables built on them (chcond.c), and chThdSetPriority() as it is     *)
(* with mutexes.                                                           *)
(***************************************************************************)
EXTENDS ChSchd

CONSTANTS
    Main,           \* the thread that runs first
    Mutexes,
    Rank,           \* the order in which threads nest the mutexes
    Conds,          \* the condition variables
    Prios, Times

ASSUME MtxAssumption ==
    /\ Rank \in [Mutexes -> Nat] /\ Objects = Mutexes \cup Conds /\ Mutexes \cap Conds = {}
    /\ IsFiniteSet(Threads) /\ None \notin Threads
    /\ Main \in Threads \ {Idle} /\ Prios \subseteq Nat \ {0, 1} /\ Times \subseteq Nat \ {0}

VARIABLES
    owner,          \* m_owner of each mutex, or None
    mtxlist,        \* p_mtxlist of each thread: what it owns, the last locked first
    realprio,       \* p_realprio: each thread's own priority
    holds,          \* history: the mutexes each thread's own code has locked
                    \* and not unlocked, the last one first
    lowered         \* history: the threads that made themselves less urgent
                    \* while they owned a mutex somebody waited for, until
                    \* what they are lent is computed again

vars == <<k, call, owner, mtxlist, realprio, holds, lowered>>

Init ==
    /\ realprio \in [Threads -> Prios \cup {1}] /\ realprio[Idle] = 1
    /\ \A t \in Threads \ {Idle} : realprio[t] \in Prios /\ realprio[t] <= realprio[Main]
    /\ \E ready \in SetToSeqs(Threads \ {Main}) :
         /\ \A i \in 1..Len(ready) - 1 : realprio[ready[i]] >= realprio[ready[i + 1]]
         /\ k = InitialState(realprio, ready, Main, <<>>)
    /\ call = [t \in Threads |-> User]
    /\ owner = [m \in Mutexes |-> None]
    /\ mtxlist = [t \in Threads |-> <<>>]
    /\ holds = [t \in Threads |-> <<>>]
    /\ lowered = {}

OwnersUnchanged == UNCHANGED <<owner, mtxlist, realprio, lowered>>

(* chMtxLockS() *)

Requeue(s, t) ==
    LET o == s.u[t] IN [s EXCEPT !.queue[o] = PrioInsert(Dequeue(@, t), t, s.prio)]

ReadyAgain(s, t) == ReadyI([s EXCEPT !.ready = Dequeue(@, t)], t)

\* Mutant: the owner of what the owner waits for is not thought of
LendOnce(a, prio) ==
    IF a.to = None \/ a.s.prio[a.to] >= prio THEN [a EXCEPT !.to = None]
    ELSE LET up    == [a.s EXCEPT !.prio[a.to] = prio]
             state == up.state[a.to]
         IN  CASE state \in {"WTMTX", "WTCOND"} -> [s |-> Requeue(up, a.to), to |-> None]
               [] state = "READY" -> [s |-> ReadyAgain(up, a.to), to |-> None]
               [] OTHER -> [s |-> up, to |-> None]

\* One turn of its loop: thread a.to, if it is less urgent than prio, is
\* made as urgent and takes its new place; the owner of what it waits for
\* is next.
Lend(a, prio) ==
    IF a.to = None \/ a.s.prio[a.to] >= prio THEN [a EXCEPT !.to = None]
    ELSE LET up    == [a.s EXCEPT !.prio[a.to] = prio]
             state == up.state[a.to]
         IN  CASE state = "WTMTX" -> [s |-> Requeue(up, a.to), to |-> owner[up.u[a.to]]]
               [] state = "WTCOND" -> [s |-> Requeue(up, a.to), to |-> None]
               [] state = "READY" -> [s |-> ReadyAgain(up, a.to), to |-> None]
               [] OTHER -> [s |-> up, to |-> None]

\* Each turn makes one more thread as urgent, so there are no more than threads.
Inherit(s, t, m) ==
    FoldLeft(LAMBDA a, i : Lend(a, s.prio[t]), [s |-> s, to |-> owner[m]],
             [i \in 1..Cardinality(Threads) |-> i]).s

\* Thread t waits for a mutex that another one owns.
LockS(s, t, m) ==
    LET lent == Inherit(s, t, m)
    IN  GoSleepS([lent EXCEPT !.queue[m] = PrioInsert(@, t, lent.prio), !.u[t] = m], "WTMTX")

\* Thread t takes a mutex that nobody owns.
Takes(t, m) ==
    /\ owner' = [owner EXCEPT ![m] = t]
    /\ mtxlist' = [mtxlist EXCEPT ![t] = <<m>> \o @]
    /\ holds' = [holds EXCEPT ![t] = <<m>> \o @]
    /\ UNCHANGED <<realprio, lowered>>

(* chMtxUnlockS(), but for what becomes of the next owner. *)

\* A thread's own priority or that of a more urgent one that it keeps out
\* of the mutexes ms.
PrioNow(t, ms) ==
    Max({realprio[t]} \cup {k.prio[Head(k.queue[m])] : m \in {o \in ToSet(ms) : k.queue[o] # <<>>}})

\* What t is lent is computed again when somebody waits for what it gives up,
\* and is nothing when it keeps no mutex.
StillLowered(t, ms, kept) ==
    IF kept = <<>> \/ \E m \in ms : k.queue[m] # <<>> THEN lowered \ {t} ELSE lowered

NextOwner(m) == IF k.queue[m] = <<>> THEN None ELSE Head(k.queue[m])

\* Mutant: the mutexes are given up and the next threads only woken
HandOverFreed(t, ms, kept) ==
    /\ owner' = [m \in Mutexes |-> IF m \in ms THEN None ELSE owner[m]]
    /\ mtxlist' = [mtxlist EXCEPT ![t] = kept]
    /\ UNCHANGED realprio /\ lowered' = StillLowered(t, ms, kept)

\* Thread t gives up the mutexes of ms; who is first in the queue of one
\* owns it now.  A thread waits for one mutex at most.
HandOver(t, ms, kept) ==
    /\ owner' = [m \in Mutexes |-> IF m \in ms THEN NextOwner(m) ELSE owner[m]]
    /\ mtxlist' = [x \in Threads |->
                     IF x = t THEN kept
                     ELSE IF \E m \in ms : NextOwner(m) = x
                     THEN <<CHOOSE m \in ms : NextOwner(m) = x>> \o mtxlist[x] ELSE mtxlist[x]]
    /\ UNCHANGED realprio /\ lowered' = StillLowered(t, ms, kept)

Popped(s, o) == [s EXCEPT !.queue[o] = Tail(@)]

\* The mutex m that t locked last has somebody waiting for it.
UnlockedS(t, m) == Popped([k EXCEPT !.prio[t] = PrioNow(t, Tail(mtxlist[t]))], m)

(* The calls. *)

MtxLock(t, m) ==
    /\ Calls(t) /\ \A i \in DOMAIN holds[t] : Rank[holds[t][i]] < Rank[m]
    /\ \/ owner[m] = None /\ Returns(k) /\ Takes(t, m)
       \/ /\ owner[m] # None /\ Sleeps(t, LockS(k, t, m), [op |-> "lock", of |-> m])
          /\ OwnersUnchanged /\ UNCHANGED holds

MtxLockBack(t) ==
    /\ IsBack(t, "lock") /\ Sleeps(t, k, User)
    /\ holds' = [holds EXCEPT ![t] = <<call[t].of>> \o @]
    /\ OwnersUnchanged

MtxTryLock(t, m) ==
    /\ Calls(t) /\ \A i \in DOMAIN holds[t] : Rank[holds[t][i]] < Rank[m]
    /\ \/ owner[m] = None /\ Returns(k) /\ Takes(t, m)
       \/ owner[m] # None /\ Returns(k) /\ OwnersUnchanged /\ UNCHANGED holds

MtxUnlock(t) ==
    /\ Calls(t) /\ holds[t] # <<>>
    /\ LET m == Head(mtxlist[t])
       IN  /\ Returns(IF k.queue[m] = <<>> THEN k
                      ELSE WakeupS(UnlockedS(t, m), Head(k.queue[m]), "OK"))
           /\ HandOver(t, {m}, Tail(mtxlist[t]))
    /\ holds' = [holds EXCEPT ![t] = Tail(@)]

\* The first thread that waits for m, if any, has it and can run.
PassOn(s, m) == IF s.queue[m] = <<>> THEN s ELSE ReadyI(Popped(s, m), Head(s.queue[m]))

UnlockAllOf(t) ==
    RescheduleS([FoldLeft(PassOn, k, mtxlist[t]) EXCEPT !.prio[t] = realprio[t]])

MtxUnlockAll(t) ==
    /\ Calls(t)
    /\ Returns(IF mtxlist[t] = <<>> THEN k ELSE UnlockAllOf(t))
    /\ HandOver(t, ToSet(mtxlist[t]), <<>>)
    /\ holds' = [holds EXCEPT ![t] = <<>>]

\* chThdSetPriority().  It does not look at who waits for t: where t is as
\* urgent as it is itself, it becomes as urgent as p, also below a waiter.
MtxSetPriority(t, p) ==
    /\ Calls(t)
    /\ Returns(RescheduleS(IF k.prio[t] = realprio[t] \/ p > k.prio[t]
                           THEN [k EXCEPT !.prio[t] = p] ELSE k))
    /\ realprio' = [realprio EXCEPT ![t] = p]
    /\ lowered' = IF /\ k.prio[t] = realprio[t] /\ p < k.prio[t]
                     /\ \E m \in ToSet(mtxlist[t]) : k.queue[m] # <<>>
                  THEN lowered \cup {t} ELSE lowered
    /\ UNCHANGED <<owner, mtxlist, holds>>

(* Condition variables: a thread gives up the last mutex it locked, and    *)
(* takes it again unless the time ran out.                                 *)

CondSleep(t, c, time) ==
    /\ Calls(t) /\ holds[t] # <<>>
    /\ LET m    == Head(mtxlist[t])
           u    == IF k.queue[m] = <<>> THEN k ELSE ReadyI(UnlockedS(t, m), Head(k.queue[m]))
           wait == [u EXCEPT !.u[t] = c, !.queue[c] = PrioInsert(@, t, u.prio)]
       IN  /\ Sleeps(t, GoSleepTimeoutS(wait, "WTCOND", time), [op |-> "cond", of |-> m])
           /\ HandOver(t, {m}, Tail(mtxlist[t]))
    /\ holds' = [holds EXCEPT ![t] = Tail(@)]

CondWait(t, c) == CondSleep(t, c, Infinite)
CondWaitTimeout(t, c, time) == CondSleep(t, c, time)

CondWaitBack(t) ==
    /\ IsBack(t, "cond")
    /\ LET s == AwakeS(k)
           m == call[t].of
       IN  \/ /\ k.u[t] = "TIMEOUT" /\ Sleeps(t, s, User)
              /\ OwnersUnchanged /\ UNCHANGED holds
           \/ k.u[t] # "TIMEOUT" /\ owner[m] = None /\ Sleeps(t, s, User) /\ Takes(t, m)
           \/ /\ k.u[t] # "TIMEOUT" /\ owner[m] # None
              /\ Sleeps(t, LockS(s, t, m), [op |-> "lock", of |-> m])
              /\ OwnersUnchanged /\ UNCHANGED holds

CondSignal(t, c) ==
    /\ Calls(t) /\ OwnersUnchanged /\ UNCHANGED holds
    /\ Returns(IF k.queue[c] = <<>> THEN k ELSE WakeupS(Popped(k, c), Head(k.queue[c]), "OK"))

CondSignalI(c) ==
    /\ InUser /\ OwnersUnchanged /\ UNCHANGED holds
    /\ Returns(Epilogue(IF k.queue[c] = <<>> THEN k
                        ELSE ReadyWith(Popped(k, c), Head(k.queue[c]), "OK")))

CondBroadcastI(s, c) ==
    FoldLeft(LAMBDA r, t : ReadyWith(r, t, "RESET"), [s EXCEPT !.queue[c] = <<>>], s.queue[c])

CondBroadcast(c) ==
    /\ Calls(k.current) /\ OwnersUnchanged /\ UNCHANGED holds
    /\ Returns(RescheduleS(CondBroadcastI(k, c)))
CondBroadcastIsr(c) ==
    InUser /\ OwnersUnchanged /\ UNCHANGED holds /\ Returns(Epilogue(CondBroadcastI(k, c)))

TickStep == Tick /\ OwnersUnchanged /\ UNCHANGED holds

Next ==
    \/ TickStep
    \/ \E c \in Conds : CondSignalI(c) \/ CondBroadcast(c) \/ CondBroadcastIsr(c)
    \/ \E t \in Threads :
        \/ \E m \in Mutexes : MtxLock(t, m) \/ MtxTryLock(t, m)
        \/ MtxLockBack(t)
        \/ MtxUnlock(t)
        \/ MtxUnlockAll(t)
        \/ \E p \in Prios : MtxSetPriority(t, p)
        \/ \E c \in Conds : CondSignal(t, c) \/ CondWait(t, c) \/ \E time \in Times : CondWaitTimeout(t, c, time)
        \/ CondWaitBack(t)

Spec == Init /\ [][Next]_vars
-----------------------------------------------------------------------------

TypeOK ==
    /\ PlacesOK /\ TimersOnTime
    /\ owner \in [Mutexes -> Threads \cup {None}]
    /\ mtxlist \in [Threads -> Seq(Mutexes)]
    /\ realprio \in [Threads -> Prios \cup {1}] /\ lowered \subseteq Threads

\* Mutual exclusion: what a thread's code has locked and not unlocked is what
\* the kernel has it own, in the same order, whenever it runs its own code -
\* also when it was handed the mutex in its sleep, and after it waited on a
\* condition variable - and no mutex is in two threads' lists or has a
\* waiting thread and no owner.
HeldIsOwned ==
    /\ \A t \in Threads : call[t] = User => holds[t] = mtxlist[t]
    /\ \A m \in Mutexes :
         /\ \A t \in Threads : Cardinality({i \in DOMAIN mtxlist[t] : mtxlist[t][i] = m})
                                   = (IF owner[m] = t THEN 1 ELSE 0)
         /\ k.queue[m] # <<>> => owner[m] # None

\* No priority inversion, and no priority kept that is no longer lent: a
\* thread is exactly as urgent as itself or the most urgent thread waiting,
\* itself or through others, for a mutex it owns.  The one exception is the
\* code's: chThdSetPriority() lets an owner fall below who waits for it, until
\* it unlocks a mutex that somebody waits for, or its last one; even then it is
\* as urgent as itself or as one of those who wait: it keeps nothing that nobody
\* lends.
PriorityIsInherited ==
    \A t \in Threads :
        LET real  == realprio[t]
            lends == {k.prio[w] : w \in UNION {ToSet(k.queue[m]) : m \in ToSet(mtxlist[t])}}
        IN  /\ k.prio[t] \in {real} \cup lends /\ k.prio[t] >= real
            /\ t \notin lowered => k.prio[t] = Max({real} \cup lends)
=============================================================================
