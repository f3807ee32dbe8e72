----------------------------- MODULE ChMtxProofs -----------------------------
(* Theorems about ChMtx, for any number of threads, mutexes and condition   *)
(* variables, any nesting of the mutexes, any priorities, times and quantum.*)
EXTENDS ChMtx, KernelProofs, FiniteSetTheorems

\* The notes p_u of the threads of this module.
Notes == Objects \cup {"OK", "TIMEOUT", "RESET"}

Sound(s) == Settled(Notes, {}, s)

\* Every queue of waiting threads falls in priority.
QueuesFall(s) == \A o \in Objects : Falling(s.queue[o], s.prio)

LockCalls == [op : {"lock"}, of : Mutexes]
CondCalls == [op : {"cond"}, of : Mutexes]
MtxCalls == {User} \cup LockCalls \cup CondCalls

\* Thread t, in the call c, sleeps on what that call says, or runs.
Sleeping(s, c, t) ==
    \/ Runs(s, t)
    \/ s.state[t] = "WTMTX" /\ c \in LockCalls /\ s.u[t] = c.of
    \/ s.state[t] = "WTCOND" /\ c \in CondCalls /\ s.u[t] \in Conds

CallsFit(s, calls) ==
    /\ calls \in [Threads -> MtxCalls] /\ calls[Idle] = User /\ Runs(s, Idle)
    /\ \A t \in Threads : /\ Sleeping(s, calls[t], t)
                          /\ Armed(s, t) => calls[t] \in CondCalls

\* Who owns a mutex has it in its list, once.
OwnersFit(own, lists) ==
    /\ own \in [Mutexes -> Threads \cup {None}] /\ lists \in [Threads -> Seq(Mutexes)]
    /\ \A t \in Threads : /\ IsInjective(lists[t])
                          /\ \A m \in Mutexes : m \in ToSet(lists[t]) <=> own[m] = t

\* Somebody waits only for a mutex that somebody owns.
WaitedIsOwned(s, own) == \A m \in Mutexes : s.queue[m] # <<>> => own[m] # None

\* What the code of thread t, in the call c, holds, and what its list says:
\* the same, but for a mutex that it was handed while it slept.
HeldFits(s, c, list, held, t) ==
    /\ held \in Seq(Mutexes)
    /\ c = User => list = held
    /\ c \in LockCalls => /\ c.of \notin ToSet(held)
                          /\ list = IF Runs(s, t) THEN <<c.of>> \o held ELSE held
    /\ c \in CondCalls => c.of \notin ToSet(held) /\ list = held
HoldsFit(s, calls, lists, held) ==
    \A t \in Threads : HeldFits(s, calls[t], lists[t], held[t], t)

\* The threads that wait for a mutex of thread x.
Waiters(s, own, x) == {w \in Threads : \E m \in Mutexes : own[m] = x /\ w \in ToSet(s.queue[m])}

\* v is r or a priority of the threads of W, and no less than r; it is the
\* highest of them all, unless thread x is among low.
Highest(v, r, prio, W, x, low) ==
    /\ v >= r /\ (x \in low \/ \A w \in W : v >= prio[w])
    /\ v = r \/ \E w \in W : prio[w] = v

\* A thread is as urgent as itself, or the most urgent of those that wait; one
\* that has lowered itself may be as urgent as a less urgent one of them.
Lent(s, own, real, low) ==
    \A x \in Threads : Highest(s.prio[x], real[x], s.prio, Waiters(s, own, x), x, low)

MtxInv ==
    /\ Sound(k) /\ TopRuns(k) /\ QueuesFall(k)
    /\ CallsFit(k, call)
    /\ OwnersFit(owner, mtxlist) /\ WaitedIsOwned(k, owner)
    /\ HoldsFit(k, call, mtxlist, holds) /\ holds \in [Threads -> Seq(Mutexes)]
    /\ realprio \in [Threads -> Nat \ {0}] /\ lowered \subseteq Threads
    /\ Lent(k, owner, realprio, lowered)

-----------------------------------------------------------------------------
(* The kernel and its queues that fall.                                     *)

LEMMA SoundIs ==
    ASSUME NEW s, Sound(s)
    PROVE  /\ s \in KernelStates(Notes, {}) /\ Placed(s) /\ Queue(Pars(s.vt), Threads)
           /\ Sorted(s) /\ OnTime(s) /\ QueuesSound(s)
           /\ s.current \in Threads /\ s.state \in [Threads -> States]
           /\ s.prio \in [Threads -> Nat \ {0}] /\ s.u \in [Threads -> Notes]
           /\ s.queue \in [Objects -> Seq(Threads)] /\ s.ready \in Seq(Threads)
           /\ s.cnt \in [{} -> Int]
           /\ s.state[s.current] = "CURRENT" /\ Runs(s, s.current)
           /\ \A t \in Threads : ThreadPlaced(s, t)
<1>1. s \in KernelStates(Notes, {}) /\ Placed(s)
  BY DEF Sound, Settled
<1>2. /\ s.current \in Threads /\ s.state \in [Threads -> States]
      /\ s.prio \in [Threads -> Nat \ {0}] /\ s.u \in [Threads -> Notes]
      /\ s.queue \in [Objects -> Seq(Threads)] /\ s.ready \in Seq(Threads)
      /\ s.cnt \in [{} -> Int]
  BY <1>1 DEF KernelStates
<1>3. s.state[s.current] = "CURRENT"
  BY <1>1, <1>2 DEF Placed, ThreadPlaced
<1>4. QED
  BY <1>1, <1>2, <1>3 DEF Sound, Settled, Runs, Runnable, Placed

LEMMA SameTimers ==
    ASSUME NEW s, NEW r, r.vt = s.vt, r.due = s.due
    PROVE  (OnTime(s) => OnTime(r)) /\ Pars(r.vt) = Pars(s.vt)
  BY DEF OnTime, Due

LEMMA SameFalls ==
    ASSUME NEW q \in Seq(Threads), NEW a, NEW b, \A x \in ToSet(q) : a[x] = b[x], Falling(q, a)
    PROVE  Falling(q, b)
<1>1. \A i \in 1..Len(q) : q[i] \in ToSet(q)
  BY QueueSet
<1>2. QED
  BY <1>1 DEF Falling

LEMMA DequeuedFalls ==
    ASSUME NEW q, Queue(q, Threads), NEW e \in ToSet(q), NEW prio \in [Threads -> Nat],
           Falling(q, prio)
    PROVE  Falling(Dequeue(q, e), prio)
<1> DEFINE at == CHOOSE i \in DOMAIN q : q[i] = e
           r == RemoveAt(q, at)
<1>1. q \in Seq(Threads) /\ at \in 1..Len(q)
  BY QueueSet DEF Queue
<1> HIDE DEF at
<1>2. /\ r \in Seq(Threads) /\ Len(r) = Len(q) - 1
      /\ \A j \in 1..(Len(q) - 1) : r[j] = IF j < at THEN q[j] ELSE q[j + 1]
  BY <1>1, RemovedIndex
<1> HIDE DEF r
<1>3. Falling(r, prio)
  <2> SUFFICES ASSUME NEW i \in 1..Len(r), NEW j \in 1..Len(r), i < j
               PROVE  prio[r[i]] >= prio[r[j]]
    BY DEF Falling
  <2>1. \A a, b \in 1..Len(q) : a < b => prio[q[a]] >= prio[q[b]]
    BY DEF Falling
  <2> DEFINE f(x) == IF x < at THEN x ELSE x + 1
  <2>2. f(i) \in 1..Len(q) /\ f(j) \in 1..Len(q) /\ f(i) < f(j)
    <3>1. Len(q) \in Nat /\ at \in 1..Len(q) /\ i \in 1..(Len(q) - 1) /\ j \in 1..(Len(q) - 1)
      BY <1>1, <1>2
    <3>2. QED
      BY ONLY <3>1, i < j
  <2>3. r[i] = q[f(i)] /\ r[j] = q[f(j)]
    BY <1>2
  <2> HIDE DEF f
  <2>4. QED
    BY <2>1, <2>2, <2>3
<1>4. QED
  BY <1>3 DEF Dequeue, at, r

\* A thread of a queue becomes more urgent and takes its new place in it.
LEMMA Replaced ==
    ASSUME NEW q, Queue(q, Threads), NEW e \in ToSet(q), NEW a \in [Threads -> Nat],
           Falling(q, a), NEW b \in [Threads -> Nat], \A x \in Threads \ {e} : a[x] = b[x]
    PROVE  LET r == PrioInsert(Dequeue(q, e), e, b) IN
           Queue(r, Threads) /\ ToSet(r) = ToSet(q) /\ Falling(r, b)
<1> DEFINE d == Dequeue(q, e)
<1>1. Queue(d, Threads) /\ ToSet(d) = ToSet(q) \ {e} /\ Falling(d, a)
  BY DequeuedQueue, DequeuedFalls
<1>2. e \in Threads /\ ToSet(q) \subseteq Threads
  BY QueueSet DEF Queue
<1> HIDE DEF d
<1>3. \A x \in ToSet(d) : a[x] = b[x]
  BY <1>1, <1>2
<1>4. d \in Seq(Threads) /\ Falling(d, b)
  BY <1>1, <1>3, SameFalls DEF Queue
<1>5. /\ Queue(PrioInsert(d, e, b), Threads)
      /\ ToSet(PrioInsert(d, e, b)) = ToSet(d) \cup {e}
  BY <1>1, <1>2, PrioInsertedQueue
<1>6. Falling(PrioInsert(d, e, b), b)
  BY <1>2, <1>4, PrioInsertedFalling
<1>7. QED
  BY <1>1, <1>5, <1>6 DEF d

(* A thread becomes more urgent.                                            *)

Boosted(s, x, p) == [s EXCEPT !.prio[x] = p]

\* Nothing else of the threads changes.
Raised(s, r, x, p) ==
    /\ r.prio = [s.prio EXCEPT ![x] = p]
    /\ r.current = s.current /\ r.state = s.state /\ r.u = s.u
    /\ r.vt = s.vt /\ r.due = s.due /\ ToSet(r.ready) = ToSet(s.ready)
    /\ \A o \in Objects : ToSet(r.queue[o]) = ToSet(s.queue[o])

LEMMA BoostedIs ==
    ASSUME NEW s, Sound(s), NEW x \in Threads, NEW p \in Nat \ {0}
    PROVE  LET b == Boosted(s, x, p) IN
           /\ b \in KernelStates(Notes, {}) /\ b.prio = [s.prio EXCEPT ![x] = p]
           /\ b.prio \in [Threads -> Nat \ {0}] /\ \A y \in Threads \ {x} : b.prio[y] = s.prio[y]
           /\ b.prio[x] = p
           /\ b.current = s.current /\ b.state = s.state /\ b.u = s.u /\ b.ready = s.ready
           /\ b.queue = s.queue /\ b.vt = s.vt /\ b.due = s.due /\ b.cnt = s.cnt
<1>1. s \in KernelStates(Notes, {}) /\ s.prio \in [Threads -> Nat \ {0}]
  BY SoundIs
<1> DEFINE f == [s.prio EXCEPT ![x] = p]
<1>2. f \in [Threads -> Nat \ {0}] /\ f[x] = p /\ \A y \in Threads \ {x} : f[y] = s.prio[y]
  BY <1>1
<1>3. Boosted(s, x, p) = [s EXCEPT !.prio = f]
  BY DEF Boosted
<1> HIDE DEF f
<1> DEFINE b == [s EXCEPT !.prio = f]
<1>4. b \in KernelStates(Notes, {})
  BY <1>1, <1>2 DEF KernelStates
<1>5. /\ b.prio = f
      /\ b.current = s.current /\ b.state = s.state /\ b.u = s.u /\ b.ready = s.ready
      /\ b.queue = s.queue /\ b.vt = s.vt /\ b.due = s.due /\ b.cnt = s.cnt
  BY <1>1 DEF KernelStates
<1> HIDE DEF b
<1>6. QED
  BY <1>2, <1>3, <1>4, <1>5 DEF f, b

LEMMA WaiterRaised ==
    ASSUME NEW s, Sound(s), QueuesFall(s), NEW x \in Threads, NEW p \in Nat \ {0},
           s.state[x] \in WaitStates, s.u[x] \in Objects
    PROVE  LET r == Requeue(Boosted(s, x, p), x) IN
           Sound(r) /\ QueuesFall(r) /\ Raised(s, r, x, p)
<1> DEFINE b == Boosted(s, x, p)
           o == s.u[x]
           q == PrioInsert(Dequeue(b.queue[o], x), x, b.prio)
           r == [b EXCEPT !.queue[o] = q]
<1>1. /\ b \in KernelStates(Notes, {}) /\ b.prio = [s.prio EXCEPT ![x] = p]
      /\ b.prio \in [Threads -> Nat \ {0}] /\ \A y \in Threads \ {x} : b.prio[y] = s.prio[y]
      /\ b.current = s.current /\ b.state = s.state /\ b.u = s.u /\ b.ready = s.ready
      /\ b.queue = s.queue /\ b.vt = s.vt /\ b.due = s.due /\ b.cnt = s.cnt
  BY BoostedIs
<1> HIDE DEF b
<1>2. r = Requeue(b, x)
  BY <1>1 DEF Requeue
<1>3. x \in ToSet(s.queue[o]) /\ Queue(s.queue[o], Threads) /\ Falling(s.queue[o], s.prio)
  BY SoundIs DEF ThreadPlaced, QueuesSound, QueuesFall
<1>4. s.prio \in [Threads -> Nat] /\ b.prio \in [Threads -> Nat]
  BY <1>1, SoundIs
<1>5. Queue(q, Threads) /\ ToSet(q) = ToSet(s.queue[o]) /\ Falling(q, b.prio)
  BY <1>1, <1>3, <1>4, Replaced
<1> HIDE DEF q
<1>6. r \in KernelStates(Notes, {}) /\ r.queue = [s.queue EXCEPT ![o] = q]
      /\ r.prio = b.prio /\ r.current = s.current /\ r.state = s.state /\ r.u = s.u
      /\ r.ready = s.ready /\ r.vt = s.vt /\ r.due = s.due /\ r.cnt = s.cnt
  <2>1. [s.queue EXCEPT ![o] = q] \in [Objects -> Seq(Threads)]
    BY <1>5, SoundIs DEF Queue
  <2> DEFINE qs == [s.queue EXCEPT ![o] = q]
  <2>2. r = [b EXCEPT !.queue = qs]
    BY <1>1
  <2> HIDE DEF r, qs
  <2>3. QED
    BY <1>1, <2>1, <2>2 DEF KernelStates, qs
<1> HIDE DEF r
<1>7. /\ s.queue \in [Objects -> Seq(Threads)] /\ QueuesSound(s) /\ s.ready \in Seq(Threads)
      /\ r.queue[o] = q /\ \A y \in Objects \ {o} : r.queue[y] = s.queue[y]
  BY <1>6, SoundIs
<1>8. \A y \in Objects : ToSet(r.queue[y]) = ToSet(s.queue[y])
  BY <1>5, <1>7
<1>9. QueuesSound(r)
  <2>1. Queue(s.ready, Threads) /\ \A y \in Objects : Queue(s.queue[y], Threads)
    BY <1>7 DEF QueuesSound
  <2>2. QED
    BY <1>5, <1>6, <1>7, <2>1 DEF QueuesSound
<1>10. Placed(r)
  <2>1. ASSUME NEW y \in Threads PROVE ThreadPlaced(r, y)
    <3>1. ThreadPlaced(s, y)
      BY SoundIs
    <3>2. QED
      BY <1>6, <1>8, <3>1 DEF ThreadPlaced
  <2>2. QED
    BY <1>9, <2>1 DEF Placed
<1>11. \A y \in Objects : x \in ToSet(s.queue[y]) => y = o
  BY SoundIs DEF ThreadPlaced
<1>12. x \notin ToSet(s.ready) /\ ToSet(s.ready) \subseteq Threads
  <2>1. ThreadPlaced(s, x) /\ s.state[x] # "READY"
    BY SoundIs DEF WaitStates
  <2>2. QED
    BY <1>7, <2>1, QueueSet DEF ThreadPlaced
<1>13. QueuesFall(r)
  <2>1. ASSUME NEW y \in Objects \ {o} PROVE Falling(s.queue[y], b.prio)
    <3>1. s.queue[y] \in Seq(Threads) /\ Falling(s.queue[y], s.prio)
      BY <1>7 DEF QueuesFall
    <3>2. ToSet(s.queue[y]) \subseteq Threads \ {x}
      BY <1>11, <3>1, QueueSet
    <3>3. \A z \in ToSet(s.queue[y]) : s.prio[z] = b.prio[z]
      BY <1>1, <3>2
    <3>4. QED
      BY <3>1, <3>3, SameFalls
  <2>2. QED
    BY <1>5, <1>6, <1>7, <2>1 DEF QueuesFall
<1>14. Sorted(r)
  <2>1. \A z \in ToSet(s.ready) : s.prio[z] = b.prio[z]
    BY <1>1, <1>12
  <2>2. Falling(s.ready, s.prio)
    BY SoundIs DEF Sorted
  <2>3. s.ready \in Seq(Threads)
    BY <1>7
  <2>4. Falling(s.ready, b.prio)
    BY <2>1, <2>2, <2>3, SameFalls
  <2>5. QED
    BY <1>6, <2>4 DEF Sorted
<1>15. OnTime(r) /\ Queue(Pars(r.vt), Threads)
  BY <1>6, SoundIs DEF OnTime, Due
<1>16. Sound(r) /\ Raised(s, r, x, p)
  BY <1>1, <1>6, <1>8, <1>10, <1>14, <1>15 DEF Sound, Settled, Raised
<1>17. QED
  BY <1>2, <1>13, <1>16 DEF b

LEMMA ReadyRaised ==
    ASSUME NEW s, Sound(s), QueuesFall(s), NEW x \in Threads, NEW p \in Nat \ {0},
           s.state[x] = "READY"
    PROVE  LET r == ReadyAgain(Boosted(s, x, p), x) IN
           Sound(r) /\ QueuesFall(r) /\ Raised(s, r, x, p)
<1> DEFINE b == Boosted(s, x, p)
           q == Dequeue(b.ready, x)
           m == [b EXCEPT !.ready = q]
           r == ReadyI(m, x)
<1>1. /\ b \in KernelStates(Notes, {}) /\ b.prio = [s.prio EXCEPT ![x] = p]
      /\ b.prio \in [Threads -> Nat \ {0}] /\ \A y \in Threads \ {x} : b.prio[y] = s.prio[y]
      /\ b.current = s.current /\ b.state = s.state /\ b.u = s.u /\ b.ready = s.ready
      /\ b.queue = s.queue /\ b.vt = s.vt /\ b.due = s.due /\ b.cnt = s.cnt
  BY BoostedIs
<1> HIDE DEF b
<1>2. r = ReadyAgain(b, x)
  BY <1>1 DEF ReadyAgain
<1>3. /\ x \in ToSet(s.ready) /\ Queue(s.ready, Threads) /\ Falling(s.ready, s.prio)
      /\ s.prio \in [Threads -> Nat] /\ s.state \in [Threads -> States]
      /\ \A o \in Objects : x \notin ToSet(s.queue[o])
      /\ s.queue \in [Objects -> Seq(Threads)]
      /\ x # s.current
  <2>1. ThreadPlaced(s, x) /\ s.state[x] \notin WaitStates
    BY SoundIs DEF WaitStates
  <2>2. QED
    BY <2>1, SoundIs DEF ThreadPlaced, QueuesSound, Sorted
<1>4. Queue(q, Threads) /\ ToSet(q) = ToSet(s.ready) \ {x} /\ Falling(q, s.prio)
  BY <1>1, <1>3, DequeuedQueue, DequeuedFalls
<1> HIDE DEF q
<1>5. m \in KernelStates(Notes, {}) /\ m.ready = q /\ m.prio = b.prio /\ m.queue = s.queue
      /\ m.current = s.current /\ m.state = s.state /\ m.u = s.u
      /\ m.vt = s.vt /\ m.due = s.due /\ m.cnt = s.cnt
  <2>1. q \in Seq(Threads)
    BY <1>4 DEF Queue
  <2>2. QED
    BY <1>1, <2>1 DEF KernelStates
<1> HIDE DEF m
<1>6. PlacedBut(m, x)
  <2>1. QueuesSound(m)
    BY <1>4, <1>5, SoundIs DEF QueuesSound
  <2>2. ASSUME NEW y \in Threads \ {x} PROVE ThreadPlaced(m, y)
    <3>1. ThreadPlaced(s, y)
      BY SoundIs
    <3>2. QED
      BY <1>4, <1>5, <3>1 DEF ThreadPlaced
  <2>3. QED
    BY <1>3, <1>4, <1>5, <2>1, <2>2 DEF PlacedBut
<1>7. Sorted(m)
  <2>1. q \in Seq(Threads) /\ ToSet(q) \subseteq Threads \ {x}
    BY <1>4, QueueSet DEF Queue
  <2>2. \A z \in ToSet(q) : s.prio[z] = b.prio[z]
    BY <1>1, <2>1
  <2>3. Falling(q, b.prio)
    BY <1>4, <2>1, <2>2, SameFalls
  <2>4. QED
    BY <1>5, <2>3 DEF Sorted
<1>8. PrioInsert(m.ready, x, m.prio) \in Seq(Threads)
  <2>1. Queue(m.ready, Threads) /\ x \notin ToSet(m.ready)
    BY <1>4, <1>5
  <2>2. QED
    BY <2>1, PrioInsertedQueue DEF Queue
<1>9. /\ r \in KernelStates(Notes, {}) /\ r.state = [m.state EXCEPT ![x] = "READY"]
      /\ r.current = m.current /\ r.u = m.u /\ Kept(m, r)
  <2>1. m \in KernelStates(Notes, {}) /\ PlacedBut(m, x)
    BY <1>5, <1>6
  <2>2. r \in KernelStates(Notes, {}) /\ r.current = m.current /\ Woken(m, x, r)
    BY <2>1, ReadyIPlaces
  <2>3. r.state = [m.state EXCEPT ![x] = "READY"] /\ r.u = m.u
    BY <2>1 DEF ReadyI, KernelStates
  <2>4. QED
    BY <2>2, <2>3 DEF Woken
<1>10. Placed(r)
  BY <1>5, <1>6, ReadyIPlaces
<1>11. Sorted(r) /\ ToSet(r.ready) = ToSet(m.ready) \cup {x}
  BY <1>5, <1>6, <1>7, ReadyISorts
<1> HIDE DEF r
<1>12. r.state = s.state /\ ToSet(r.ready) = ToSet(s.ready)
  BY <1>3, <1>4, <1>5, <1>9, <1>11
<1>13. Raised(s, r, x, p)
  BY <1>1, <1>5, <1>9, <1>12 DEF Raised, Kept
<1>14. QueuesFall(r)
  <2>1. ASSUME NEW y \in Objects PROVE Falling(s.queue[y], b.prio)
    <3>1. s.queue[y] \in Seq(Threads) /\ Falling(s.queue[y], s.prio)
      BY <1>3 DEF QueuesFall
    <3>2. ToSet(s.queue[y]) \subseteq Threads \ {x}
      BY <1>3, <3>1, QueueSet
    <3>3. \A z \in ToSet(s.queue[y]) : s.prio[z] = b.prio[z]
      BY <1>1, <3>2
    <3>4. QED
      BY <3>1, <3>3, SameFalls
  <2>2. QED
    BY <1>5, <1>9, <2>1 DEF QueuesFall, Kept
<1>15. OnTime(r) /\ Queue(Pars(r.vt), Threads)
  <2>1. r.vt = s.vt /\ r.due = s.due
    BY <1>5, <1>9 DEF Kept
  <2>2. QED
    BY <2>1, SoundIs, SameTimers
<1>16. Sound(r)
  BY <1>9, <1>10, <1>11, <1>15 DEF Sound, Settled
<1>17. QED
  BY <1>2, <1>13, <1>14, <1>16 DEF b

-----------------------------------------------------------------------------
(* The loop of chMtxLockS(): the owner of the mutex, then the owner of what *)
(* that one waits for, and so on, become as urgent as the thread that locks.*)

LendTimes(base, p, n) == FoldLeft(LAMBDA a, i : Lend(a, p), base, [i \in 1..n |-> i])

LEMMA LendEach ==
    ASSUME NEW R, NEW p, NEW n \in Nat, NEW base \in R, NEW Rs, base \in Rs[0],
           \A a \in R : Lend(a, p) \in R,
           \A m \in 1..n : \A a \in R : a \in Rs[m - 1] => Lend(a, p) \in Rs[m]
    PROVE  LendTimes(base, p, n) \in R /\ LendTimes(base, p, n) \in Rs[n]
<1> DEFINE q == [i \in 1..n |-> i]
           st == [y \in R \X (1..n) |-> Lend(y[1], p)]
           Def(f) == f = [e \in SUBSET DOMAIN q |->
                            IF e = {} THEN base ELSE Lend(f[e \ {Max(e)}], p)]
           iter == CHOOSE f : Def(f)
           Ss == [m \in 0..n |-> R \cap Rs[m]]
<1>1. DOMAIN q = 1..n
  OBVIOUS
<1>2. st \in [R \X (1..n) -> R]
  OBVIOUS
<1>3. PICK g : Folds(g, R, st, base, n)
  BY <1>2, FoldExists
<1>4. Def(g)
  <2>1. ASSUME NEW e \in SUBSET (1..n), e # {} PROVE Max(e) \in 1..n /\ e \ {Max(e)} \in SUBSET (1..n)
    BY <2>1, MaxIn
  <2>2. ASSUME NEW e \in SUBSET (1..n), e # {} PROVE g[e] = Lend(g[e \ {Max(e)}], p)
    <3>1. g[e \ {Max(e)}] \in R
      BY <1>3, <2>1, <2>2 DEF Folds
    <3>2. g[e] = st[<<g[e \ {Max(e)}], Max(e)>>]
      BY <1>3, <2>2 DEF Folds
    <3>3. QED
      BY <2>1, <2>2, <3>1, <3>2
  <2>3. g[{}] = base
    BY <1>3 DEF Folds
  <2>4. g = [e \in SUBSET (1..n) |-> g[e]]
    BY <1>3 DEF Folds
  <2>5. QED
    BY <1>1, <2>2, <2>3, <2>4
<1>5. Def(iter)
  BY <1>4
<1>6. LendTimes(base, p, n) = iter[DOMAIN q]
  BY DEF LendTimes, FoldLeft, MapThenFoldSet
<1> HIDE DEF iter, q
<1>7. ASSUME NEW m \in 1..n, iter[1..(m - 1)] \in Ss[m - 1] PROVE iter[1..m] \in Ss[m]
  <2>1. Max(1..m) = m /\ (1..m) \ {m} = 1..(m - 1) /\ 1..m # {} /\ 1..m \in SUBSET (1..n)
    BY UpTo
  <2>2. iter[1..m] = Lend(iter[1..(m - 1)], p)
    BY <1>1, <1>5, <2>1
  <2>3. iter[1..(m - 1)] \in R /\ iter[1..(m - 1)] \in Rs[m - 1]
    BY <1>7
  <2>4. QED
    BY <2>2, <2>3
<1>8. iter[{}] = base
  BY <1>1, <1>5
<1>9. iter[1..n] \in Ss[n]
  <2>1. iter[{}] \in Ss[0]
    BY <1>8
  <2>2. \A m \in 1..n : iter[1..(m - 1)] \in Ss[m - 1] => iter[1..m] \in Ss[m]
    BY <1>7
  <2> HIDE DEF Ss
  <2>3. QED
    BY <2>1, <2>2, Chain
<1>10. QED
  BY <1>1, <1>6, <1>9

\* Thread x becomes as urgent as p; z is next, who owns what x waits for.
\* Every thread is as urgent as it must be, x if it is made as urgent as p.
AllHighest(prio, p, x, real, W) ==
    \A y \in Threads :
        Highest(IF y = x /\ prio[y] < p THEN p ELSE prio[y], real[y], prio, W[y], y, lowered)

LEMMA NextIsDue ==
    ASSUME NEW a \in [Threads -> Nat], NEW real \in [Threads -> Nat],
           NEW W \in [Threads -> SUBSET Threads], NEW p \in Nat, NEW x \in Threads, a[x] < p,
           AllHighest(a, p, x, real, W), NEW z, \A y \in Threads : x \in W[y] <=> y = z,
           NEW b \in [Threads -> Nat], b[x] = p, \A y \in Threads \ {x} : b[y] = a[y]
    PROVE  AllHighest(b, p, z, real, W)
<1> SUFFICES ASSUME NEW y \in Threads
             PROVE  Highest(IF y = z /\ b[y] < p THEN p ELSE b[y], real[y], b, W[y], y, lowered)
  BY DEF AllHighest
<1> DEFINE v == IF y = x THEN p ELSE a[y]
           n == IF y = z /\ b[y] < p THEN p ELSE b[y]
<1>1. /\ v \in Nat /\ real[y] \in Nat /\ W[y] \subseteq Threads
      /\ v >= real[y] /\ (y \in lowered \/ \A w \in W[y] : v >= a[w])
      /\ v = real[y] \/ \E w \in W[y] : a[w] = v
  <2>1. Highest(IF y = x /\ a[y] < p THEN p ELSE a[y], real[y], a, W[y], y, lowered)
    BY DEF AllHighest
  <2>2. v = IF y = x /\ a[y] < p THEN p ELSE a[y]
    OBVIOUS
  <2> HIDE DEF v
  <2>3. Highest(v, real[y], a, W[y], y, lowered)
    BY <2>1, <2>2
  <2>4. v \in Nat
    BY <2>2
  <2>5. QED
    BY <2>3, <2>4 DEF Highest
<1>2. n \in Nat /\ n >= v /\ b[y] = v
  OBVIOUS
<1>3. \A w \in Threads : a[w] \in Nat /\ b[w] \in Nat
  OBVIOUS
<1>4. CASE y = z
  <2>1. x \in W[y]
    BY <1>4
  <2>2. n >= p /\ (n = p \/ (n = v /\ v > p))
    BY <1>2, <1>4
  <2>3. y \in lowered \/ \A w \in W[y] : n >= b[w]
    BY <1>1, <1>2, <1>3, <2>2
  <2>4. n = real[y] \/ \E w \in W[y] : b[w] = n
    <3>1. CASE n = p
      BY <2>1, <3>1
    <3>2. CASE n = v /\ v > p
      <4>1. \A w \in W[y] : a[w] = v => w # x
        BY <3>2
      <4>2. QED
        BY <1>1, <3>2, <4>1
    <3>3. QED
      BY <2>2, <3>1, <3>2
  <2>5. QED
    BY <1>1, <1>2, <2>3, <2>4 DEF Highest
<1>5. CASE y # z
  <2>1. n = v /\ \A w \in W[y] : b[w] = a[w]
    BY <1>1, <1>2, <1>5
  <2>2. QED
    BY <1>1, <2>1 DEF Highest
<1>6. QED
  BY <1>4, <1>5

\* What does not change while priorities are lent.
Alike(s, r) ==
    /\ r.current = s.current /\ r.state = s.state /\ r.u = s.u
    /\ r.vt = s.vt /\ r.due = s.due /\ ToSet(r.ready) = ToSet(s.ready)
    /\ \A o \in Objects : ToSet(r.queue[o]) = ToSet(s.queue[o])

\* Every thread waits for what its call says, and mutexes waited for have owners.
WaitsFit(s) ==
    /\ Sound(s) /\ QueuesFall(s)
    /\ \A x \in Threads : Sleeping(s, call[x], x)
    /\ owner \in [Mutexes -> Threads \cup {None}] /\ WaitedIsOwned(s, owner)
    /\ realprio \in [Threads -> Nat \ {0}]

\* Who waits for a mutex of each thread, the current thread for m.
WaitersToo(s, m) ==
    [x \in Threads |-> Waiters(s, owner, x) \cup (IF owner[m] = x THEN {s.current} ELSE {})]

LEMMA KindsOfCalls ==
    /\ User \notin LockCalls /\ User \notin CondCalls /\ LockCalls \cap CondCalls = {}
    /\ \A c \in LockCalls : c.op = "lock" /\ c.of \in Mutexes
    /\ \A c \in CondCalls : c.op = "cond" /\ c.of \in Mutexes
    /\ \A m \in Mutexes : [op |-> "lock", of |-> m] \in LockCalls /\ [op |-> "cond", of |-> m] \in CondCalls
    /\ User.op = "user" /\ Mutexes \subseteq Objects /\ Conds \subseteq Objects
    /\ Mutexes \cap Conds = {}
  BY MtxAssumption DEF User, LockCalls, CondCalls

\* A thread that sleeps is in the queue of what it waits for and in no other.
LEMMA WhereItWaits ==
    ASSUME NEW s, WaitsFit(s), NEW x \in Threads
    PROVE  /\ s.state[x] \in {"READY", "CURRENT", "WTMTX", "WTCOND"}
           /\ s.state[x] \in Runnable => \A o \in Objects : x \notin ToSet(s.queue[o])
           /\ s.state[x] \notin Runnable => s.u[x] \in Objects /\ x \in ToSet(s.queue[s.u[x]])
           /\ s.state[x] = "WTMTX" => /\ s.u[x] \in Mutexes /\ owner[s.u[x]] \in Threads
                                      /\ \A m \in Mutexes : x \in ToSet(s.queue[m]) <=> m = s.u[x]
           /\ s.state[x] # "WTMTX" => \A m \in Mutexes : x \notin ToSet(s.queue[m])
<1>1. ThreadPlaced(s, x) /\ s.queue \in [Objects -> Seq(Threads)]
  BY SoundIs DEF WaitsFit
<1>2. Sleeping(s, call[x], x)
  BY DEF WaitsFit
<1>3. CASE Runs(s, x)
  <2>1. s.state[x] \in {"READY", "CURRENT"} /\ s.state[x] \notin WaitStates
    BY <1>3 DEF Runs, Runnable, WaitStates
  <2>2. \A o \in Objects : x \notin ToSet(s.queue[o])
    BY <1>1, <2>1 DEF ThreadPlaced
  <2>3. QED
    BY <2>1, <2>2, KindsOfCalls DEF Runnable
<1>4. CASE s.state[x] = "WTMTX" /\ call[x] \in LockCalls /\ s.u[x] = call[x].of
  <2>1. s.u[x] \in Mutexes /\ s.u[x] \in Objects /\ s.state[x] \in WaitStates
    BY <1>4, KindsOfCalls DEF WaitStates
  <2>2. \A o \in Objects : x \in ToSet(s.queue[o]) <=> o = s.u[x]
    BY <1>1, <2>1 DEF ThreadPlaced
  <2>3. s.queue[s.u[x]] # <<>>
    BY <1>1, <2>1, <2>2, QueueSet
  <2>4. owner[s.u[x]] \in Threads
    BY <2>1, <2>3 DEF WaitsFit, WaitedIsOwned
  <2>5. QED
    BY <1>4, <2>1, <2>2, <2>4, KindsOfCalls DEF Runnable
<1>5. CASE s.state[x] = "WTCOND" /\ call[x] \in CondCalls /\ s.u[x] \in Conds
  <2>1. s.u[x] \notin Mutexes /\ s.u[x] \in Objects /\ s.state[x] \in WaitStates
    BY <1>5, KindsOfCalls DEF WaitStates
  <2>2. \A o \in Objects : x \in ToSet(s.queue[o]) <=> o = s.u[x]
    BY <1>1, <2>1 DEF ThreadPlaced
  <2>3. QED
    BY <1>5, <2>1, <2>2, KindsOfCalls DEF Runnable
<1>6. QED
  BY <1>2, <1>3, <1>4, <1>5 DEF Sleeping

LEMMA NextInChain ==
    ASSUME NEW s, WaitsFit(s), NEW m \in Mutexes, NEW x \in Threads, x # s.current
    PROVE  LET W == WaitersToo(s, m) IN
           IF s.state[x] = "WTMTX" THEN \A y \in Threads : x \in W[y] <=> y = owner[s.u[x]]
           ELSE \A y \in Threads : x \notin W[y]
<1> DEFINE W == WaitersToo(s, m)
<1>1. \A y \in Threads : x \in W[y] <=> \E o \in Mutexes : owner[o] = y /\ x \in ToSet(s.queue[o])
  BY DEF WaitersToo, Waiters
<1> HIDE DEF W
<1>2. QED
  BY <1>1, WhereItWaits DEF W

\* The loop so far, in a: every thread is as urgent as it must be, a.to if it
\* is made as urgent as the current one.
Lending(s, m, p, a) ==
    /\ a \in [s : KernelStates(Notes, {}), to : Threads \cup {None}]
    /\ Sound(a.s) /\ QueuesFall(a.s) /\ Alike(s, a.s) /\ a.s.prio[s.current] = p
    /\ AllHighest(a.s.prio, p, a.to, realprio, WaitersToo(s, m))

LEMMA AfterTurn ==
    ASSUME NEW s, WaitsFit(s), NEW m \in Mutexes, NEW p \in Nat \ {0},
           NEW a, Lending(s, m, p, a), a.to # None, a.s.prio[a.to] < p,
           NEW r, Sound(r), QueuesFall(r), Raised(a.s, r, a.to, p),
           NEW z \in Threads \cup {None},
           \A y \in Threads : a.to \in WaitersToo(s, m)[y] <=> y = z
    PROVE  Lending(s, m, p, [s |-> r, to |-> z])
<1> DEFINE W == WaitersToo(s, m)
           x == a.to
           f == a.s.prio
           g == r.prio
           n == [s |-> r, to |-> z]
<1>1. x \in Threads /\ Sound(a.s) /\ Alike(s, a.s) /\ f[s.current] = p
  BY DEF Lending
<1>2. f \in [Threads -> Nat \ {0}] /\ f \in [Threads -> Nat] /\ realprio \in [Threads -> Nat]
  BY <1>1, SoundIs DEF WaitsFit
<1>3. g \in [Threads -> Nat]
  <2>1. r.prio \in [Threads -> Nat \ {0}]
    BY SoundIs
  <2>2. QED
    BY <2>1
<1>4. g[x] = p /\ \A y \in Threads \ {x} : g[y] = f[y]
  BY <1>1, <1>2 DEF Raised
<1>5. s.current \in Threads
  BY SoundIs DEF WaitsFit
<1>6. W \in [Threads -> SUBSET Threads]
  BY <1>5 DEF WaitersToo, Waiters
<1>7. AllHighest(f, p, x, realprio, W)
  BY DEF Lending
<1>8. \A y \in Threads : x \in W[y] <=> y = z
  OBVIOUS
<1>9. f[x] < p
  OBVIOUS
<1>10. s.current # x
  BY <1>1, <1>9
<1> HIDE DEF W, f, g, x
<1>11. AllHighest(g, p, z, realprio, W)
  <2>1. p \in Nat
    OBVIOUS
  <2>2. f \in [Threads -> Nat] /\ realprio \in [Threads -> Nat] /\ x \in Threads
    BY <1>1, <1>2
  <2>3. QED
    BY <1>3, <1>4, <1>6, <1>7, <1>8, <1>9, <2>1, <2>2, NextIsDue, Zenon
<1>12. n.s = r /\ n.to = z
  OBVIOUS
<1>13. r \in KernelStates(Notes, {})
  BY SoundIs
<1>14. n \in [s : KernelStates(Notes, {}), to : Threads \cup {None}]
  BY <1>13
<1> HIDE DEF n
<1>15. Alike(s, n.s)
  BY <1>1, <1>12 DEF Alike, Raised
<1>16. n.s.prio[s.current] = p
  BY <1>1, <1>4, <1>5, <1>10, <1>12 DEF g, f
<1>17. AllHighest(n.s.prio, p, n.to, realprio, WaitersToo(s, m))
  BY <1>11, <1>12 DEF g, W
<1>18. Lending(s, m, p, n)
  BY <1>12, <1>14, <1>15, <1>16, <1>17 DEF Lending
<1>19. QED
  BY <1>18 DEF n

LEMMA LendsOn ==
    ASSUME NEW s, WaitsFit(s), NEW m \in Mutexes, NEW p \in Nat \ {0},
           NEW a, Lending(s, m, p, a)
    PROVE  /\ Lending(s, m, p, Lend(a, p))
           /\ IF a.to = None \/ a.s.prio[a.to] >= p
              THEN Lend(a, p).to = None
              ELSE a.to \in Threads /\ Lend(a, p).s.prio = [a.s.prio EXCEPT ![a.to] = p]
<1> DEFINE x == a.to
           b == Boosted(a.s, x, p)
           st == s.state[x]
<1>1. /\ a \in [s : KernelStates(Notes, {}), to : Threads \cup {None}]
      /\ Sound(a.s) /\ QueuesFall(a.s) /\ Alike(s, a.s) /\ a.s.prio[s.current] = p
      /\ AllHighest(a.s.prio, p, a.to, realprio, WaitersToo(s, m))
  BY DEF Lending
<1>2. a.s.prio \in [Threads -> Nat \ {0}] /\ None \notin Threads
  BY <1>1, SoundIs, MtxAssumption
<1>3. CASE a.to = None \/ a.s.prio[a.to] >= p
  <2> DEFINE n == [a EXCEPT !.to = None]
  <2>1. n = Lend(a, p)
    BY <1>3 DEF Lend
  <2>2. n \in [s : KernelStates(Notes, {}), to : Threads \cup {None}] /\ n.s = a.s /\ n.to = None
    BY <1>1
  <2> HIDE DEF n
  <2>3. \A y \in Threads : (IF y = n.to /\ n.s.prio[y] < p THEN p ELSE n.s.prio[y])
                              = (IF y = a.to /\ a.s.prio[y] < p THEN p ELSE a.s.prio[y])
    BY <1>2, <1>3, <2>2
  <2>4. AllHighest(n.s.prio, p, n.to, realprio, WaitersToo(s, m))
    BY <1>1, <2>2, <2>3 DEF AllHighest
  <2>5. Lending(s, m, p, n)
    BY <1>1, <2>2, <2>4 DEF Lending
  <2>6. QED
    BY <1>3, <2>1, <2>2, <2>5
<1>4. CASE ~(a.to = None \/ a.s.prio[a.to] >= p)
  <2>1. x \in Threads /\ a.s.prio[x] < p /\ x # s.current
    BY <1>1, <1>2, <1>4
  <2>2. a.s.state = s.state /\ a.s.u = s.u
    BY <1>1 DEF Alike
  <2>3. st \in {"READY", "CURRENT", "WTMTX", "WTCOND"} /\ st # "CURRENT"
    <3>1. ThreadPlaced(s, x)
      BY <2>1, SoundIs DEF WaitsFit
    <3>2. QED
      BY <2>1, <3>1, WhereItWaits DEF ThreadPlaced
  <2>4. b.state = s.state /\ b.u = s.u
    BY <1>1, <2>2 DEF Boosted, KernelStates
  <2>5. ASSUME NEW r, Sound(r), QueuesFall(r), Raised(a.s, r, x, p), NEW z \in Threads \cup {None},
               Lend(a, p) = [s |-> r, to |-> z],
               \A y \in Threads : x \in WaitersToo(s, m)[y] <=> y = z
        PROVE  /\ Lending(s, m, p, Lend(a, p))
               /\ x \in Threads /\ Lend(a, p).s.prio = [a.s.prio EXCEPT ![x] = p]
    <3>1. Lending(s, m, p, [s |-> r, to |-> z])
      BY <1>4, <2>1, <2>5, AfterTurn
    <3>2. r.prio = [a.s.prio EXCEPT ![x] = p]
      BY <2>5 DEF Raised
    <3>3. QED
      BY <2>1, <2>5, <3>1, <3>2
  <2>6. CASE st = "READY"
    <3> DEFINE r == ReadyAgain(b, x)
    <3>1. Sound(r) /\ QueuesFall(r) /\ Raised(a.s, r, x, p)
      BY <1>1, <2>1, <2>2, <2>6, ReadyRaised
    <3>2. Lend(a, p) = [s |-> r, to |-> None]
      BY <1>4, <2>4, <2>6 DEF Lend, Boosted
    <3>3. \A y \in Threads : x \in WaitersToo(s, m)[y] <=> y = None
      BY <1>2, <2>1, <2>6, NextInChain
    <3> HIDE DEF r
    <3>4. QED
      BY <1>4, <2>5, <3>1, <3>2, <3>3
  <2>7. CASE st \in {"WTMTX", "WTCOND"}
    <3> DEFINE r == Requeue(b, x)
               z == IF st = "WTMTX" THEN owner[s.u[x]] ELSE None
    <3>1. s.u[x] \in Objects /\ st \in WaitStates
      BY <2>1, <2>7, WhereItWaits DEF Runnable, WaitStates
    <3>2. Sound(r) /\ QueuesFall(r) /\ Raised(a.s, r, x, p)
      BY <1>1, <2>1, <2>2, <3>1, WaiterRaised
    <3>3. Lend(a, p) = [s |-> r, to |-> z]
      BY <1>4, <2>4, <2>7 DEF Lend, Boosted
    <3>4. z \in Threads \cup {None}
      BY <2>1, WhereItWaits
    <3>5. \A y \in Threads : x \in WaitersToo(s, m)[y] <=> y = z
      BY <1>2, <2>1, NextInChain
    <3> HIDE DEF r, z
    <3>6. QED
      BY <1>4, <2>5, <3>2, <3>3, <3>4, <3>5
  <2>8. QED
    BY <2>3, <2>6, <2>7
<1>5. QED
  BY <1>3, <1>4

\* The threads as urgent as p.
AtLeast(a, p) == {x \in Threads : a.s.prio[x] >= p}

LEMMA LendStarts ==
    ASSUME NEW s, WaitsFit(s), Lent(s, owner, realprio, lowered), NEW m \in Mutexes
    PROVE  LET p == s.prio[s.current] IN
           p \in Nat \ {0} /\ Lending(s, m, p, [s |-> s, to |-> owner[m]])
<1> DEFINE p == s.prio[s.current]
           W == WaitersToo(s, m)
           a == [s |-> s, to |-> owner[m]]
           f == s.prio
           c == s.current
<1>1. Sound(s) /\ QueuesFall(s) /\ owner[m] \in Threads \cup {None}
  BY DEF WaitsFit
<1>2. c \in Threads /\ f \in [Threads -> Nat \ {0}] /\ s \in KernelStates(Notes, {})
  BY <1>1, SoundIs
<1>3. p \in Nat \ {0} /\ p = f[c]
  BY <1>2
<1>4. realprio \in [Threads -> Nat \ {0}]
  BY DEF WaitsFit
<1> HIDE DEF p
<1>5. ASSUME NEW y \in Threads
      PROVE  Highest(IF y = owner[m] /\ f[y] < p THEN p ELSE f[y], realprio[y], f, W[y], y, lowered)
  <2> DEFINE V == Waiters(s, owner, y)
  <2>1. Highest(f[y], realprio[y], f, V, y, lowered)
    BY DEF Lent
  <2>2. W[y] = V \cup (IF owner[m] = y THEN {c} ELSE {})
    BY DEF WaitersToo
  <2>3. V \subseteq Threads /\ f[y] \in Nat /\ realprio[y] \in Nat /\ \A w \in V : f[w] \in Nat
    BY <1>2, <1>4 DEF Waiters
  <2> HIDE DEF V, W, f, c
  <2>4. CASE owner[m] # y
    BY <2>1, <2>2, <2>4
  <2>5. CASE owner[m] = y /\ f[y] < p
    <3>1. W[y] = V \cup {c}
      BY <2>2, <2>5
    <3>2. p >= realprio[y] /\ (y \in lowered \/ \A w \in V : p >= f[w])
      BY <1>3, <2>1, <2>3, <2>5 DEF Highest
    <3>3. Highest(p, realprio[y], f, W[y], y, lowered)
      BY <1>3, <3>1, <3>2 DEF Highest
    <3>4. QED
      BY <2>5, <3>3
  <2>6. CASE owner[m] = y /\ ~(f[y] < p)
    <3>1. W[y] = V \cup {c}
      BY <2>2, <2>6
    <3>2. f[y] >= p
      BY <1>3, <2>3, <2>6
    <3>3. Highest(f[y], realprio[y], f, W[y], y, lowered)
      BY <1>3, <2>1, <3>1, <3>2 DEF Highest
    <3>4. QED
      BY <2>6, <3>3
  <2>7. QED
    BY <2>4, <2>5, <2>6
<1>6. AllHighest(f, p, owner[m], realprio, W)
  BY <1>5 DEF AllHighest
<1>7. a \in [s : KernelStates(Notes, {}), to : Threads \cup {None}] /\ a.s = s /\ a.to = owner[m]
  BY <1>1, <1>2
<1> HIDE DEF a
<1>8. Lending(s, m, p, a)
  BY <1>1, <1>3, <1>6, <1>7 DEF Lending, Alike, W, f, c
<1>9. QED
  BY <1>3, <1>8 DEF p, a

LEMMA OneMoreUrgent ==
    ASSUME NEW f \in [Threads -> Nat], NEW x \in Threads, NEW p \in Nat, f[x] < p
    PROVE  Cardinality({y \in Threads : [f EXCEPT ![x] = p][y] >= p})
               = Cardinality({y \in Threads : f[y] >= p}) + 1
           /\ Cardinality({y \in Threads : f[y] >= p}) \in Nat
           /\ Cardinality({y \in Threads : f[y] >= p}) < Cardinality(Threads)
<1> DEFINE A == {y \in Threads : f[y] >= p}
           B == {y \in Threads : [f EXCEPT ![x] = p][y] >= p}
<1>1. B = A \cup {x} /\ x \notin A /\ A \subseteq Threads
  OBVIOUS
<1>2. IsFiniteSet(Threads)
  BY MtxAssumption
<1> HIDE DEF A, B
<1>3. IsFiniteSet(A) /\ Cardinality(A) <= Cardinality(Threads)
      /\ (Cardinality(Threads) = Cardinality(A) => Threads = A)
  BY <1>1, <1>2, FS_Subset
<1>4. Cardinality(A) \in Nat /\ Cardinality(Threads) \in Nat
  BY <1>2, <1>3, FS_CardinalityType
<1>5. Cardinality(A \cup {x}) = Cardinality(A) + 1
  BY <1>1, <1>3, FS_AddElement
<1>6. QED
  BY <1>1, <1>3, <1>4, <1>5 DEF A, B

LEMMA Inherits ==
    ASSUME NEW s, WaitsFit(s), Lent(s, owner, realprio, lowered), NEW m \in Mutexes
    PROVE  LET r == Inherit(s, s.current, m) IN
           /\ Sound(r) /\ QueuesFall(r) /\ Alike(s, r)
           /\ \A y \in Threads : Highest(r.prio[y], realprio[y], r.prio, WaitersToo(s, m)[y], y, lowered)
<1> DEFINE p == s.prio[s.current]
           n == Cardinality(Threads)
           base == [s |-> s, to |-> owner[m]]
           R == {a \in [s : KernelStates(Notes, {}), to : Threads \cup {None}] : Lending(s, m, p, a)}
           Rs == [i \in 0..n |-> {a \in R : a.to = None \/ Cardinality(AtLeast(a, p)) >= i + 1}]
           e == LendTimes(base, p, n)
<1>1. p \in Nat \ {0} /\ Lending(s, m, p, base)
  BY LendStarts
<1>2. IsFiniteSet(Threads) /\ n \in Nat
  BY MtxAssumption, FS_CardinalityType
<1>3. s.current \in Threads /\ s.prio \in [Threads -> Nat \ {0}]
  BY SoundIs DEF WaitsFit
<1>4. e.s = Inherit(s, s.current, m)
  BY DEF Inherit, LendTimes
<1>5. base \in R /\ base.s = s
  BY <1>1 DEF Lending
<1> HIDE DEF e, base, p, n
<1>6. base \in Rs[0]
  <2>1. s.current \in AtLeast(base, p) /\ AtLeast(base, p) \subseteq Threads
    BY <1>3, <1>5 DEF AtLeast, p
  <2>2. IsFiniteSet(AtLeast(base, p))
    BY <1>2, <2>1, FS_Subset
  <2>3. Cardinality(AtLeast(base, p)) # 0 /\ Cardinality(AtLeast(base, p)) \in Nat
    BY <2>1, <2>2, FS_EmptySet, FS_CardinalityType
  <2>4. Cardinality(AtLeast(base, p)) >= 0 + 1
    BY <2>3
  <2>5. QED
    BY <1>2, <1>5, <2>4
<1>7. ASSUME NEW a \in R PROVE Lend(a, p) \in R
  <2>1. Lending(s, m, p, Lend(a, p))
    BY <1>1, <1>7, LendsOn
  <2>2. QED
    BY <2>1 DEF Lending
<1>8. ASSUME NEW i \in 1..n, NEW a \in R, a \in Rs[i - 1] PROVE Lend(a, p) \in Rs[i]
  <2>1. Lend(a, p) \in R
    BY <1>7
  <2>2. IF a.to = None \/ a.s.prio[a.to] >= p
        THEN Lend(a, p).to = None
        ELSE a.to \in Threads /\ Lend(a, p).s.prio = [a.s.prio EXCEPT ![a.to] = p]
    BY <1>1, <1>8, LendsOn
  <2>3. a.to = None \/ Cardinality(AtLeast(a, p)) >= i
    BY <1>2, <1>8
  <2>4. CASE a.to = None \/ a.s.prio[a.to] >= p
    BY <1>2, <2>1, <2>2, <2>4
  <2>5. CASE ~(a.to = None \/ a.s.prio[a.to] >= p)
    <3> DEFINE f == a.s.prio
               x == a.to
    <3>1. Sound(a.s)
      BY <1>8 DEF Lending
    <3>2. f \in [Threads -> Nat] /\ x \in Threads
      <4>1. a.s.prio \in [Threads -> Nat \ {0}]
        BY <3>1, SoundIs
      <4>2. QED
        BY <2>2, <2>5, <4>1
    <3>3. f[x] < p /\ p \in Nat
      BY <1>1, <2>5, <3>2
    <3>4. Lend(a, p).s.prio = [f EXCEPT ![x] = p]
      BY <2>2, <2>5
    <3> HIDE DEF f, x
    <3>5. Cardinality({y \in Threads : [f EXCEPT ![x] = p][y] >= p})
               = Cardinality({y \in Threads : f[y] >= p}) + 1
          /\ Cardinality({y \in Threads : f[y] >= p}) \in Nat
      BY <3>2, <3>3, OneMoreUrgent
    <3>6. /\ AtLeast(Lend(a, p), p) = {y \in Threads : [f EXCEPT ![x] = p][y] >= p}
          /\ AtLeast(a, p) = {y \in Threads : f[y] >= p}
      BY <3>4 DEF AtLeast, f
    <3>7. Cardinality(AtLeast(Lend(a, p), p)) >= i + 1
      BY <1>2, <2>3, <2>5, <3>5, <3>6
    <3>8. QED
      BY <1>2, <2>1, <3>7
  <2>6. QED
    BY <2>4, <2>5
<1>9. e \in R /\ e \in Rs[n]
  <2> HIDE DEF R, Rs
  <2>1. \A a \in R : Lend(a, p) \in R
    BY <1>7
  <2>2. \A i \in 1..n : \A a \in R : a \in Rs[i - 1] => Lend(a, p) \in Rs[i]
    BY <1>8
  <2>3. QED
    BY <1>2, <1>5, <1>6, <2>1, <2>2, LendEach DEF e
<1>10. Lending(s, m, p, e) /\ (e.to = None \/ Cardinality(AtLeast(e, p)) >= n + 1)
  BY <1>2, <1>9
<1>11. e.to = None
  <2>1. AtLeast(e, p) \subseteq Threads
    BY DEF AtLeast
  <2>2. Cardinality(AtLeast(e, p)) <= n /\ Cardinality(AtLeast(e, p)) \in Nat
    BY <1>2, <2>1, FS_Subset, FS_CardinalityType DEF n
  <2>3. QED
    BY <1>2, <1>10, <2>2
<1>12. ASSUME NEW y \in Threads
       PROVE  Highest(e.s.prio[y], realprio[y], e.s.prio, WaitersToo(s, m)[y], y, lowered)
  <2>1. Highest(IF y = e.to /\ e.s.prio[y] < p THEN p ELSE e.s.prio[y],
                realprio[y], e.s.prio, WaitersToo(s, m)[y], y, lowered)
    BY <1>10 DEF Lending, AllHighest
  <2>2. y # e.to
    BY <1>11, MtxAssumption
  <2>3. QED
    BY <2>1, <2>2
<1>13. Sound(e.s) /\ QueuesFall(e.s) /\ Alike(s, e.s)
  BY <1>10 DEF Lending
<1>14. QED
  BY <1>4, <1>12, <1>13

-----------------------------------------------------------------------------
(* The timer interrupt.                                                     *)

\* The callback of a timer whose thread waits on a condition variable, or can
\* run already.
LEMMA WakeupFalls ==
    ASSUME NEW s \in KernelStates(Notes, {}), Placed(s), QueuesFall(s), NEW t \in Threads,
           s.state[t] = "READY" \/ (s.state[t] = "WTCOND" /\ s.u[t] \in Objects)
    PROVE  QueuesFall(Wakeup(s, t))
<1>1. CASE s.state[t] = "READY"
  BY <1>1 DEF Wakeup
<1>2. CASE s.state[t] = "WTCOND" /\ s.u[t] \in Objects
  <2> DEFINE o == s.u[t]
             q == Dequeue(s.queue[o], t)
             m == [s EXCEPT !.queue[o] = Dequeue(@, t)]
             w == ReadyWith(m, t, "TIMEOUT")
  <2>1. w = Wakeup(s, t)
    BY <1>2 DEF Wakeup
  <2>2. s.queue \in [Objects -> Seq(Threads)] /\ s.prio \in [Threads -> Nat]
    <3>1. s.queue \in [Objects -> Seq(Threads)] /\ s.prio \in [Threads -> Nat \ {0}]
      BY DEF KernelStates
    <3>2. QED
      BY <3>1
  <2>3. w.queue = [s.queue EXCEPT ![o] = q] /\ w.prio = s.prio
    BY DEF ReadyWith, ReadyI, KernelStates
  <2>4. t \in ToSet(s.queue[o]) /\ Queue(s.queue[o], Threads)
    BY <1>2 DEF Placed, ThreadPlaced, QueuesSound, WaitStates
  <2>5. Falling(s.queue[o], s.prio)
    BY <1>2 DEF QueuesFall
  <2>6. Falling(q, s.prio)
    BY <2>2, <2>4, <2>5, DequeuedFalls
  <2> HIDE DEF q, w, m
  <2>7. \A y \in Objects : w.queue[y] = IF y = o THEN q ELSE s.queue[y]
    BY <2>2, <2>3
  <2>8. QueuesFall(w)
    BY <2>3, <2>6, <2>7 DEF QueuesFall
  <2>9. QED
    BY <2>1, <2>8
<1>3. QED
  BY <1>1, <1>2

\* Whoever has a timer can run or waits on a condition variable.
TimersFit(s) ==
    \A t \in Threads : Armed(s, t) => t # s.current /\
        (Runs(s, t) \/ (s.state[t] = "WTCOND" /\ s.u[t] \in Objects))

LEMMA FiresWhen ==
    ASSUME NEW s, TimersFit(s), NEW t \in Threads, Armed(s, t)
    PROVE  t # s.current /\ (Runs(s, t) \/ FiresIn({}, s, t))
  BY DEF TimersFit, FiresIn

LEMMA TickFalls ==
    ASSUME NEW s, Sound(s), QueuesFall(s), TimersFit(s)
    PROVE  QueuesFall(SysTimerHandlerI(s))
<1> DEFINE R == {x \in KernelStates(Notes, {}) : Placed(x) /\ TimedOut({}, s, x) /\ QueuesFall(x)}
<1>1. /\ s \in KernelStates(Notes, {}) /\ Placed(s) /\ Queue(Pars(s.vt), Threads)
      /\ "TIMEOUT" \in Notes
  BY SoundIs DEF Notes
<1>2. ASSUME NEW x \in KernelStates(Notes, {}), Unmoved(s, x)
      PROVE  x \in R
  <2>1. Placed(x)
    BY <1>1, <1>2, UnmovedPlaces
  <2>2. TimedOut({}, s, x)
    BY <1>2 DEF TimedOut, Unmoved, Runs
  <2>3. QueuesFall(x)
    BY <1>2 DEF Unmoved, QueuesFall
  <2>4. QED
    BY <2>1, <2>2, <2>3
<1>3. ASSUME NEW x \in R, NEW t \in Threads, Armed(s, t) PROVE Wakeup(x, t) \in R
  <2>1. x \in KernelStates(Notes, {}) /\ Placed(x) /\ TimedOut({}, s, x) /\ QueuesFall(x)
    OBVIOUS
  <2>2. t # s.current /\ (Runs(s, t) \/ FiresIn({}, s, t))
    BY <1>3, FiresWhen
  <2> HIDE DEF R
  <2>3. CASE Runs(x, t)
    <3>1. x.current = s.current /\ ThreadPlaced(x, t)
      BY <2>1 DEF TimedOut, Placed
    <3>2. x.state[t] = "READY"
      BY <2>2, <2>3, <3>1 DEF Runs, Runnable, ThreadPlaced
    <3>3. Wakeup(x, t) = x
      BY <3>2 DEF Wakeup
    <3>4. QED
      BY <3>3
  <2>4. CASE ~Runs(x, t)
    <3>1. ~Runs(s, t) /\ x.state[t] = s.state[t] /\ x.u[t] = s.u[t]
      BY <2>1, <2>4 DEF TimedOut
    <3>2. x.state[t] = "WTCOND" /\ x.u[t] \in Objects
      BY <1>3, <3>1 DEF TimersFit
    <3>3. QueuesFall(Wakeup(x, t))
      BY <2>1, <3>2, WakeupFalls
    <3>4. FiresIn({}, s, t)
      BY <2>2, <3>1
    <3>5. /\ Wakeup(x, t) \in KernelStates(Notes, {}) /\ Placed(Wakeup(x, t))
          /\ TimedOut({}, s, Wakeup(x, t))
      BY <1>1, <1>3, <2>1, <3>1, <3>4, WakeupTimesOut
    <3>6. QED
      BY <3>3, <3>5 DEF R
  <2>5. QED
    BY <2>3, <2>4
<1>4. SysTimerHandlerI(s) \in R
  <2> HIDE DEF R
  <2>1. \A x \in KernelStates(Notes, {}) :
              /\ Unmoved(s, x) /\ Queue(Pars(x.vt), Threads)
              /\ \A t \in Threads : Armed(x, t) => Armed(s, t)
              /\ OnTime(s) => OnTime(x)
              => x \in R
    BY <1>2
  <2>2. \A x \in R, t \in Threads : Armed(s, t) => Wakeup(x, t) \in R
    BY <1>3
  <2>3. QED
    BY <1>1, <2>1, <2>2, TimersFire
<1>5. QED
  BY <1>4

-----------------------------------------------------------------------------
(* Steps that let threads go and leave the mutexes alone.                   *)

\* Threads may become able to run, the others are where they were.
Loosed(s, r) ==
    \A t \in Threads : /\ Runs(s, t) => Runs(r, t)
                       /\ ~Runs(r, t) => r.state[t] = s.state[t] /\ r.u[t] = s.u[t]
                       /\ Armed(r, t) => Armed(s, t)

LEMMA Looses ==
    ASSUME NEW s, NEW r
    PROVE  /\ Released(s, r) => Loosed(s, r)
           /\ \A x : Loosed(s, x) /\ Loosed(x, r) => Loosed(s, r)
           /\ SameThreads(s, r) => Loosed(s, r)
           /\ \A W, msg : LetGone(s, r, W, msg) => Loosed(s, r)
<1>1. Released(s, r) => Loosed(s, r)
  BY DEF Released, Loosed
<1>2. SameThreads(s, r) => Loosed(s, r)
  BY <1>1, Releases
<1>3. \A x : Loosed(s, x) /\ Loosed(x, r) => Loosed(s, r)
  BY DEF Loosed
<1>4. ASSUME NEW W, NEW msg, LetGone(s, r, W, msg) PROVE Loosed(s, r)
  <2>1. ASSUME NEW t \in Threads, ~Runs(r, t) PROVE r.u[t] = s.u[t]
    BY <1>4, <2>1 DEF LetGone
  <2>2. QED
    BY <1>4, <2>1 DEF LetGone, Loosed, Armed
<1>5. QED
  BY <1>1, <1>2, <1>3, <1>4

LEMMA CallsStay ==
    ASSUME NEW s, NEW calls, CallsFit(s, calls), NEW r, Loosed(s, r), Idle \in Threads
    PROVE  CallsFit(r, calls)
<1>1. ASSUME NEW t \in Threads PROVE Sleeping(r, calls[t], t) /\ (Armed(r, t) => calls[t] \in CondCalls)
  BY DEF CallsFit, Loosed, Sleeping
<1>2. QED
  BY <1>1 DEF CallsFit, Loosed

\* Nobody has left the queue of a mutex but who was in the call to lock one
\* and can run now.
LEMMA MutexQueuesStay ==
    ASSUME NEW s, Sound(s), CallsFit(s, call), NEW r, Sound(r), Loosed(s, r),
           NEW t \in Threads, call[t] \in LockCalls => (Runs(r, t) <=> Runs(s, t))
    PROVE  \A m \in Mutexes : t \in ToSet(r.queue[m]) <=> t \in ToSet(s.queue[m])
<1> SUFFICES ASSUME NEW m \in Mutexes
             PROVE  t \in ToSet(r.queue[m]) <=> t \in ToSet(s.queue[m])
  OBVIOUS
<1>1. m \in Objects /\ m \notin Conds
  BY KindsOfCalls
<1>2. /\ t \in ToSet(r.queue[m]) <=> r.state[t] \in WaitStates /\ r.u[t] = m
      /\ t \in ToSet(s.queue[m]) <=> s.state[t] \in WaitStates /\ s.u[t] = m
  BY <1>1, SoundIs DEF ThreadPlaced
<1>3. \A x : x \in WaitStates => x \notin Runnable
  BY DEF WaitStates, Runnable
<1>4. ASSUME t \in ToSet(r.queue[m]) PROVE t \in ToSet(s.queue[m])
  BY <1>2, <1>3, <1>4 DEF Loosed, Runs
<1>5. ASSUME t \in ToSet(s.queue[m]) PROVE t \in ToSet(r.queue[m])
  <2>1. ~Runs(s, t)
    BY <1>2, <1>3, <1>5 DEF Runs
  <2>2. call[t] \in LockCalls
    BY <1>1, <1>2, <1>5, <2>1 DEF CallsFit, Sleeping
  <2>3. QED
    BY <1>2, <1>5, <2>1, <2>2 DEF Loosed
<1>6. QED
  BY <1>4, <1>5

LEMMA QuietKeeps ==
    ASSUME MtxInv, UNCHANGED <<call, owner, mtxlist, realprio, holds, lowered>>,
           Sound(k'), TopRuns(k'), QueuesFall(k'), Loosed(k, k'), k'.prio = k.prio,
           \A t \in Threads : call[t] \in LockCalls => (Runs(k', t) <=> Runs(k, t))
    PROVE  MtxInv'
<1>1. Sound(k) /\ CallsFit(k, call)
  BY DEF MtxInv
<1>2. \A m \in Mutexes : \A t \in Threads : t \in ToSet(k'.queue[m]) <=> t \in ToSet(k.queue[m])
  BY <1>1, MutexQueuesStay
<1>3. \A m \in Mutexes : /\ ToSet(k'.queue[m]) = ToSet(k.queue[m])
                         /\ k'.queue[m] = <<>> <=> k.queue[m] = <<>>
  <2> SUFFICES ASSUME NEW m \in Mutexes
               PROVE  /\ ToSet(k'.queue[m]) = ToSet(k.queue[m])
                      /\ k'.queue[m] = <<>> <=> k.queue[m] = <<>>
    OBVIOUS
  <2>1. k.queue[m] \in Seq(Threads) /\ k'.queue[m] \in Seq(Threads)
    BY <1>1, SoundIs, KindsOfCalls
  <2>2. ToSet(k'.queue[m]) \subseteq Threads /\ ToSet(k.queue[m]) \subseteq Threads
    BY <2>1, QueueSet
  <2>3. ToSet(k'.queue[m]) = ToSet(k.queue[m])
    BY <1>2, <2>2
  <2>4. QED
    BY <2>1, <2>3, QueueSet
<1>4. CallsFit(k', call)
  BY <1>1, CallsStay, SchdAssumption
<1>5. WaitedIsOwned(k', owner)
  BY <1>3 DEF MtxInv, WaitedIsOwned
<1>6. HoldsFit(k', call, mtxlist, holds)
  <2>1. ASSUME NEW t \in Threads PROVE HeldFits(k', call[t], mtxlist[t], holds[t], t)
    BY DEF MtxInv, HoldsFit, HeldFits
  <2>2. QED
    BY <2>1 DEF HoldsFit
<1>7. Lent(k', owner, realprio, lowered)
  <2>1. \A x \in Threads : Waiters(k', owner, x) = Waiters(k, owner, x)
    BY <1>3 DEF Waiters
  <2>2. QED
    BY <2>1 DEF MtxInv, Lent
<1>8. QED
  BY <1>4, <1>5, <1>6, <1>7 DEF MtxInv

\* What the invariant says of the threads that may act and of the queues.
LEMMA InvFacts ==
    ASSUME MtxInv
    PROVE  /\ Sound(k) /\ TopRuns(k) /\ QueuesFall(k) /\ WaitsFit(k) /\ (InUser => TimersFit(k))
           /\ CallsFit(k, call) /\ call \in [Threads -> MtxCalls]
           /\ k.current \in Threads /\ Runs(k, k.current)
           /\ InUser => ~Armed(k, k.current)
           /\ call[k.current] # User => k.ready # <<>> /\ k.current # Idle
           /\ k.current # Idle => k.ready # <<>>
<1>1. Sound(k) /\ TopRuns(k) /\ QueuesFall(k) /\ CallsFit(k, call) /\ call \in [Threads -> MtxCalls]
  BY DEF MtxInv, CallsFit
<1>2. WaitsFit(k)
  BY <1>1 DEF MtxInv, WaitsFit, CallsFit, OwnersFit
<1>3. k.current \in Threads /\ Runs(k, k.current) /\ k.ready \in Seq(Threads)
  BY <1>1, SoundIs
<1>4. InUser => ~Armed(k, k.current)
  BY <1>1, <1>3, KindsOfCalls DEF InUser, CallsFit
<1>5. k.current # Idle => k.ready # <<>>
  <2>1. ASSUME k.current # Idle PROVE Idle \in ToSet(k.ready)
    <3>1. ThreadPlaced(k, Idle) /\ Runs(k, Idle)
      BY <1>1, SoundIs, SchdAssumption DEF CallsFit
    <3>2. QED
      BY <2>1, <3>1 DEF ThreadPlaced, Runs, Runnable
  <2>2. QED
    BY <1>3, <2>1, QueueSet
<1>6. call[k.current] # User => k.current # Idle
  BY <1>1 DEF CallsFit
<1>7. ASSUME InUser, NEW t \in Threads, Armed(k, t)
      PROVE  t # k.current /\ (Runs(k, t) \/ (k.state[t] = "WTCOND" /\ k.u[t] \in Objects))
  <2>1. call[t] \in CondCalls /\ Sleeping(k, call[t], t)
    BY <1>1, <1>7 DEF CallsFit
  <2>2. t # k.current
    BY <2>1, <1>7, KindsOfCalls DEF InUser
  <2>3. QED
    BY <2>1, <2>2, KindsOfCalls DEF Sleeping
<1>8. InUser => TimersFit(k)
  BY <1>7 DEF TimersFit
<1>9. QED
  BY <1>1, <1>2, <1>3, <1>4, <1>5, <1>6, <1>8

LEMMA TickKeeps == MtxInv /\ TickStep => MtxInv'
<1> SUFFICES ASSUME MtxInv, TickStep PROVE MtxInv'
  OBVIOUS
<1> DEFINE h == SysTimerHandlerI(k)
           r == Epilogue(h)
<1>1. k' = r /\ UNCHANGED <<call, owner, mtxlist, realprio, holds, lowered>> /\ InUser
  BY DEF TickStep, Tick, OwnersUnchanged
<1>2. /\ Sound(k) /\ QueuesFall(k) /\ TimersFit(k) /\ CallsFit(k, call)
      /\ k \in KernelStates(Notes, {}) /\ Placed(k) /\ Queue(Pars(k.vt), Threads)
      /\ Sorted(k) /\ OnTime(k) /\ "TIMEOUT" \in Notes
  BY <1>1, InvFacts, SoundIs DEF Notes
<1>3. \A t \in Threads : Armed(k, t) => t # k.current /\ (Runs(k, t) \/ FiresIn({}, k, t))
  BY <1>2, FiresWhen
<1>4. /\ r \in KernelStates(Notes, {}) /\ Placed(r) /\ Queue(Pars(r.vt), Threads)
      /\ TimesOut({}, k, r) /\ Ordered(r) /\ OnTime(r)
  BY <1>2, <1>3, TickTimesOut
<1>5. QueuesFall(r)
  <2>1. QueuesFall(h)
    BY <1>2, TickFalls
  <2>2. r.queue = h.queue /\ r.prio = h.prio
    <3> HIDE DEF h
    <3>1. Epilogue(h).queue = h.queue /\ Epilogue(h).prio = h.prio
      BY DEF Epilogue, DoReschedule, DoRescheduleBehind, DoRescheduleAhead, TakeFirst, ReadyI
    <3>2. QED
      BY <3>1
  <2> HIDE DEF r, h
  <2>3. QED
    BY <2>1, <2>2 DEF QueuesFall
<1> HIDE DEF r
<1>6. Sound(r) /\ TopRuns(r)
  BY <1>4 DEF Sound, Settled, Ordered
<1>7. Loosed(k, r) /\ r.prio = k.prio
  BY <1>4 DEF TimesOut, Loosed
<1>8. ASSUME NEW t \in Threads, call[t] \in LockCalls PROVE Runs(r, t) <=> Runs(k, t)
  <2>1. ~Armed(k, t)
    BY <1>2, <1>8, KindsOfCalls DEF CallsFit
  <2>2. QED
    BY <1>4, <2>1 DEF TimesOut
<1>9. QED
  BY <1>1, <1>5, <1>6, <1>7, <1>8, QuietKeeps

\* The first thread of a queue leaves it and can run.
LEMMA FirstLetGo ==
    ASSUME NEW s, Sound(s), QueuesFall(s), NEW o \in Objects, s.queue[o] # <<>>,
           NoneAbove(s, Head(s.queue[o]))
    PROVE  LET w == Head(s.queue[o])
               a == ReadyWith(Popped(s, o), w, "OK")
               b == WakeupS(Popped(s, o), w, "OK") IN
           /\ w \in Threads /\ ~Runs(s, w) /\ s.state[w] \in WaitStates /\ s.u[w] = o
           /\ Sound(a) /\ QueuesFall(a) /\ LetGone(s, a, {w}, "OK")
           /\ Sound(b) /\ TopRuns(b) /\ QueuesFall(b) /\ LetGone(s, b, {w}, "OK")
           /\ a.queue = [s.queue EXCEPT ![o] = Tail(@)] /\ b.queue = a.queue
<1> DEFINE w == Head(s.queue[o])
           q == Tail(s.queue[o])
           p == Popped(s, o)
           a == ReadyWith(p, w, "OK")
           b == WakeupS(p, w, "OK")
<1>1. /\ s \in KernelStates(Notes, {}) /\ s.cnt \in [{} -> Int] /\ Queue(s.queue[o], Threads)
      /\ s.prio \in [Threads -> Nat \ {0}] /\ s.queue \in [Objects -> Seq(Threads)]
      /\ "OK" \in Notes /\ Settled(Notes, {}, s)
  BY SoundIs DEF Notes, QueuesSound, Sound
<1>2. s.prio \in [Threads -> Nat]
  BY <1>1
<1>3. Queue(q, Threads) /\ w \in ToSet(s.queue[o]) /\ ToSet(q) = ToSet(s.queue[o]) \ {w}
  BY <1>1, TailQueue
<1>4. Falling(q, s.prio)
  BY <1>1, <1>2, HeadIsHighest DEF QueuesFall
<1>5. p = Requeued(s, s.cnt, o, q)
  BY <1>1 DEF Popped, Requeued, KernelStates
<1> HIDE DEF w, q, p
<1>6. /\ w \in Threads /\ ~Runs(s, w) /\ s.state[w] \in WaitStates /\ s.u[w] = o
      /\ Settled(Notes, {}, a) /\ Left(s, a, s.cnt, o, q, w, "OK")
      /\ Settled(Notes, {}, b) /\ TopRuns(b) /\ Left(s, b, s.cnt, o, q, w, "OK")
  <2> DEFINE c == s.cnt
             x == ReadyWith(Requeued(s, c, o, q), w, "OK")
             y == WakeupS(Requeued(s, c, o, q), w, "OK")
  <2>1. a = x /\ b = y
    BY <1>5
  <2>2. Settled(Notes, {}, s) /\ "OK" \in Notes /\ c \in [{} -> Int]
    BY <1>1
  <2> HIDE DEF c, a, b
  <2>3. LeftBy(Notes, {}, s, c, o, q, w, "OK")
    BY <1>3, <2>2, LeavesWhere
  <2>4. NoneAbove(s, w)
    BY DEF w
  <2>5. /\ w \in Threads /\ ~Runs(s, w) /\ s.state[w] \in WaitStates /\ s.u[w] = o
        /\ Settled(Notes, {}, x) /\ Left(s, x, c, o, q, w, "OK")
        /\ Settled(Notes, {}, y) /\ TopRuns(y) /\ Left(s, y, c, o, q, w, "OK")
    BY <2>3, <2>4 DEF LeftBy
  <2> HIDE DEF x, y
  <2>6. QED
    BY <2>1, <2>5 DEF c
<1> HIDE DEF a, b
<1>7. ASSUME NEW r, Left(s, r, s.cnt, o, q, w, "OK")
      PROVE  QueuesFall(r) /\ LetGone(s, r, {w}, "OK") /\ r.queue = [s.queue EXCEPT ![o] = q]
  <2>1. r.queue = [s.queue EXCEPT ![o] = q] /\ LetGone(s, r, {w}, "OK")
    BY <1>7 DEF Left
  <2>2. r.prio = s.prio /\ \A y \in Objects : r.queue[y] = IF y = o THEN q ELSE s.queue[y]
    BY <1>1, <2>1 DEF LetGone
  <2>3. QED
    BY <1>4, <2>1, <2>2 DEF QueuesFall
<1>8. QED
  BY <1>6, <1>7 DEF Sound, w, q, p, a, b

\* Who waits on a condition variable is in a call to wait on one.
LEMMA WaitsOnCond ==
    ASSUME MtxInv, NEW c \in Conds, NEW t \in Threads, k.state[t] \in WaitStates, k.u[t] = c
    PROVE  call[t] \notin LockCalls
<1>1. Sleeping(k, call[t], t) /\ ~Runs(k, t)
  BY DEF MtxInv, CallsFit, Runs, Runnable, WaitStates
<1>2. QED
  BY <1>1, KindsOfCalls DEF Sleeping

LEMMA SignalKeeps ==
    ASSUME MtxInv, NEW c \in Conds,
           (\E t \in Threads : CondSignal(t, c)) \/ CondSignalI(c)
    PROVE  MtxInv'
<1> DEFINE w == Head(k.queue[c])
           a == ReadyWith(Popped(k, c), w, "OK")
           b == WakeupS(Popped(k, c), w, "OK")
<1>1. UNCHANGED <<call, owner, mtxlist, realprio, holds, lowered>>
  BY DEF CondSignal, CondSignalI, OwnersUnchanged, Returns
<1>2. Sound(k) /\ TopRuns(k) /\ QueuesFall(k) /\ c \in Objects
  BY InvFacts, KindsOfCalls
<1>3. ASSUME NEW r, Sound(r), QueuesFall(r), Loosed(k, r), r.prio = k.prio,
             \A t \in Threads : call[t] \in LockCalls => (Runs(r, t) <=> Runs(k, t)),
             (k' = r /\ TopRuns(r)) \/ k' = Epilogue(r)
      PROVE  MtxInv'
  <2>1. CASE k' = r /\ TopRuns(r)
    BY <1>1, <1>3, <2>1, QuietKeeps
  <2>2. CASE k' = Epilogue(r)
    <3>1. Sound(k') /\ TopRuns(k') /\ SameThreads(r, k')
      BY <1>3, <2>2, Resumes DEF Sound
    <3>2. QueuesFall(k') /\ k'.prio = k.prio
      BY <1>3, <3>1 DEF SameThreads, Kept, QueuesFall
    <3>3. Loosed(k, k')
      BY <1>3, <3>1, Looses
    <3>4. \A t \in Threads : call[t] \in LockCalls => (Runs(k', t) <=> Runs(k, t))
      BY <1>3, <3>1 DEF SameThreads
    <3>5. QED
      BY <1>1, <3>1, <3>2, <3>3, <3>4, QuietKeeps
  <2>3. QED
    BY <1>3, <2>1, <2>2
<1>4. CASE k.queue[c] = <<>>
  <2>1. k' = k \/ k' = Epilogue(k)
    BY <1>4 DEF CondSignal, CondSignalI, Returns
  <2>2. QED
    BY <1>2, <1>3, <2>1 DEF Loosed
<1>5. CASE k.queue[c] # <<>>
  <2>1. /\ w \in Threads /\ ~Runs(k, w) /\ k.state[w] \in WaitStates /\ k.u[w] = c
        /\ Sound(a) /\ QueuesFall(a) /\ LetGone(k, a, {w}, "OK")
        /\ Sound(b) /\ TopRuns(b) /\ QueuesFall(b) /\ LetGone(k, b, {w}, "OK")
    <3>1. NoneAbove(k, w)
      BY <1>2 DEF TopRuns, NoneAbove
    <3>2. QED
      BY <1>2, <1>5, <3>1, FirstLetGo
  <2>2. k' = Epilogue(a) \/ k' = b
    BY <1>5 DEF CondSignal, CondSignalI, Returns
  <2> HIDE DEF w, a, b
  <2>3. call[w] \notin LockCalls
    BY <2>1, WaitsOnCond
  <2>4. ASSUME NEW r, LetGone(k, r, {w}, "OK")
        PROVE  /\ Loosed(k, r) /\ r.prio = k.prio
               /\ \A t \in Threads : call[t] \in LockCalls => (Runs(r, t) <=> Runs(k, t))
    <3>1. Loosed(k, r)
      BY <2>4, Looses
    <3>2. r.prio = k.prio /\ \A t \in Threads : Runs(r, t) <=> (Runs(k, t) \/ t \in {w})
      BY <2>4 DEF LetGone
    <3>3. QED
      BY <2>3, <3>1, <3>2
  <2>5. QED
    BY <1>3, <2>1, <2>2, <2>4
<1>6. QED
  BY <1>4, <1>5

LEMMA BroadcastKeeps ==
    ASSUME MtxInv, NEW c \in Conds, CondBroadcast(c) \/ CondBroadcastIsr(c)
    PROVE  MtxInv'
<1> DEFINE q == k.queue[c]
           b == [k EXCEPT !.queue[c] = <<>>]
           r == CondBroadcastI(k, c)
<1>1. UNCHANGED <<call, owner, mtxlist, realprio, holds, lowered>> /\ (k' = RescheduleS(r) \/ k' = Epilogue(r))
  BY DEF CondBroadcast, CondBroadcastIsr, OwnersUnchanged, Returns
<1>2. Sound(k) /\ TopRuns(k) /\ QueuesFall(k) /\ c \in Objects
  BY InvFacts, KindsOfCalls
<1>3. /\ k \in KernelStates(Notes, {}) /\ k.cnt \in [{} -> Int] /\ Queue(q, Threads)
      /\ "RESET" \in Notes /\ Settled(Notes, {}, k) /\ k.queue \in [Objects -> Seq(Threads)]
  BY <1>2, SoundIs DEF Notes, QueuesSound, Sound
<1>4. b = Requeued(k, k.cnt, c, <<>>)
  BY <1>3 DEF Requeued, KernelStates
<1>5. r = ReadyAll(b, q)
  BY DEF CondBroadcastI, ReadyAll
<1> DEFINE y == ReadyAll(Requeued(k, k.cnt, c, <<>>), q)
<1>6. r = y
  BY <1>4, <1>5
<1> HIDE DEF r, b
<1>7. /\ Settled(Notes, {}, y) /\ LetGone(k, y, ToSet(q), "RESET")
      /\ y.queue = [k.queue EXCEPT ![c] = <<>>]
      /\ \A t \in ToSet(q) : ~Runs(k, t) /\ k.state[t] \in WaitStates /\ k.u[t] = c
  BY <1>2, <1>3, AllLetGo
<1> HIDE DEF y
<1>8. Sound(r) /\ LetGone(k, r, ToSet(q), "RESET") /\ r.prio = k.prio /\ Loosed(k, r)
  <2>1. Loosed(k, y)
    BY <1>7, Looses
  <2>2. y.prio = k.prio
    BY <1>7 DEF LetGone
  <2>3. QED
    BY <1>6, <1>7, <2>1, <2>2 DEF Sound
<1>9. QueuesFall(r)
  <2>1. \A o \in Objects : r.queue[o] = IF o = c THEN <<>> ELSE k.queue[o]
    BY <1>3, <1>6, <1>7
  <2>2. Falling(<<>>, k.prio)
    BY DEF Falling
  <2>3. QED
    BY <1>2, <1>8, <2>1, <2>2 DEF QueuesFall
<1>10. \A t \in Threads : call[t] \in LockCalls => (Runs(r, t) <=> Runs(k, t))
  <2>1. \A t \in Threads : Runs(r, t) <=> (Runs(k, t) \/ t \in ToSet(q))
    BY <1>8 DEF LetGone
  <2>2. \A t \in Threads : t \in ToSet(q) => call[t] \notin LockCalls
    BY <1>7, WaitsOnCond
  <2>3. QED
    BY <2>1, <2>2
<1>11. Sound(k') /\ TopRuns(k') /\ SameThreads(r, k')
  BY <1>1, <1>8, Resumes DEF Sound
<1>12. QueuesFall(k') /\ k'.prio = k.prio
  BY <1>8, <1>9, <1>11 DEF SameThreads, Kept, QueuesFall
<1>13. Loosed(k, k')
  BY <1>8, <1>11, Looses
<1>14. \A t \in Threads : call[t] \in LockCalls => (Runs(k', t) <=> Runs(k, t))
  BY <1>10, <1>11 DEF SameThreads
<1>15. QED
  BY <1>1, <1>11, <1>12, <1>13, <1>14, QuietKeeps

-----------------------------------------------------------------------------
(* A thread gives mutexes up: chMtxUnlock(), chMtxUnlockAll() and the first *)
(* half of chCondWait().                                                    *)

\* Who waits for a mutex is in the call to lock it.
LEMMA WaiterIs ==
    ASSUME MtxInv, NEW m \in Mutexes, NEW x \in ToSet(k.queue[m])
    PROVE  /\ x \in Threads /\ ~Runs(k, x) /\ x # k.current /\ k.u[x] = m
           /\ k.state[x] = "WTMTX" /\ call[x] \in LockCalls /\ call[x].of = m
           /\ \A o \in Mutexes : x \in ToSet(k.queue[o]) <=> o = m
<1>1. WaitsFit(k) /\ Sound(k) /\ CallsFit(k, call)
  BY InvFacts
<1>2. x \in Threads
  <2>1. k.queue[m] \in Seq(Threads)
    BY <1>1, SoundIs, KindsOfCalls
  <2>2. QED
    BY <2>1, QueueSet
<1>3. k.state[x] = "WTMTX"
  BY <1>1, <1>2, WhereItWaits
<1>4. \A o \in Mutexes : x \in ToSet(k.queue[o]) <=> o = k.u[x]
  BY <1>1, <1>2, <1>3, WhereItWaits
<1>5. ~Runs(k, x) /\ Sleeping(k, call[x], x) /\ Runs(k, k.current)
  BY <1>1, <1>2, <1>3, SoundIs DEF Runs, Runnable, CallsFit
<1>6. QED
  BY <1>2, <1>3, <1>4, <1>5 DEF Sleeping

LEMMA NextOwnerIs ==
    ASSUME MtxInv, NEW m \in Mutexes
    PROVE  /\ k.queue[m] = <<>> => NextOwner(m) = None
           /\ k.queue[m] # <<>> => /\ NextOwner(m) \in ToSet(k.queue[m])
                                  /\ \A w \in ToSet(k.queue[m]) : k.prio[w] <= k.prio[NextOwner(m)]
<1>1. Queue(k.queue[m], Threads) /\ Falling(k.queue[m], k.prio) /\ k.prio \in [Threads -> Nat \ {0}]
  BY InvFacts, SoundIs, KindsOfCalls DEF QueuesSound, QueuesFall
<1>2. k.prio \in [Threads -> Nat]
  BY <1>1
<1>3. QED
  BY <1>1, <1>2, TailQueue, HeadIsHighest DEF NextOwner

\* Thread x is handed a mutex of ms.
Handed(ms, x) == \E m \in ms : NextOwner(m) = x

LEMMA HandedIs ==
    ASSUME MtxInv, NEW ms \in SUBSET Mutexes, NEW x \in Threads, Handed(ms, x)
    PROVE  /\ k.u[x] \in ms /\ NextOwner(k.u[x]) = x /\ x \in ToSet(k.queue[k.u[x]])
           /\ (CHOOSE m \in ms : NextOwner(m) = x) = k.u[x]
           /\ x # k.current /\ ~Runs(k, x) /\ call[x] \in LockCalls /\ call[x].of = k.u[x]
           /\ k.u[x] \in Mutexes
<1>1. ASSUME NEW m \in ms, NextOwner(m) = x
      PROVE  /\ k.u[x] = m /\ x \in ToSet(k.queue[m])
             /\ x # k.current /\ ~Runs(k, x) /\ call[x] \in LockCalls /\ call[x].of = m
  <2>1. NextOwner(m) \in ToSet(k.queue[m])
    BY <1>1, NextOwnerIs, MtxAssumption
  <2>2. QED
    BY <1>1, <2>1, WaiterIs
<1>2. PICK m \in ms : NextOwner(m) = x
  BY DEF Handed
<1>3. k.u[x] = m
  BY <1>1, <1>2
<1>4. \A o \in ms : NextOwner(o) = x => o = m
  BY <1>1, <1>3
<1>5. QED
  BY <1>1, <1>2, <1>3, <1>4

\* An element put before an injective sequence without it.
LEMMA Prefixed ==
    ASSUME NEW S, NEW q \in Seq(S), IsInjective(q), NEW e \in S, e \notin ToSet(q)
    PROVE  LET r == <<e>> \o q IN
           r \in Seq(S) /\ IsInjective(r) /\ ToSet(r) = ToSet(q) \cup {e}
<1> DEFINE r == <<e>> \o q
<1>1. /\ r \in Seq(S) /\ Len(r) = 1 + Len(q) /\ r[1] = e
      /\ \A j \in 1..Len(q) : r[1 + j] = q[j]
  BY Glued
<1>2. /\ Len(q) \in Nat /\ DOMAIN q = 1..Len(q) /\ DOMAIN r = 1..Len(r)
      /\ \A x : x \in ToSet(q) <=> \E i \in 1..Len(q) : q[i] = x
      /\ \A x : x \in ToSet(r) <=> \E i \in 1..Len(r) : r[i] = x
  BY <1>1, QueueSet
<1> HIDE DEF r
<1>3. \A i \in 2..Len(r) : r[i] = q[i - 1] /\ i - 1 \in 1..Len(q)
  <2>1. ASSUME NEW i \in 2..Len(r) PROVE r[i] = q[i - 1] /\ i - 1 \in 1..Len(q)
    <3>1. i - 1 \in 1..Len(q) /\ 1 + (i - 1) = i
      BY <1>1, <1>2
    <3>2. QED
      BY <1>1, <3>1
  <2>2. QED
    BY <2>1
<1>4. \A i, j \in 1..Len(q) : q[i] = q[j] => i = j
  BY <1>2 DEF IsInjective
<1>5. \A i \in 1..Len(q) : q[i] # e
  BY <1>2
<1>6. ASSUME NEW i \in 1..Len(r), NEW j \in 1..Len(r), r[i] = r[j] PROVE i = j
  <2>1. CASE i = 1 \/ j = 1
    BY <1>1, <1>2, <1>3, <1>5, <1>6, <2>1
  <2>2. CASE i \in 2..Len(r) /\ j \in 2..Len(r)
    <3>1. q[i - 1] = q[j - 1] /\ i - 1 \in 1..Len(q) /\ j - 1 \in 1..Len(q)
      BY <1>3, <1>6, <2>2
    <3>2. i - 1 = j - 1
      BY <1>4, <3>1
    <3>3. QED
      BY <2>2, <3>2
  <2>3. QED
    BY <1>1, <1>2, <2>1, <2>2
<1>7. IsInjective(r)
  BY <1>2, <1>6 DEF IsInjective
<1>8. ToSet(r) = ToSet(q) \cup {e}
  <2>1. ASSUME NEW x \in ToSet(r) PROVE x \in ToSet(q) \cup {e}
    <3>1. PICK i \in 1..Len(r) : r[i] = x
      BY <1>2
    <3>2. CASE i = 1
      BY <1>1, <3>1, <3>2
    <3>3. CASE i \in 2..Len(r)
      BY <1>2, <1>3, <3>1, <3>3
    <3>4. QED
      BY <1>1, <1>2, <3>2, <3>3
  <2>2. ASSUME NEW x \in ToSet(q) PROVE x \in ToSet(r)
    <3>1. PICK j \in 1..Len(q) : q[j] = x
      BY <1>2
    <3>2. 1 + j \in 1..Len(r) /\ r[1 + j] = x
      BY <1>1, <1>2, <3>1
    <3>3. QED
      BY <1>2, <3>2
  <2>3. e \in ToSet(r)
    <3>1. 1 \in 1..Len(r)
      BY <1>1, <1>2
    <3>2. QED
      BY <1>1, <1>2, <3>1
  <2>4. QED
    BY <2>1, <2>2, <2>3
<1>9. QED
  BY <1>1, <1>7, <1>8 DEF r

\* The mutexes ms of thread t, which keeps the others, have new owners.
GivenOver(t, ms, kept, own, lists) ==
    /\ OwnersFit(own, lists) /\ lists[t] = kept
    /\ \A x \in Threads \ {t} :
           lists[x] = IF Handed(ms, x) THEN <<k.u[x]>> \o mtxlist[x] ELSE mtxlist[x]
    /\ \A m \in Mutexes : own[m] = IF m \in ms THEN NextOwner(m) ELSE owner[m]
    /\ ms \in SUBSET Mutexes /\ \A m \in ms : owner[m] = t

LEMMA OwnersHandedOver ==
    ASSUME MtxInv, NEW t, t = k.current, NEW ms \in SUBSET ToSet(mtxlist[t]),
           NEW kept \in Seq(Mutexes), IsInjective(kept), ToSet(kept) = ToSet(mtxlist[t]) \ ms,
           HandOver(t, ms, kept)
    PROVE  GivenOver(t, ms, kept, owner', mtxlist') /\ realprio' = realprio
<1>1. /\ t \in Threads /\ owner \in [Mutexes -> Threads \cup {None}]
      /\ mtxlist \in [Threads -> Seq(Mutexes)]
      /\ \A x \in Threads : IsInjective(mtxlist[x])
      /\ \A x \in Threads : \A m \in Mutexes : m \in ToSet(mtxlist[x]) <=> owner[m] = x
  BY InvFacts DEF MtxInv, OwnersFit
<1>2. ms \in SUBSET Mutexes /\ \A m \in ms : owner[m] = t
  <2>1. ToSet(mtxlist[t]) \subseteq Mutexes
    BY <1>1, QueueSet
  <2>2. QED
    BY <1>1, <2>1
<1>3. \A m \in ms : NextOwner(m) \in Threads \cup {None} /\ NextOwner(m) # t
  <2> SUFFICES ASSUME NEW m \in ms PROVE NextOwner(m) \in Threads \cup {None} /\ NextOwner(m) # t
    OBVIOUS
  <2>1. CASE k.queue[m] = <<>>
    BY <1>1, <1>2, <2>1, NextOwnerIs, MtxAssumption
  <2>2. CASE k.queue[m] # <<>>
    BY <1>2, <2>2, NextOwnerIs, WaiterIs
  <2>3. QED
    BY <2>1, <2>2
<1>4. /\ owner' = [m \in Mutexes |-> IF m \in ms THEN NextOwner(m) ELSE owner[m]]
      /\ realprio' = realprio
      /\ mtxlist' = [x \in Threads |->
                     IF x = t THEN kept
                     ELSE IF \E m \in ms : NextOwner(m) = x
                     THEN <<CHOOSE m \in ms : NextOwner(m) = x>> \o mtxlist[x] ELSE mtxlist[x]]
  BY DEF HandOver
<1>5. ASSUME NEW x \in Threads \ {t}
      PROVE  mtxlist'[x] = IF Handed(ms, x) THEN <<k.u[x]>> \o mtxlist[x] ELSE mtxlist[x]
  <2>1. CASE Handed(ms, x)
    <3>1. (CHOOSE m \in ms : NextOwner(m) = x) = k.u[x]
      BY <1>2, <2>1, HandedIs
    <3>2. QED
      BY <1>4, <2>1, <3>1 DEF Handed
  <2>2. CASE ~Handed(ms, x)
    BY <1>4, <2>2 DEF Handed
  <2>3. QED
    BY <2>1, <2>2
<1>6. mtxlist'[t] = kept
  BY <1>1, <1>4
<1>7. \A m \in Mutexes : owner'[m] = IF m \in ms THEN NextOwner(m) ELSE owner[m]
  BY <1>4
<1>8. owner' \in [Mutexes -> Threads \cup {None}]
  BY <1>1, <1>3, <1>4
<1>9. ASSUME NEW x \in Threads
      PROVE  /\ mtxlist'[x] \in Seq(Mutexes) /\ IsInjective(mtxlist'[x])
             /\ \A m \in Mutexes : m \in ToSet(mtxlist'[x]) <=> owner'[m] = x
  <2>1. CASE x = t
    BY <1>1, <1>3, <1>6, <1>7, <2>1
  <2>2. CASE x # t /\ Handed(ms, x)
    <3> DEFINE u == k.u[x]
               l == mtxlist[x]
               n == mtxlist'[x]
    <3>1. u \in ms /\ u \in Mutexes /\ NextOwner(u) = x
      BY <1>2, <2>2, HandedIs
    <3>2. u \notin ToSet(l) /\ l \in Seq(Mutexes) /\ IsInjective(l)
      BY <1>1, <1>2, <2>2, <3>1
    <3>3. n = <<u>> \o l
      BY <1>5, <2>2
    <3> HIDE DEF u, l, n
    <3>4. n \in Seq(Mutexes) /\ IsInjective(n) /\ ToSet(n) = ToSet(l) \cup {u}
      BY <3>1, <3>2, <3>3, Prefixed
    <3>5. ASSUME NEW m \in ms, NextOwner(m) = x PROVE m = u
      BY <1>2, <3>5, NextOwnerIs, WaiterIs, MtxAssumption DEF u
    <3>6. \A m \in Mutexes : m \in ToSet(n) <=> owner'[m] = x
      <4> SUFFICES ASSUME NEW m \in Mutexes PROVE m \in ToSet(n) <=> owner'[m] = x
        OBVIOUS
      <4>1. m \in ToSet(l) <=> owner[m] = x
        BY <1>1 DEF l
      <4>2. CASE m \in ms
        BY <1>2, <1>7, <2>2, <3>1, <3>4, <3>5, <4>1, <4>2
      <4>3. CASE m \notin ms
        BY <1>7, <3>1, <3>4, <4>1, <4>3
      <4>4. QED
        BY <4>2, <4>3
    <3>7. QED
      BY <3>4, <3>6 DEF n
  <2>3. CASE x # t /\ ~Handed(ms, x)
    <3>1. mtxlist'[x] = mtxlist[x]
      BY <1>5, <2>3
    <3>2. \A m \in ms : NextOwner(m) # x
      BY <2>3 DEF Handed
    <3>3. QED
      BY <1>1, <1>2, <1>7, <2>3, <3>1, <3>2
  <2>4. QED
    BY <2>1, <2>2, <2>3
<1>10. mtxlist' \in [Threads -> Seq(Mutexes)]
  BY <1>4, <1>9
<1>11. OwnersFit(owner', mtxlist')
  BY <1>8, <1>9, <1>10 DEF OwnersFit
<1>12. QED
  BY <1>2, <1>4, <1>5, <1>6, <1>7, <1>11 DEF GivenOver

\* The kernel has handed the mutexes ms over.
HandsOn(ms, r) ==
    /\ Sound(r) /\ Loosed(k, r)
    /\ \A x \in Threads : call[x] \in LockCalls => (Runs(r, x) <=> Runs(k, x) \/ Handed(ms, x))

\* Who waits for a mutex that thread t keeps.
WaitingFor(kept) == {w \in Threads : \E m \in ToSet(kept) : w \in ToSet(k.queue[m])}

LEMMA QueuesHandedOn ==
    ASSUME MtxInv, NEW ms \in SUBSET Mutexes, NEW r, HandsOn(ms, r), NEW m \in Mutexes
    PROVE  /\ m \in ms => \A x : x \in ToSet(r.queue[m]) <=> x \in ToSet(k.queue[m]) /\ x # NextOwner(m)
           /\ m \notin ms => ToSet(r.queue[m]) = ToSet(k.queue[m])
           /\ r.queue[m] # <<>> => k.queue[m] # <<>>
<1>1. Sound(k) /\ Sound(r) /\ CallsFit(k, call) /\ Loosed(k, r) /\ m \in Objects
  BY InvFacts, KindsOfCalls DEF HandsOn
<1>2. k.queue[m] \in Seq(Threads) /\ r.queue[m] \in Seq(Threads)
  BY <1>1, SoundIs
<1>3. ToSet(k.queue[m]) \subseteq Threads /\ ToSet(r.queue[m]) \subseteq Threads
  BY <1>2, QueueSet
<1>4. ASSUME NEW x \in Threads
      PROVE  x \in ToSet(r.queue[m]) <=> x \in ToSet(k.queue[m]) /\ ~(m \in ms /\ NextOwner(m) = x)
  <2>1. /\ x \in ToSet(r.queue[m]) <=> r.state[x] \in WaitStates /\ r.u[x] = m
        /\ x \in ToSet(k.queue[m]) <=> k.state[x] \in WaitStates /\ k.u[x] = m
    BY <1>1, SoundIs DEF ThreadPlaced
  <2>2. \A y : y \in WaitStates => y \notin Runnable
    BY DEF WaitStates, Runnable
  <2>3. ASSUME x \in ToSet(r.queue[m])
        PROVE  x \in ToSet(k.queue[m]) /\ ~(m \in ms /\ NextOwner(m) = x)
    <3>1. ~Runs(r, x)
      BY <2>1, <2>2, <2>3 DEF Runs
    <3>2. x \in ToSet(k.queue[m])
      BY <1>1, <2>1, <2>3, <3>1 DEF Loosed
    <3>3. call[x] \in LockCalls
      BY <3>2, WaiterIs
    <3>4. ~Handed(ms, x)
      BY <3>1, <3>3 DEF HandsOn
    <3>5. QED
      BY <3>2, <3>4 DEF Handed
  <2>4. ASSUME x \in ToSet(k.queue[m]), ~(m \in ms /\ NextOwner(m) = x)
        PROVE  x \in ToSet(r.queue[m])
    <3>1. call[x] \in LockCalls /\ ~Runs(k, x) /\ k.u[x] = m
      BY <2>4, WaiterIs
    <3>2. ~Handed(ms, x)
      BY <2>4, <3>1, HandedIs
    <3>3. ~Runs(r, x)
      BY <3>1, <3>2 DEF HandsOn
    <3>4. QED
      BY <1>1, <2>1, <2>4, <3>3 DEF Loosed
  <2>5. QED
    BY <2>3, <2>4
<1>5. m \notin ms => ToSet(r.queue[m]) = ToSet(k.queue[m])
  BY <1>3, <1>4
<1>6. r.queue[m] # <<>> => k.queue[m] # <<>>
  <2>1. r.queue[m] # <<>> => ToSet(r.queue[m]) # {}
    BY <1>2, QueueSet
  <2>2. k.queue[m] = <<>> => ToSet(k.queue[m]) = {}
    BY <1>2, QueueSet
  <2>3. QED
    BY <1>3, <1>4, <2>1, <2>2
<1>7. QED
  BY <1>3, <1>4, <1>5, <1>6

\* Thread t has priority p, the others the ones they had.
Repriced(s, r, t, p) == r.prio[t] = p /\ \A x \in Threads \ {t} : r.prio[x] = s.prio[x]

\* The mutexes ms are handed on, and the running thread t keeps the others.
Unlocked(t, ms, kept, r) ==
    /\ HandsOn(ms, r) /\ QueuesFall(r)
    /\ \E p \in Nat \ {0} : /\ Repriced(k, r, t, p)
                            /\ Highest(p, realprio[t], k.prio, WaitingFor(kept),
                                       t, StillLowered(t, ms, kept))

\* What the invariant says of the kernel and of the owners.
Fits(r, own, lists, held, low) ==
    /\ CallsFit(r, call) /\ WaitedIsOwned(r, own)
    /\ HoldsFit(r, call, lists, held) /\ Lent(r, own, realprio, low)

LEMMA GivesUp ==
    ASSUME MtxInv, InUser, NEW t, t = k.current, NEW ms \in SUBSET ToSet(mtxlist[t]),
           NEW kept \in Seq(Mutexes), IsInjective(kept), ToSet(kept) = ToSet(mtxlist[t]) \ ms,
           HandOver(t, ms, kept), NEW r, Unlocked(t, ms, kept, r),
           NEW held, held[t] = kept, \A x \in Threads \ {t} : held[x] = holds[x]
    PROVE  Fits(r, owner', mtxlist', held, lowered')
<1>p. PICK p \in Nat \ {0} : /\ Repriced(k, r, t, p)
                            /\ Highest(p, realprio[t], k.prio, WaitingFor(kept), t, lowered')
  BY DEF Unlocked, HandOver
<1>l. \A x \in Threads \ {t} : x \in lowered' <=> x \in lowered
  BY DEF HandOver, StillLowered
<1>u. HandsOn(ms, r)
  BY DEF Unlocked
<1>1. /\ OwnersFit(owner', mtxlist') /\ mtxlist'[t] = kept
      /\ \A x \in Threads \ {t} :
                  mtxlist'[x] = IF Handed(ms, x) THEN <<k.u[x]>> \o mtxlist[x] ELSE mtxlist[x]
      /\ \A m \in Mutexes : owner'[m] = IF m \in ms THEN NextOwner(m) ELSE owner[m]
      /\ ms \in SUBSET Mutexes /\ \A m \in ms : owner[m] = t
  <2>1. GivenOver(t, ms, kept, owner', mtxlist')
    BY OwnersHandedOver
  <2>2. QED
    BY <2>1 DEF GivenOver
<1>2. /\ Sound(k) /\ CallsFit(k, call) /\ t \in Threads /\ call[t] = User /\ None \notin Threads
      /\ OwnersFit(owner, mtxlist) /\ WaitedIsOwned(k, owner) /\ Lent(k, owner, realprio, lowered)
      /\ HoldsFit(k, call, mtxlist, holds)
      /\ k.prio \in [Threads -> Nat \ {0}]
  BY InvFacts, SoundIs, MtxAssumption DEF InUser, MtxInv
<1>3. Sound(r) /\ Loosed(k, r)
  BY <1>u DEF HandsOn
<1>4. CallsFit(r, call)
  BY <1>2, <1>3, CallsStay, SchdAssumption
<1>5. ASSUME NEW m \in Mutexes
      PROVE  /\ m \in ms => \A x : x \in ToSet(r.queue[m]) <=> x \in ToSet(k.queue[m]) /\ x # NextOwner(m)
             /\ m \notin ms => ToSet(r.queue[m]) = ToSet(k.queue[m])
             /\ r.queue[m] # <<>> => k.queue[m] # <<>>
  <2>1. ms \in SUBSET Mutexes
    BY <1>1
  <2>2. QED
    BY <2>1, <1>u, QueuesHandedOn, Zenon
<1>6. WaitedIsOwned(r, owner')
  <2> SUFFICES ASSUME NEW m \in Mutexes, r.queue[m] # <<>> PROVE owner'[m] # None
    BY DEF WaitedIsOwned
  <2>1. k.queue[m] # <<>>
    BY <1>5
  <2>2. CASE m \in ms
    <3>1. NextOwner(m) \in Threads
      BY <2>1, NextOwnerIs, WaiterIs
    <3>2. QED
      BY <1>1, <1>2, <2>2, <3>1
  <2>3. CASE m \notin ms
    BY <1>1, <1>2, <2>1, <2>3 DEF WaitedIsOwned
  <2>4. QED
    BY <2>2, <2>3
<1>7. ASSUME NEW x \in Threads PROVE HeldFits(r, call[x], mtxlist'[x], held[x], x)
  <2>1. CASE x = t
    BY <1>1, <1>2, <2>1, KindsOfCalls DEF HeldFits
  <2>2. CASE x # t
    <3>1. HeldFits(k, call[x], mtxlist[x], holds[x], x) /\ held[x] = holds[x]
      BY <1>2, <2>2 DEF HoldsFit
    <3>2. CASE Handed(ms, x)
      <4>1. call[x] \in LockCalls /\ call[x].of = k.u[x] /\ ~Runs(k, x)
        BY <1>1, <3>2, HandedIs
      <4>2. Runs(r, x)
        BY <1>u, <3>2, <4>1 DEF HandsOn
      <4>3. mtxlist'[x] = <<call[x].of>> \o mtxlist[x]
        BY <1>1, <2>2, <3>2, <4>1
      <4>4. call[x] # User /\ call[x] \notin CondCalls
        BY <4>1, KindsOfCalls
      <4>5. QED
        BY <3>1, <4>1, <4>2, <4>3, <4>4 DEF HeldFits
    <3>3. CASE ~Handed(ms, x)
      <4>1. mtxlist'[x] = mtxlist[x]
        BY <1>1, <2>2, <3>3
      <4>2. call[x] \in LockCalls => (Runs(r, x) <=> Runs(k, x))
        BY <1>u, <3>3 DEF HandsOn
      <4>3. QED
        BY <3>1, <4>1, <4>2 DEF HeldFits
    <3>4. QED
      BY <3>2, <3>3
  <2>3. QED
    BY <2>1, <2>2
<1>8. ASSUME NEW x \in Threads
      PROVE  Highest(r.prio[x], realprio[x], r.prio, Waiters(r, owner', x), x, lowered')
  <2>1. \A w \in Waiters(r, owner', x) : w # t /\ w \in Threads
    <3>1. ASSUME NEW w \in Waiters(r, owner', x) PROVE w # t
      <4>1. PICK m \in Mutexes : w \in ToSet(r.queue[m])
        BY DEF Waiters
      <4>2. w \in ToSet(k.queue[m])
        BY <1>5, <4>1
      <4>3. QED
        BY <4>2, WaiterIs
    <3>2. QED
      BY <3>1 DEF Waiters
  <2>2. \A w \in Waiters(r, owner', x) : r.prio[w] = k.prio[w]
    BY <1>p, <2>1 DEF Repriced
  <2>3. CASE x = t
    <3>1. Waiters(r, owner', x) = WaitingFor(kept)
      <4>1. \A m \in Mutexes : owner'[m] = x <=> m \in ToSet(kept)
        BY <1>1, <1>2, <2>3 DEF OwnersFit
      <4>2. \A m \in ToSet(kept) : m \in Mutexes /\ ToSet(r.queue[m]) = ToSet(k.queue[m])
        <5>1. ToSet(kept) \subseteq Mutexes
          BY QueueSet
        <5>2. QED
          BY <1>5, <5>1
      <4>3. QED
        BY <4>1, <4>2 DEF Waiters, WaitingFor
    <3>2. r.prio[x] = p
      BY <1>p, <2>3 DEF Repriced
    <3>3. QED
      BY <1>p, <2>2, <2>3, <3>1, <3>2 DEF Highest
  <2>4. CASE x # t
    <3> DEFINE old == Waiters(k, owner, x)
               new == Waiters(r, owner', x)
    <3>1. r.prio[x] = k.prio[x]
      BY <1>p, <2>4 DEF Repriced
    <3>2. Highest(k.prio[x], realprio[x], k.prio, old, x, lowered')
      BY <1>2, <1>l, <2>4 DEF Lent, Highest
    <3>3. ASSUME NEW w \in old PROVE w \in new
      <4>1. PICK m \in Mutexes : owner[m] = x /\ w \in ToSet(k.queue[m])
        BY DEF Waiters
      <4>2. m \notin ms
        BY <1>1, <2>4, <4>1
      <4>3. owner'[m] = x /\ w \in ToSet(r.queue[m])
        BY <1>1, <1>5, <4>1, <4>2
      <4>4. QED
        BY <4>3 DEF Waiters
    <3>4. ASSUME NEW w \in new, x \notin lowered' PROVE k.prio[x] >= k.prio[w]
      <4>1. PICK m \in Mutexes : owner'[m] = x /\ w \in ToSet(r.queue[m])
        BY DEF Waiters
      <4>2. CASE m \in ms
        <5>1. NextOwner(m) = x /\ w \in ToSet(k.queue[m])
          BY <1>1, <1>5, <4>1, <4>2
        <5>2. k.queue[m] # <<>>
          BY <1>5, <1>2, <5>1, NextOwnerIs
        <5>3. k.prio[w] <= k.prio[x] /\ w \in Threads
          BY <5>1, <5>2, NextOwnerIs, WaiterIs
        <5>4. QED
          BY <1>2, <5>3
      <4>3. CASE m \notin ms
        <5>1. owner[m] = x /\ w \in ToSet(k.queue[m])
          BY <1>1, <1>5, <4>1, <4>3
        <5>2. w \in old
          BY <5>1, WaiterIs DEF Waiters
        <5>3. QED
          BY <3>2, <3>4, <5>2 DEF Highest
      <4>4. QED
        BY <4>2, <4>3
    <3> HIDE DEF old, new
    <3>5. \A w \in new : r.prio[w] = k.prio[w]
      BY <2>2 DEF new
    <3>6. Highest(r.prio[x], realprio[x], r.prio, new, x, lowered')
      BY <3>1, <3>2, <3>3, <3>4, <3>5 DEF Highest
    <3>7. QED
      BY <3>6 DEF new
  <2>5. QED
    BY <2>3, <2>4
<1>9. QED
  BY <1>4, <1>6, <1>7, <1>8 DEF Fits, HoldsFit, Lent

\* The priority of the running thread changes.
LEMMA Reweighed ==
    ASSUME NEW s, Sound(s), QueuesFall(s), NEW p \in Nat \ {0}
    PROVE  LET r == Boosted(s, s.current, p) IN
           /\ Sound(r) /\ QueuesFall(r) /\ Repriced(s, r, s.current, p)
           /\ r.current = s.current /\ r.state = s.state /\ r.u = s.u /\ r.ready = s.ready
           /\ r.queue = s.queue /\ r.vt = s.vt
<1> DEFINE c == s.current
           r == Boosted(s, c, p)
<1>1. /\ s \in KernelStates(Notes, {}) /\ Placed(s) /\ Sorted(s) /\ QueuesSound(s)
      /\ Queue(Pars(s.vt), Threads) /\ OnTime(s)
      /\ c \in Threads /\ s.prio \in [Threads -> Nat \ {0}] /\ s.state[c] = "CURRENT"
      /\ s.ready \in Seq(Threads) /\ s.queue \in [Objects -> Seq(Threads)] /\ ThreadPlaced(s, c)
  BY SoundIs
<1>2. /\ r \in KernelStates(Notes, {}) /\ \A y \in Threads \ {c} : r.prio[y] = s.prio[y]
      /\ r.prio[c] = p
      /\ r.current = s.current /\ r.state = s.state /\ r.u = s.u /\ r.ready = s.ready
      /\ r.queue = s.queue /\ r.vt = s.vt /\ r.due = s.due /\ r.cnt = s.cnt
  <2>1. ASSUME NEW x \in Threads
        PROVE  LET b == Boosted(s, x, p) IN
               /\ b \in KernelStates(Notes, {}) /\ b.prio = [s.prio EXCEPT ![x] = p]
               /\ b.prio \in [Threads -> Nat \ {0}] /\ \A y \in Threads \ {x} : b.prio[y] = s.prio[y]
               /\ b.prio[x] = p
               /\ b.current = s.current /\ b.state = s.state /\ b.u = s.u /\ b.ready = s.ready
               /\ b.queue = s.queue /\ b.vt = s.vt /\ b.due = s.due /\ b.cnt = s.cnt
    BY BoostedIs
  <2> HIDE DEF c
  <2>2. QED
    BY <1>1, <2>1
<1> HIDE DEF r
<1>3. c \notin ToSet(s.ready) /\ \A o \in Objects : c \notin ToSet(s.queue[o])
  BY <1>1 DEF ThreadPlaced, WaitStates
<1>4. ASSUME NEW q \in Seq(Threads), c \notin ToSet(q), Falling(q, s.prio)
      PROVE  Falling(q, r.prio)
  <2>1. \A x \in ToSet(q) : s.prio[x] = r.prio[x]
    BY <1>2, <1>4, QueueSet
  <2>2. QED
    BY <1>4, <2>1, SameFalls
<1>5. Sorted(r)
  BY <1>1, <1>2, <1>3, <1>4 DEF Sorted
<1>6. QueuesFall(r)
  BY <1>1, <1>2, <1>3, <1>4 DEF QueuesFall
<1>7. Placed(r) /\ OnTime(r) /\ Queue(Pars(r.vt), Threads)
  BY <1>1, <1>2 DEF Placed, QueuesSound, ThreadPlaced, OnTime, Due
<1>8. QED
  BY <1>2, <1>5, <1>6, <1>7 DEF Sound, Settled, Repriced, r, c

\* The thread that runs its own code.
LEMMA OwnList ==
    ASSUME MtxInv, InUser, NEW t, t = k.current
    PROVE  /\ t \in Threads /\ call[t] = User /\ holds[t] = mtxlist[t]
           /\ Queue(mtxlist[t], Mutexes) /\ mtxlist[t] \in Seq(Mutexes) /\ Runs(k, t)
           /\ ToSet(mtxlist[t]) \subseteq Mutexes
           /\ \A m \in Mutexes : m \in ToSet(mtxlist[t]) <=> owner[m] = t
           /\ ~Armed(k, t)
<1>1. t \in Threads /\ call[t] = User /\ Runs(k, t) /\ ~Armed(k, t)
  BY InvFacts DEF InUser
<1>2. /\ mtxlist[t] \in Seq(Mutexes) /\ IsInjective(mtxlist[t])
      /\ \A m \in Mutexes : m \in ToSet(mtxlist[t]) <=> owner[m] = t
  BY <1>1 DEF MtxInv, OwnersFit
<1>3. holds[t] = mtxlist[t]
  BY <1>1 DEF MtxInv, HoldsFit, HeldFits
<1>4. ToSet(mtxlist[t]) \subseteq Mutexes
  BY <1>2, QueueSet
<1>5. \A m \in Mutexes : m \in ToSet(mtxlist[t]) <=> owner[m] = t
  BY <1>2
<1>6. QED
  BY <1>1, <1>2, <1>3, <1>4, <1>5 DEF Queue

\* Finitely many priorities have a bound.
LEMMA Bounded ==
    ASSUME NEW f \in [Threads -> Nat]
    PROVE  \E b \in Nat : \A x \in Threads : f[x] <= b
<1>1. PICK n \in Nat : ExistsSurjection(1..n, Threads)
  BY MtxAssumption, FS_NatSurjection
<1>2. PICK g \in [1..n -> Threads] : \A x \in Threads : \E i \in 1..n : g[i] = x
  BY <1>1 DEF ExistsSurjection, Surjection
<1> DEFINE Bounds(i) == {b \in Nat : \A j \in 1..i : f[g[j]] <= b}
           T == {i \in 0..n : Bounds(i) = {}}
<1>3. T = {}
  <2> SUFFICES ASSUME T # {} PROVE FALSE
    OBVIOUS
  <2>1. PICK i \in T : \A y \in T : i <= y
    <3>1. T \in SUBSET Nat
      OBVIOUS
    <3>2. QED
      BY <3>1, Least
  <2>2. i \in 0..n /\ Bounds(i) = {}
    BY <2>1
  <2>3. i # 0
    <3>1. 0 \in Bounds(0)
      BY DEF Bounds
    <3>2. QED
      BY <2>2, <3>1
  <2> HIDE DEF Bounds
  <2>4. i - 1 \in 0..n /\ i \in 1..n /\ i - 1 \notin T
    <3>1. i - 1 \in 0..n /\ i \in 1..n /\ ~(i <= i - 1)
      BY <2>2, <2>3
    <3>2. i - 1 \notin T
      BY <2>1, <3>1
    <3>3. QED
      BY <3>1, <3>2
  <2>5. PICK b \in Nat : \A j \in 1..(i - 1) : f[g[j]] <= b
    BY <2>4 DEF Bounds
  <2>6. f[g[i]] \in Nat
    BY <1>2, <2>4
  <2> DEFINE c == IF f[g[i]] <= b THEN b ELSE f[g[i]]
  <2>7. c \in Nat /\ f[g[i]] <= c /\ b <= c
    BY <2>6
  <2> HIDE DEF c
  <2>8. ASSUME NEW j \in 1..i PROVE f[g[j]] <= c
    <3>1. j = i \/ j \in 1..(i - 1)
      BY <2>4
    <3>2. f[g[j]] \in Nat
      BY <1>2, <2>4
    <3>3. QED
      BY <2>5, <2>7, <3>1, <3>2
  <2>9. c \in Bounds(i)
    BY <2>7, <2>8 DEF Bounds
  <2>10. QED
    BY <2>2, <2>9
<1>4. PICK b \in Nat : \A j \in 1..n : f[g[j]] <= b
  <2> HIDE DEF Bounds
  <2>1. Bounds(n) # {}
    BY <1>3
  <2>2. QED
    BY <2>1 DEF Bounds
<1>5. QED
  BY <1>2, <1>4

\* The priority a thread is left with, when it keeps some of its mutexes.
LEMMA PrioNowIs ==
    ASSUME MtxInv, InUser, NEW t, t = k.current,
           NEW kept \in Seq(Mutexes), ToSet(kept) \subseteq ToSet(mtxlist[t]), NEW low
    PROVE  /\ PrioNow(t, kept) \in Nat \ {0}
           /\ \A w \in WaitingFor(kept) : PrioNow(t, kept) >= k.prio[w]
           /\ Highest(PrioNow(t, kept), realprio[t], k.prio, WaitingFor(kept), t, low)
<1> DEFINE H == {k.prio[Head(k.queue[m])] : m \in {o \in ToSet(kept) : k.queue[o] # <<>>}}
           S == {realprio[t]} \cup H
<1>1. /\ t \in Threads /\ ToSet(kept) \subseteq Mutexes
      /\ \A m \in Mutexes : m \in ToSet(kept) => owner[m] = t
  BY OwnList
<1>2. k.prio \in [Threads -> Nat \ {0}] /\ realprio \in [Threads -> Nat \ {0}]
  BY <1>1, SoundIs DEF MtxInv
<1>3. ASSUME NEW m \in ToSet(kept), k.queue[m] # <<>>
      PROVE  /\ Head(k.queue[m]) \in ToSet(k.queue[m]) /\ Head(k.queue[m]) \in Threads
             /\ \A w \in ToSet(k.queue[m]) : k.prio[w] <= k.prio[Head(k.queue[m])]
  <2>1. m \in Mutexes /\ owner[m] = t
    BY <1>1
  <2>2. NextOwner(m) = Head(k.queue[m])
    BY <1>3 DEF NextOwner
  <2>3. /\ Head(k.queue[m]) \in ToSet(k.queue[m])
        /\ \A w \in ToSet(k.queue[m]) : k.prio[w] <= k.prio[Head(k.queue[m])]
    BY <1>3, <2>1, <2>2, NextOwnerIs
  <2>4. QED
    BY <2>1, <2>3, WaiterIs
<1>n. PICK n \in Nat : \A y \in S : y \in 1..n
  <2>1. k.prio \in [Threads -> Nat]
    BY <1>2
  <2> DEFINE f == k.prio
  <2>2. PICK b \in Nat : \A x \in Threads : f[x] <= b
    <3> HIDE DEF f
    <3>1. f \in [Threads -> Nat]
      BY <2>1 DEF f
    <3>2. QED
      BY <3>1, Bounded
  <2>3. realprio[t] \in Nat \ {0}
    BY <1>1, <1>2
  <2> DEFINE n == IF realprio[t] <= b THEN b ELSE realprio[t]
  <2>4. n \in Nat /\ realprio[t] \in 1..n /\ \A x \in Threads : f[x] \in 1..n
    BY <1>2, <2>2, <2>3
  <2> HIDE DEF n
  <2>5. \A y \in H : y \in 1..n
    BY <1>3, <2>4
  <2>6. QED
    BY <2>4, <2>5
<1>4. S \in SUBSET (1..n) /\ S # {} /\ n \in Nat
  BY <1>n
<1>5. PrioNow(t, kept) = Max(S)
  BY DEF PrioNow
<1> DEFINE v == PrioNow(t, kept)
<1>6. v \in S /\ \A y \in S : v >= y
  <2> HIDE DEF S
  <2>1. QED
    BY <1>4, <1>5, MaxIn
<1>7. v \in 1..n
  BY <1>4, <1>6
<1>8. v >= realprio[t]
  BY <1>6
<1>9. ASSUME NEW w \in WaitingFor(kept) PROVE v >= k.prio[w]
  <2>1. w \in Threads /\ \E m \in ToSet(kept) : w \in ToSet(k.queue[m])
    BY DEF WaitingFor
  <2>2. PICK m \in ToSet(kept) : w \in ToSet(k.queue[m])
    BY <2>1
  <2>3. k.queue[m] # <<>>
    BY <1>1, <2>2, QueueSet, NextOwnerIs, SoundIs, KindsOfCalls DEF MtxInv
  <2>4. k.prio[w] <= k.prio[Head(k.queue[m])] /\ Head(k.queue[m]) \in Threads
    BY <1>3, <2>2, <2>3
  <2>5. v >= k.prio[Head(k.queue[m])]
    BY <1>6, <2>3
  <2> HIDE DEF v
  <2>6. QED
    BY <1>2, <1>7, <2>1, <2>4, <2>5
<1>10. v = realprio[t] \/ \E w \in WaitingFor(kept) : k.prio[w] = v
  <2>1. CASE v = realprio[t]
    BY <2>1
  <2>2. CASE v \in H
    <3>1. PICK m \in ToSet(kept) : k.queue[m] # <<>> /\ v = k.prio[Head(k.queue[m])]
      BY <2>2
    <3>2. Head(k.queue[m]) \in WaitingFor(kept)
      BY <1>3, <3>1 DEF WaitingFor
    <3>3. QED
      BY <3>1, <3>2
  <2>3. QED
    BY <1>6, <2>1, <2>2
<1>11. QED
  BY <1>7, <1>8, <1>9, <1>10 DEF Highest

\* Thread w, the first in the queue of o, has left it and can run.
Freed(s, r, o, w) ==
    /\ Sound(r) /\ QueuesFall(r) /\ r.current = s.current /\ r.prio = s.prio
    /\ r.vt = s.vt /\ r.u = s.u /\ r.queue = [s.queue EXCEPT ![o] = Tail(@)]
    /\ w \in Threads /\ w # s.current /\ ~Runs(s, w) /\ w \in ToSet(s.queue[o])
    /\ \A x \in Threads : /\ Runs(r, x) <=> Runs(s, x) \/ x = w
                          /\ ~Runs(r, x) => r.state[x] = s.state[x]

LEMMA FirstReady ==
    ASSUME NEW s, Sound(s), QueuesFall(s), NEW o \in Objects, s.queue[o] # <<>>
    PROVE  Freed(s, ReadyI(Popped(s, o), Head(s.queue[o])), o, Head(s.queue[o]))
<1> DEFINE w == Head(s.queue[o])
           q == Tail(s.queue[o])
           p == Popped(s, o)
           r == ReadyI(p, w)
<1>1. /\ s \in KernelStates(Notes, {}) /\ s.cnt \in [{} -> Int] /\ Queue(s.queue[o], Threads)
      /\ s.prio \in [Threads -> Nat \ {0}] /\ s.queue \in [Objects -> Seq(Threads)]
      /\ Settled(Notes, {}, s)
  BY SoundIs DEF QueuesSound, Sound
<1>2. s.prio \in [Threads -> Nat]
  BY <1>1
<1>3. Queue(q, Threads) /\ w \in ToSet(s.queue[o]) /\ ToSet(q) = ToSet(s.queue[o]) \ {w}
  BY <1>1, TailQueue
<1>4. Falling(q, s.prio)
  BY <1>1, <1>2, HeadIsHighest DEF QueuesFall
<1>5. p = Requeued(s, s.cnt, o, q)
  BY <1>1 DEF Popped, Requeued, KernelStates
<1>6. r.queue = [s.queue EXCEPT ![o] = q] => r.queue = [s.queue EXCEPT ![o] = Tail(@)]
  OBVIOUS
<1> HIDE DEF w, q, p
<1>7. ReadiedFrom(Notes, {}, s, s.cnt, o, q, w)
  <2> DEFINE c == s.cnt
  <2>1. c \in [{} -> Int]
    BY <1>1
  <2> HIDE DEF c
  <2>2. ReadiedFrom(Notes, {}, s, c, o, q, w)
    BY <1>1, <1>3, <2>1, LeavesReady
  <2>3. QED
    BY <2>2 DEF c
<1>8. /\ w \in Threads /\ ~Runs(s, w) /\ w # s.current
      /\ Settled(Notes, {}, r) /\ r.current = s.current /\ r.prio = s.prio
      /\ r.u = s.u /\ r.vt = s.vt /\ r.queue = [s.queue EXCEPT ![o] = q]
      /\ \A x \in Threads : /\ Runs(r, x) <=> Runs(s, x) \/ x = w
                            /\ ~Runs(r, x) => r.state[x] = s.state[x]
  BY <1>5, <1>7 DEF ReadiedFrom
<1> HIDE DEF r
<1>9. QueuesFall(r)
  <2>1. \A y \in Objects : r.queue[y] = IF y = o THEN q ELSE s.queue[y]
    BY <1>1, <1>8
  <2>2. QED
    BY <1>4, <1>8, <2>1 DEF QueuesFall
<1>10. QED
  BY <1>3, <1>6, <1>8, <1>9 DEF Freed, Sound, r, w, p

PassAll(base, q) == FoldLeft(PassOn, base, q)

LEMMA PassEach ==
    ASSUME NEW R, NEW q \in Seq(Mutexes), NEW base \in R, NEW Rs, base \in Rs[0],
           \A a \in R : \A m \in Mutexes : PassOn(a, m) \in R,
           \A i \in 1..Len(q) : \A a \in R : a \in Rs[i - 1] => PassOn(a, q[i]) \in Rs[i]
    PROVE  PassAll(base, q) \in R /\ PassAll(base, q) \in Rs[Len(q)]
<1> DEFINE n == Len(q)
           st == [y \in R \X (1..n) |-> PassOn(y[1], q[y[2]])]
           Def(f) == f = [e \in SUBSET DOMAIN q |->
                            IF e = {} THEN base ELSE PassOn(f[e \ {Max(e)}], q[Max(e)])]
           iter == CHOOSE f : Def(f)
           Ss == [m \in 0..n |-> R \cap Rs[m]]
<1>1. n \in Nat /\ DOMAIN q = 1..n /\ \A i \in 1..n : q[i] \in Mutexes
  BY LenProperties, ElementOfSeq
<1>2. st \in [R \X (1..n) -> R]
  BY <1>1
<1>3. PICK g : Folds(g, R, st, base, n)
  BY <1>1, <1>2, FoldExists
<1>4. Def(g)
  <2>1. ASSUME NEW e \in SUBSET (1..n), e # {} PROVE Max(e) \in 1..n /\ e \ {Max(e)} \in SUBSET (1..n)
    BY <1>1, <2>1, MaxIn
  <2>2. ASSUME NEW e \in SUBSET (1..n), e # {} PROVE g[e] = PassOn(g[e \ {Max(e)}], q[Max(e)])
    <3>1. g[e \ {Max(e)}] \in R
      BY <1>3, <2>1, <2>2 DEF Folds
    <3>2. g[e] = st[<<g[e \ {Max(e)}], Max(e)>>]
      BY <1>3, <2>2 DEF Folds
    <3>3. QED
      BY <2>1, <2>2, <3>1, <3>2
  <2>3. g[{}] = base
    BY <1>3 DEF Folds
  <2>4. g = [e \in SUBSET (1..n) |-> g[e]]
    BY <1>3 DEF Folds
  <2>5. QED
    BY <1>1, <2>2, <2>3, <2>4
<1>5. Def(iter)
  BY <1>4
<1>6. PassAll(base, q) = iter[DOMAIN q]
  BY DEF PassAll, FoldLeft, MapThenFoldSet
<1> HIDE DEF iter
<1>7. ASSUME NEW m \in 1..n, iter[1..(m - 1)] \in Ss[m - 1] PROVE iter[1..m] \in Ss[m]
  <2>1. Max(1..m) = m /\ (1..m) \ {m} = 1..(m - 1) /\ 1..m # {} /\ 1..m \in SUBSET (1..n)
    BY <1>1, UpTo
  <2>2. iter[1..m] = PassOn(iter[1..(m - 1)], q[m])
    BY <1>1, <1>5, <2>1
  <2>3. iter[1..(m - 1)] \in R /\ iter[1..(m - 1)] \in Rs[m - 1]
    BY <1>1, <1>7
  <2>4. q[m] \in Mutexes /\ m \in 0..n
    BY <1>1
  <2>5. QED
    BY <2>2, <2>3, <2>4
<1>8. iter[{}] = base
  BY <1>1, <1>5
<1>9. iter[1..n] \in Ss[n]
  <2>1. iter[{}] \in Ss[0]
    BY <1>1, <1>8
  <2>2. \A m \in 1..n : iter[1..(m - 1)] \in Ss[m - 1] => iter[1..m] \in Ss[m]
    BY <1>7
  <2> HIDE DEF Ss
  <2>3. QED
    BY <1>1, <2>1, <2>2, Chain
<1>10. QED
  BY <1>1, <1>6, <1>9

\* Nothing changes when nobody waits for what is given up.
LEMMA NobodyWaits ==
    ASSUME MtxInv, InUser, NEW t, t = k.current, NEW ms \in SUBSET ToSet(mtxlist[t]),
           NEW kept \in Seq(Mutexes), ToSet(kept) = ToSet(mtxlist[t]) \ ms,
           \A m \in ms : k.queue[m] = <<>>
    PROVE  Unlocked(t, ms, kept, k)
<1>1. /\ t \in Threads /\ ToSet(mtxlist[t]) \subseteq Mutexes
      /\ \A m \in Mutexes : m \in ToSet(mtxlist[t]) <=> owner[m] = t
      /\ Sound(k) /\ QueuesFall(k)
  BY OwnList, InvFacts
<1>2. \A x \in Threads : ~Handed(ms, x)
  BY <1>1, NextOwnerIs, MtxAssumption DEF Handed
<1>3. HandsOn(ms, k)
  BY <1>1, <1>2 DEF HandsOn, Loosed
<1>4. WaitingFor(kept) = Waiters(k, owner, t)
  <2>1. \A m \in ms, w \in Threads : w \notin ToSet(k.queue[m])
    <3> SUFFICES ASSUME NEW m \in ms PROVE ToSet(k.queue[m]) = {}
      OBVIOUS
    <3>1. k.queue[m] \in Seq(Threads)
      BY <1>1, SoundIs, KindsOfCalls
    <3>2. QED
      BY <3>1, QueueSet
  <2>2. QED
    BY <1>1, <2>1 DEF WaitingFor, Waiters
<1>5. k.prio[t] \in Nat \ {0} /\ Highest(k.prio[t], realprio[t], k.prio, WaitingFor(kept), t, lowered)
  BY <1>1, <1>4, SoundIs DEF MtxInv, Lent
<1>7. StillLowered(t, ms, kept) = IF kept = <<>> THEN lowered \ {t} ELSE lowered
  BY DEF StillLowered
<1>8. kept = <<>> => WaitingFor(kept) = {}
  BY NothingQueued DEF WaitingFor
<1>9. Highest(k.prio[t], realprio[t], k.prio, WaitingFor(kept), t, StillLowered(t, ms, kept))
  BY <1>5, <1>7, <1>8 DEF Highest
<1>6. QED
  BY <1>1, <1>3, <1>5, <1>9 DEF Unlocked, Repriced

\* Once the running thread has its new priority, nobody who is ready is more
\* urgent than it and the first who waits for the mutex.
LEMMA NextIsTop ==
    ASSUME MtxInv, InUser, NEW t, t = k.current, NEW m \in ToSet(mtxlist[t]),
           NEW kept \in Seq(Mutexes), ToSet(kept) = ToSet(mtxlist[t]) \ {m},
           k.queue[m] # <<>>
    PROVE  NoneAbove(Boosted(k, t, PrioNow(t, kept)), Head(k.queue[m]))
<1> DEFINE p == PrioNow(t, kept)
           b == Boosted(k, t, p)
           w == Head(k.queue[m])
<1>1. /\ t \in Threads /\ m \in Mutexes /\ Runs(k, t)
      /\ \A o \in Mutexes : o \in ToSet(mtxlist[t]) <=> owner[o] = t
      /\ Sound(k) /\ TopRuns(k) /\ QueuesFall(k)
  BY OwnList, InvFacts
<1>2. /\ p \in Nat \ {0} /\ \A x \in WaitingFor(kept) : p >= k.prio[x]
      /\ p >= realprio[t]
  BY PrioNowIs DEF Highest
<1>3. /\ k.prio \in [Threads -> Nat \ {0}] /\ k.ready \in Seq(Threads) /\ ThreadPlaced(k, t)
      /\ k.state[t] = "CURRENT" /\ realprio[t] \in Nat
      /\ Highest(k.prio[t], realprio[t], k.prio, Waiters(k, owner, t), t, lowered)
  BY <1>1, SoundIs DEF MtxInv, Lent
<1>4. w \in ToSet(k.queue[m]) /\ \A x \in ToSet(k.queue[m]) : k.prio[x] <= k.prio[w]
  BY <1>1, NextOwnerIs DEF NextOwner
<1>5. w \in Threads /\ w # t
  BY <1>1, <1>4, WaiterIs
<1>6. p \in Nat \ {0}
  BY <1>2
<1> HIDE DEF p, w
<1>7. /\ Repriced(k, b, t, p) /\ b.ready = k.ready /\ b.current = t
  BY <1>1, <1>6, Reweighed
<1> HIDE DEF b
<1>8. p >= k.prio[t] \/ k.prio[t] <= k.prio[w]
  <2> SUFFICES ASSUME ~(p >= k.prio[t]) PROVE k.prio[t] <= k.prio[w]
    OBVIOUS
  <2>1. p < k.prio[t] /\ realprio[t] <= p /\ k.prio[t] \in Nat /\ p \in Nat
    BY <1>1, <1>2, <1>3, <1>6 DEF Highest
  <2>2. PICK v \in Waiters(k, owner, t) : k.prio[v] = k.prio[t]
    <3>1. k.prio[t] # realprio[t]
      BY <1>3, <2>1
    <3>2. QED
      BY <1>3, <3>1 DEF Highest
  <2>3. v \notin WaitingFor(kept)
    BY <1>1, <1>2, <1>3, <2>1, <2>2 DEF Highest
  <2>4. v \in ToSet(k.queue[m])
    BY <1>1, <2>2, <2>3 DEF Waiters, WaitingFor
  <2>5. QED
    BY <1>4, <2>2, <2>4
<1>9. ASSUME NEW x \in ToSet(k.ready)
      PROVE  b.prio[x] <= p \/ b.prio[x] <= b.prio[w]
  <2>1. x \in Threads /\ x # t
    BY <1>3, QueueSet DEF ThreadPlaced
  <2>2. b.prio[x] = k.prio[x] /\ b.prio[w] = k.prio[w] /\ k.prio[x] <= k.prio[t]
    BY <1>1, <1>5, <1>7, <2>1 DEF Repriced, TopRuns
  <2>3. k.prio[x] \in Nat /\ k.prio[w] \in Nat /\ k.prio[t] \in Nat /\ p \in Nat
    BY <1>1, <1>3, <1>5, <1>6, <2>1
  <2>4. QED
    BY <1>8, <2>2, <2>3
<1>10. QED
  BY <1>7, <1>9 DEF NoneAbove, Repriced, b, w, p

\* The next owner of m has only been made ready.
Readied(t, m, kept) ==
    ReadyI(Popped(Boosted(k, t, PrioNow(t, kept)), m), Head(k.queue[m]))

LEMMA UnlockGives ==
    ASSUME MtxInv, InUser, NEW t, t = k.current, NEW m \in ToSet(mtxlist[t]),
           NEW kept \in Seq(Mutexes), ToSet(kept) = ToSet(mtxlist[t]) \ {m},
           k.queue[m] # <<>>
    PROVE  LET b == Boosted(k, t, PrioNow(t, kept))
               w == WakeupS(Popped(b, m), Head(k.queue[m]), "OK") IN
           /\ Unlocked(t, {m}, kept, w) /\ TopRuns(w)
           /\ Unlocked(t, {m}, kept, Readied(t, m, kept))
           /\ Readied(t, m, kept).current = t /\ Readied(t, m, kept).vt = k.vt
<1> DEFINE p == PrioNow(t, kept)
           b == Boosted(k, t, p)
           h == Head(k.queue[m])
           w == WakeupS(Popped(b, m), h, "OK")
           r == ReadyI(Popped(b, m), h)
<1>1. /\ t \in Threads /\ m \in Mutexes /\ m \in Objects /\ Runs(k, t) /\ Sound(k) /\ QueuesFall(k)
  BY OwnList, InvFacts, KindsOfCalls
<1>2. p \in Nat \ {0} /\ Highest(p, realprio[t], k.prio, WaitingFor(kept), t, StillLowered(t, {m}, kept))
  BY PrioNowIs
<1>3. NoneAbove(b, h)
  BY NextIsTop
<1> HIDE DEF p
<1>4. /\ Sound(b) /\ QueuesFall(b) /\ Repriced(k, b, t, p) /\ b.current = t
      /\ b.state = k.state /\ b.u = k.u /\ b.queue = k.queue /\ b.vt = k.vt
  BY <1>1, <1>2, Reweighed
<1> HIDE DEF b
<1>5. h = NextOwner(m) /\ h \in ToSet(k.queue[m])
  BY <1>1, NextOwnerIs DEF NextOwner
<1>6. h \in Threads /\ h # t
  BY <1>1, <1>5, WaiterIs
<1>7. Sound(w) /\ TopRuns(w) /\ QueuesFall(w) /\ LetGone(b, w, {h}, "OK")
  <2>1. b.queue[m] # <<>> /\ h = Head(b.queue[m])
    BY <1>4
  <2> HIDE DEF h
  <2>2. NoneAbove(b, Head(b.queue[m]))
    BY <1>3, <2>1
  <2>3. LET x == Head(b.queue[m])
            y == WakeupS(Popped(b, m), x, "OK") IN
        Sound(y) /\ TopRuns(y) /\ QueuesFall(y) /\ LetGone(b, y, {x}, "OK")
    BY <1>1, <1>4, <2>1, <2>2, FirstLetGo
  <2>4. QED
    BY <2>1, <2>3
<1>8. Freed(b, r, m, h)
  <2>1. b.queue[m] # <<>> /\ h = Head(b.queue[m])
    BY <1>4
  <2> HIDE DEF h
  <2>2. Freed(b, ReadyI(Popped(b, m), Head(b.queue[m])), m, Head(b.queue[m]))
    BY <1>1, <1>4, <2>1, FirstReady
  <2>3. QED
    BY <2>1, <2>2
<1> HIDE DEF h, w, r
<1>9. ASSUME NEW e, Sound(e), QueuesFall(e), e.prio = b.prio, e.vt = b.vt,
             \A x \in Threads : /\ Runs(e, x) <=> Runs(b, x) \/ x = h
                                /\ ~Runs(e, x) => e.state[x] = b.state[x] /\ e.u[x] = b.u[x]
      PROVE  Unlocked(t, {m}, kept, e)
  <2>1. \A x \in Threads : Runs(b, x) <=> Runs(k, x)
    BY <1>4 DEF Runs
  <2>2. Loosed(k, e)
    BY <1>4, <1>9, <2>1 DEF Loosed, Armed
  <2>3. \A x \in Threads : Handed({m}, x) <=> x = h
    BY <1>5 DEF Handed
  <2>4. HandsOn({m}, e)
    BY <1>9, <2>1, <2>2, <2>3 DEF HandsOn
  <2>5. Repriced(k, e, t, p)
    BY <1>4, <1>9 DEF Repriced
  <2>6. QED
    BY <1>2, <1>9, <2>4, <2>5 DEF Unlocked
<1>10. Unlocked(t, {m}, kept, w)
  <2>1. \A x \in Threads : /\ Runs(w, x) <=> Runs(b, x) \/ x = h
                           /\ ~Runs(w, x) => w.state[x] = b.state[x] /\ w.u[x] = b.u[x]
    BY <1>7 DEF LetGone
  <2>2. w.prio = b.prio /\ w.vt = b.vt
    BY <1>7 DEF LetGone
  <2>3. QED
    BY <1>7, <1>9, <2>1, <2>2
<1>11. Unlocked(t, {m}, kept, r) /\ r.current = t /\ r.vt = k.vt
  BY <1>4, <1>8, <1>9 DEF Freed
<1>12. QED
  BY <1>7, <1>10, <1>11 DEF w, r, b, p, h, Readied

LEMMA GaveUp ==
    ASSUME MtxInv, InUser, NEW t, t = k.current, NEW ms \in SUBSET ToSet(mtxlist[t]),
           NEW kept \in Seq(Mutexes), IsInjective(kept), ToSet(kept) = ToSet(mtxlist[t]) \ ms,
           HandOver(t, ms, kept), holds' = [holds EXCEPT ![t] = kept],
           DOMAIN holds = Threads, NEW r, Unlocked(t, ms, kept, r)
    PROVE  /\ Sound(r) /\ QueuesFall(r) /\ CallsFit(r, call) /\ WaitedIsOwned(r, owner')
           /\ HoldsFit(r, call, mtxlist', holds') /\ Lent(r, owner', realprio, lowered')
           /\ OwnersFit(owner', mtxlist') /\ realprio' = realprio /\ lowered' \subseteq Threads
<1>1. t \in Threads
  BY OwnList
<1>2. HandsOn(ms, r) /\ QueuesFall(r) /\ Sound(r)
  BY DEF Unlocked, HandsOn
<1> DEFINE held == holds'
<1>4. held[t] = kept /\ \A x \in Threads \ {t} : held[x] = holds[x]
  BY <1>1
<1> HIDE DEF held
<1>5. Fits(r, owner', mtxlist', held, lowered')
  BY <1>4, GivesUp
<1>8. lowered' \subseteq Threads
  BY DEF HandOver, StillLowered, MtxInv
<1>6. OwnersFit(owner', mtxlist') /\ realprio' = realprio
  <2>1. GivenOver(t, ms, kept, owner', mtxlist') /\ realprio' = realprio
    BY OwnersHandedOver
  <2>2. QED
    BY <2>1 DEF GivenOver
<1>7. QED
  BY <1>2, <1>5, <1>6, <1>8 DEF held, Fits

\* The first i mutexes of the list are handed on.
PassedOn(list, i, r) ==
    /\ r.current = k.current /\ r.prio = k.prio /\ r.vt = k.vt /\ r.u = k.u
    /\ \A j \in 1..Len(list) : j > i => r.queue[list[j]] = k.queue[list[j]]
    /\ \A x \in Threads :
         /\ Runs(r, x) <=> Runs(k, x) \/ \E j \in 1..i : NextOwner(list[j]) = x
         /\ ~Runs(r, x) => r.state[x] = k.state[x]

LEMMA AllPassedOn ==
    ASSUME MtxInv, NEW list, Queue(list, Mutexes)
    PROVE  /\ Sound(PassAll(k, list)) /\ QueuesFall(PassAll(k, list))
           /\ PassedOn(list, Len(list), PassAll(k, list))
<1> DEFINE n == Len(list)
           R == {r \in KernelStates(Notes, {}) : Sound(r) /\ QueuesFall(r)}
           Rs == [i \in 0..n |-> {r \in R : PassedOn(list, i, r)}]
<1>1. /\ n \in Nat /\ list \in Seq(Mutexes)
      /\ \A i \in 1..n : list[i] \in Mutexes
      /\ \A i, j \in 1..n : list[i] = list[j] => i = j
  <2>1. list \in Seq(Mutexes) /\ IsInjective(list)
    BY DEF Queue
  <2>2. n \in Nat /\ DOMAIN list = 1..n
    BY <2>1, QueueSet
  <2>3. \A i, j \in 1..n : list[i] = list[j] => i = j
    BY <2>1, <2>2 DEF IsInjective
  <2>4. QED
    BY <2>1, <2>2, <2>3, ElementOfSeq
<1>2. k \in R /\ k \in Rs[0]
  <2>1. k \in R
    BY InvFacts DEF Sound, Settled
  <2>2. PassedOn(list, 0, k)
    BY <1>1 DEF PassedOn
  <2>3. QED
    BY <1>1, <2>1, <2>2
<1> HIDE DEF n
<1>3. ASSUME NEW r \in R, NEW m \in Mutexes PROVE PassOn(r, m) \in R
  <2>1. CASE r.queue[m] = <<>>
    BY <2>1 DEF PassOn
  <2>2. CASE r.queue[m] # <<>>
    <3> DEFINE e == ReadyI(Popped(r, m), Head(r.queue[m]))
    <3>1. m \in Objects
      BY KindsOfCalls
    <3>2. Freed(r, e, m, Head(r.queue[m]))
      BY <2>2, <3>1, FirstReady
    <3> HIDE DEF e
    <3>3. e \in R
      BY <3>2 DEF Freed, Sound, Settled
    <3>4. QED
      BY <2>2, <3>3 DEF PassOn, e
  <2>3. QED
    BY <2>1, <2>2
<1>4. ASSUME NEW i \in 1..n, NEW r \in R, r \in Rs[i - 1] PROVE PassOn(r, list[i]) \in Rs[i]
  <2> DEFINE m == list[i]
             e == PassOn(r, m)
  <2>1. PassedOn(list, i - 1, r) /\ e \in R /\ m \in Mutexes /\ i \in 0..n /\ i - 1 \in Nat /\ i \in Nat
    BY <1>1, <1>3, <1>4
  <2>2. r.queue[m] = k.queue[m]
    BY <1>1, <2>1 DEF PassedOn, n
  <2>3. \A x \in Threads : (\E j \in 1..i : NextOwner(list[j]) = x)
                             <=> (\E j \in 1..(i - 1) : NextOwner(list[j]) = x) \/ NextOwner(m) = x
    <3>1. \A j : j \in 1..i <=> j \in 1..(i - 1) \/ j = i
      BY <2>1
    <3>2. QED
      BY <3>1
  <2>4. CASE k.queue[m] = <<>>
    <3>1. e = r
      BY <2>2, <2>4 DEF PassOn
    <3>2. NextOwner(m) \notin Threads
      BY <2>1, <2>4, NextOwnerIs, MtxAssumption
    <3>3. \A x \in Threads : /\ Runs(r, x) <=> Runs(k, x) \/ \E j \in 1..i : NextOwner(list[j]) = x
                             /\ ~Runs(r, x) => r.state[x] = k.state[x]
      BY <2>1, <2>3, <3>2 DEF PassedOn
    <3>4. \A j \in 1..n : j > i => r.queue[list[j]] = k.queue[list[j]]
      BY <1>1, <2>1 DEF PassedOn, n
    <3>5. PassedOn(list, i, r)
      BY <2>1, <3>3, <3>4 DEF PassedOn, n
    <3>6. QED
      BY <1>4, <2>1, <3>1, <3>5
  <2>5. CASE k.queue[m] # <<>>
    <3> DEFINE h == Head(r.queue[m])
    <3>1. e = ReadyI(Popped(r, m), h)
      BY <2>2, <2>5 DEF PassOn
    <3>2. Freed(r, e, m, h)
      BY <2>1, <2>2, <2>5, <3>1, FirstReady, KindsOfCalls
    <3>3. h = NextOwner(m)
      BY <2>2, <2>5 DEF NextOwner
    <3> HIDE DEF h, e
    <3>4. /\ e.current = r.current /\ e.prio = r.prio /\ e.vt = r.vt /\ e.u = r.u
          /\ e.queue = [r.queue EXCEPT ![m] = Tail(@)]
          /\ \A x \in Threads : /\ Runs(e, x) <=> Runs(r, x) \/ x = h
                                /\ ~Runs(e, x) => e.state[x] = r.state[x]
      BY <3>2 DEF Freed
    <3>5. \A x \in Threads : /\ Runs(e, x) <=> Runs(k, x) \/ \E j \in 1..i : NextOwner(list[j]) = x
                             /\ ~Runs(e, x) => e.state[x] = k.state[x]
      <4>1. \A x \in Threads : /\ Runs(r, x) <=> Runs(k, x) \/ \E j \in 1..(i - 1) : NextOwner(list[j]) = x
                               /\ ~Runs(r, x) => r.state[x] = k.state[x]
        BY <2>1 DEF PassedOn
      <4>2. QED
        BY <2>3, <3>3, <3>4, <4>1
    <3>6. \A j \in 1..n : j > i => e.queue[list[j]] = k.queue[list[j]]
      <4> SUFFICES ASSUME NEW j \in 1..n, j > i PROVE e.queue[list[j]] = k.queue[list[j]]
        OBVIOUS
      <4>1. list[j] # m /\ list[j] \in Objects
        BY <1>1, <2>1, KindsOfCalls
      <4>2. r.queue \in [Objects -> Seq(Threads)]
        BY <1>4, SoundIs
      <4>3. e.queue[list[j]] = r.queue[list[j]]
        BY <3>4, <4>1, <4>2
      <4>4. r.queue[list[j]] = k.queue[list[j]]
        BY <1>1, <2>1 DEF PassedOn, n
      <4>5. QED
        BY <4>3, <4>4
    <3>7. PassedOn(list, i, e)
      <4>1. e.current = k.current /\ e.prio = k.prio /\ e.vt = k.vt /\ e.u = k.u
        BY <2>1, <3>4 DEF PassedOn
      <4>2. QED
        BY <3>5, <3>6, <4>1 DEF PassedOn, n
    <3>8. QED
      BY <2>1, <3>7 DEF e
  <2>6. QED
    BY <2>4, <2>5
<1>5. PassAll(k, list) \in R /\ PassAll(k, list) \in Rs[n]
  <2> HIDE DEF R, Rs
  <2>1. \A a \in R : \A m \in Mutexes : PassOn(a, m) \in R
    BY <1>3
  <2>2. \A i \in 1..Len(list) : \A a \in R : a \in Rs[i - 1] => PassOn(a, list[i]) \in Rs[i]
    BY <1>4 DEF n
  <2>3. QED
    BY <1>1, <1>2, <2>1, <2>2, PassEach DEF n
<1>6. QED
  BY <1>1, <1>5 DEF n

LEMMA UnlockAllGives ==
    ASSUME MtxInv, InUser, NEW t, t = k.current
    PROVE  Unlocked(t, ToSet(mtxlist[t]), <<>>, UnlockAllOf(t)) /\ TopRuns(UnlockAllOf(t))
<1> DEFINE list == mtxlist[t]
           ms == ToSet(list)
           a == PassAll(k, list)
           p == realprio[t]
           b == Boosted(a, t, p)
           r == RescheduleS(b)
<1>1. /\ t \in Threads /\ Queue(list, Mutexes) /\ list \in Seq(Mutexes) /\ Sound(k) /\ Runs(k, t)
      /\ ms \subseteq Mutexes
  BY OwnList, InvFacts
<1>2. /\ Sound(a) /\ QueuesFall(a) /\ PassedOn(list, Len(list), a)
  BY <1>1, AllPassedOn
<1>3. UnlockAllOf(t) = r
  BY DEF UnlockAllOf, PassAll, Boosted
<1>4. p \in Nat \ {0}
  BY <1>1 DEF MtxInv
<1> HIDE DEF a, p, list
<1>5. a.current = t
  BY <1>2 DEF PassedOn
<1>6. /\ Sound(b) /\ QueuesFall(b) /\ Repriced(a, b, t, p) /\ b.current = t
      /\ b.state = a.state /\ b.u = a.u /\ b.queue = a.queue /\ b.vt = a.vt
  BY <1>2, <1>4, <1>5, Reweighed
<1> HIDE DEF b
<1>7. Sound(r) /\ TopRuns(r) /\ SameThreads(b, r)
  BY <1>6, Resumes DEF Sound
<1> HIDE DEF r
<1>8. QueuesFall(r) /\ r.prio = b.prio /\ r.vt = b.vt /\ r.u = b.u
  BY <1>6, <1>7 DEF SameThreads, Kept, QueuesFall
<1>9. \A x \in Threads : (\E j \in 1..Len(list) : NextOwner(list[j]) = x) <=> Handed(ms, x)
  BY <1>1, QueueSet DEF Handed
<1>10. \A x \in Threads : /\ Runs(r, x) <=> Runs(k, x) \/ Handed(ms, x)
                          /\ ~Runs(r, x) => r.state[x] = k.state[x] /\ r.u[x] = k.u[x]
  <2> SUFFICES ASSUME NEW x \in Threads
               PROVE  /\ Runs(r, x) <=> Runs(k, x) \/ Handed(ms, x)
                      /\ ~Runs(r, x) => r.state[x] = k.state[x] /\ r.u[x] = k.u[x]
    OBVIOUS
  <2>1. /\ Runs(a, x) <=> Runs(k, x) \/ Handed(ms, x)
        /\ ~Runs(a, x) => a.state[x] = k.state[x]
        /\ a.u = k.u
    BY <1>2, <1>9 DEF PassedOn
  <2>2. /\ Runs(r, x) <=> Runs(b, x)
        /\ ~Runs(b, x) => r.state[x] = b.state[x]
    BY <1>7 DEF SameThreads
  <2>3. QED
    BY <1>6, <1>8, <2>1, <2>2 DEF Runs
<1>11. HandsOn(ms, r)
  <2>1. r.vt = k.vt
    BY <1>2, <1>6, <1>8 DEF PassedOn
  <2>2. Loosed(k, r)
    BY <1>10, <2>1 DEF Loosed, Armed
  <2>3. QED
    BY <1>7, <1>10, <2>2 DEF HandsOn
<1>12. Repriced(k, r, t, p)
  <2>1. a.prio = k.prio
    BY <1>2 DEF PassedOn
  <2>2. QED
    BY <1>6, <1>8, <2>1 DEF Repriced
<1>13. Highest(p, realprio[t], k.prio, WaitingFor(<<>>), t, StillLowered(t, ms, <<>>))
  <2>1. ToSet(<<>>) = {}
    BY NothingQueued
  <2>2. WaitingFor(<<>>) = {}
    BY <2>1 DEF WaitingFor
  <2>3. QED
    BY <1>4, <2>2 DEF Highest, p
<1>14. Unlocked(t, ms, <<>>, r)
  BY <1>4, <1>8, <1>11, <1>12, <1>13 DEF Unlocked
<1>15. QED
  BY <1>3, <1>7, <1>14 DEF list

\* The last mutex locked, and the others.
LEMMA LastLocked ==
    ASSUME MtxInv, InUser, NEW t, t = k.current, mtxlist[t] # <<>>
    PROVE  LET m == Head(mtxlist[t])
               kept == Tail(mtxlist[t]) IN
           /\ m \in ToSet(mtxlist[t]) /\ m \in Mutexes /\ kept \in Seq(Mutexes)
           /\ IsInjective(kept) /\ ToSet(kept) = ToSet(mtxlist[t]) \ {m}
<1>1. Queue(mtxlist[t], Mutexes)
  BY OwnList
<1>2. QED
  BY <1>1, TailQueue DEF Queue

LEMMA UnlockKeeps ==
    ASSUME MtxInv, NEW t \in Threads, MtxUnlock(t)
    PROVE  MtxInv'
<1> DEFINE list == mtxlist[t]
           m == Head(list)
           kept == Tail(list)
           r == WakeupS(Popped(Boosted(k, t, PrioNow(t, kept)), m), Head(k.queue[m]), "OK")
<1>1. /\ InUser /\ t = k.current /\ holds[t] # <<>> /\ call' = call
      /\ k' = IF k.queue[m] = <<>> THEN k ELSE r
      /\ HandOver(t, {m}, kept) /\ holds' = [holds EXCEPT ![t] = Tail(@)]
  BY DEF MtxUnlock, Calls, Returns, UnlockedS, Boosted
<1>2. holds[t] = list /\ list # <<>> /\ DOMAIN holds = Threads
  BY <1>1, OwnList DEF MtxInv
<1>3. /\ m \in ToSet(list) /\ kept \in Seq(Mutexes)
      /\ IsInjective(kept) /\ ToSet(kept) = ToSet(list) \ {m}
  BY <1>1, <1>2, LastLocked
<1>4. holds' = [holds EXCEPT ![t] = kept]
  BY <1>1, <1>2
<1> HIDE DEF r, m, kept
<1>5. Unlocked(t, {m}, kept, k') /\ TopRuns(k')
  <2>1. CASE k.queue[m] = <<>>
    <3>1. Unlocked(t, {m}, kept, k)
      <4> DEFINE ms == {m}
      <4>1. ms \in SUBSET ToSet(list) /\ ToSet(kept) = ToSet(list) \ ms /\ \A x \in ms : k.queue[x] = <<>>
        BY <1>3, <2>1
      <4> HIDE DEF ms
      <4>2. Unlocked(t, ms, kept, k)
        BY <1>1, <1>3, <4>1, NobodyWaits
      <4>3. QED
        BY <4>2 DEF ms
    <3>2. QED
      BY <1>1, <2>1, <3>1 DEF MtxInv
  <2>2. CASE k.queue[m] # <<>>
    <3>1. Unlocked(t, {m}, kept, r) /\ TopRuns(r)
      BY <1>1, <1>3, <2>2, UnlockGives DEF r
    <3>2. QED
      BY <1>1, <2>2, <3>1
  <2>3. QED
    BY <2>1, <2>2
<1>6. /\ Sound(k') /\ QueuesFall(k') /\ CallsFit(k', call) /\ WaitedIsOwned(k', owner')
      /\ HoldsFit(k', call, mtxlist', holds') /\ Lent(k', owner', realprio, lowered')
      /\ OwnersFit(owner', mtxlist') /\ realprio' = realprio /\ lowered' \subseteq Threads
  <2> DEFINE ms == {m}
  <2>1. ms \in SUBSET ToSet(list) /\ ToSet(kept) = ToSet(list) \ ms
    BY <1>3
  <2>2. HandOver(t, ms, kept) /\ Unlocked(t, ms, kept, k')
    BY <1>1, <1>5
  <2> HIDE DEF ms
  <2>3. QED
    BY <1>1, <1>2, <1>3, <1>4, <2>1, <2>2, GaveUp
<1>7. holds' \in [Threads -> Seq(Mutexes)]
  BY <1>3, <1>4 DEF MtxInv
<1>8. QED
  BY <1>1, <1>5, <1>6, <1>7 DEF MtxInv

LEMMA UnlockAllKeeps ==
    ASSUME MtxInv, NEW t \in Threads, MtxUnlockAll(t)
    PROVE  MtxInv'
<1> DEFINE list == mtxlist[t]
           ms == ToSet(list)
<1>1. /\ InUser /\ t = k.current /\ call' = call
      /\ k' = IF list = <<>> THEN k ELSE UnlockAllOf(t)
      /\ HandOver(t, ms, <<>>) /\ holds' = [holds EXCEPT ![t] = <<>>]
  BY DEF MtxUnlockAll, Calls, Returns
<1>2. /\ <<>> \in Seq(Mutexes) /\ IsInjective(<<>>) /\ ToSet(<<>>) = {} /\ DOMAIN holds = Threads
      /\ TopRuns(k)
  BY NothingQueued DEF IsInjective, MtxInv
<1>3. Unlocked(t, ms, <<>>, k') /\ TopRuns(k')
  <2>1. CASE list = <<>>
    <3>1. ms = {}
      BY <1>2, <2>1
    <3>2. ms \in SUBSET ToSet(list) /\ ToSet(<<>>) = ToSet(list) \ ms
      BY <1>2
    <3> HIDE DEF ms, list
    <3>3. Unlocked(t, ms, <<>>, k)
      BY <1>1, <1>2, <3>1, <3>2, NobodyWaits DEF list
    <3>4. QED
      BY <1>1, <1>2, <2>1, <3>3
  <2>2. CASE list # <<>>
    BY <1>1, <2>2, UnlockAllGives
  <2>3. QED
    BY <2>1, <2>2
<1>4. ms \in SUBSET ToSet(mtxlist[t]) /\ ToSet(<<>>) = ToSet(mtxlist[t]) \ ms
  BY <1>2
<1> HIDE DEF ms
<1>5. /\ Sound(k') /\ QueuesFall(k') /\ CallsFit(k', call) /\ WaitedIsOwned(k', owner')
      /\ HoldsFit(k', call, mtxlist', holds') /\ Lent(k', owner', realprio, lowered')
      /\ OwnersFit(owner', mtxlist') /\ realprio' = realprio /\ lowered' \subseteq Threads
  BY <1>1, <1>2, <1>3, <1>4, GaveUp
<1>6. holds' \in [Threads -> Seq(Mutexes)]
  BY <1>1, <1>2 DEF MtxInv
<1>7. QED
  BY <1>1, <1>3, <1>5, <1>6 DEF MtxInv

-----------------------------------------------------------------------------
(* A thread goes on in its own code.                                        *)

LEMMA GoesOn ==
    ASSUME MtxInv, NEW t, t = k.current, call' = [call EXCEPT ![t] = User],
           Sound(k'), TopRuns(k'), QueuesFall(k'), Unmoved(k, k'),
           \A x \in Threads : Armed(k', x) => Armed(k, x) /\ x # t,
           holds' \in [Threads -> Seq(Mutexes)], holds'[t] = mtxlist'[t],
           \A x \in Threads \ {t} : holds'[x] = holds[x] /\ mtxlist'[x] = mtxlist[x],
           OwnersFit(owner', mtxlist'), WaitedIsOwned(k, owner'), realprio' = realprio,
           lowered' = lowered,
           \A x \in Threads : Waiters(k, owner', x) = Waiters(k, owner, x)
    PROVE  MtxInv'
<1>1. /\ t \in Threads /\ Runs(k, t) /\ call \in [Threads -> MtxCalls] /\ CallsFit(k, call)
      /\ realprio \in [Threads -> Nat \ {0}] /\ Lent(k, owner, realprio, lowered)
      /\ lowered \subseteq Threads
      /\ HoldsFit(k, call, mtxlist, holds)
  BY InvFacts DEF MtxInv
<1>2. /\ k'.state = k.state /\ k'.u = k.u /\ k'.queue = k.queue /\ k'.prio = k.prio
      /\ \A x \in Threads : Runs(k', x) <=> Runs(k, x)
  BY DEF Unmoved, Runs
<1>3. /\ call' \in [Threads -> MtxCalls] /\ call'[t] = User
      /\ \A x \in Threads \ {t} : call'[x] = call[x]
  BY <1>1 DEF MtxCalls
<1>4. CallsFit(k', call')
  <2>1. ASSUME NEW x \in Threads PROVE Sleeping(k', call'[x], x) /\ (Armed(k', x) => call'[x] \in CondCalls)
    BY <1>1, <1>2, <1>3 DEF CallsFit, Sleeping
  <2>2. Runs(k', Idle) /\ call'[Idle] = User
    BY <1>1, <1>2, <1>3, SchdAssumption DEF CallsFit
  <2>3. QED
    BY <1>3, <2>1, <2>2 DEF CallsFit
<1>5. WaitedIsOwned(k', owner')
  BY <1>2 DEF WaitedIsOwned
<1>6. HoldsFit(k', call', mtxlist', holds')
  <2>1. ASSUME NEW x \in Threads PROVE HeldFits(k', call'[x], mtxlist'[x], holds'[x], x)
    <3>1. CASE x = t
      BY <1>3, <3>1, KindsOfCalls DEF HeldFits
    <3>2. CASE x # t
      <4>1. HeldFits(k, call[x], mtxlist[x], holds[x], x)
        BY <1>1 DEF HoldsFit
      <4>2. /\ holds'[x] = holds[x] /\ mtxlist'[x] = mtxlist[x] /\ call'[x] = call[x]
            /\ Runs(k', x) <=> Runs(k, x)
        BY <1>2, <1>3, <3>2
      <4>3. QED
        BY <4>1, <4>2 DEF HeldFits
    <3>3. QED
      BY <3>1, <3>2
  <2>2. QED
    BY <2>1 DEF HoldsFit
<1>7. Lent(k', owner', realprio', lowered')
  <2>1. ASSUME NEW x \in Threads
        PROVE  Highest(k'.prio[x], realprio'[x], k'.prio, Waiters(k', owner', x), x, lowered')
    <3>1. Waiters(k', owner', x) = Waiters(k, owner, x)
      BY <1>2 DEF Waiters
    <3>2. QED
      BY <1>1, <1>2, <3>1 DEF Lent
  <2>2. QED
    BY <2>1 DEF Lent
<1>8. QED
  BY <1>1, <1>4, <1>5, <1>6, <1>7 DEF MtxInv

\* The state a thread goes on in when it wakes or has not slept.
LEMMA GoesOnIn ==
    ASSUME MtxInv, NEW t, t = k.current, NEW r, r = AwakeS(k) \/ (r = k /\ ~Armed(k, t))
    PROVE  /\ Sound(r) /\ TopRuns(r) /\ QueuesFall(r) /\ Unmoved(k, r)
           /\ \A x \in Threads : Armed(r, x) => Armed(k, x) /\ x # t
<1>1. Sound(k) /\ TopRuns(k) /\ QueuesFall(k)
  BY DEF MtxInv
<1>2. CASE r = k /\ ~Armed(k, t)
  BY <1>1, <1>2 DEF Unmoved
<1>3. CASE r = AwakeS(k)
  <2> DEFINE a == AwakeS(k)
  <2>1. /\ Sound(a) /\ Unmoved(k, a) /\ TopRuns(a)
        /\ \A x \in Threads : Armed(a, x) <=> (Armed(k, x) /\ x # k.current)
    BY <1>1, Awakens DEF Sound
  <2> HIDE DEF a
  <2>2. QueuesFall(a)
    BY <1>1, <2>1 DEF Unmoved, QueuesFall
  <2>3. QED
    BY <1>3, <2>1, <2>2 DEF a
<1>4. QED
  BY <1>2, <1>3

LEMMA TakesKeeps ==
    ASSUME MtxInv, NEW t, t = k.current, NEW m \in Mutexes, owner[m] = None, Takes(t, m),
           call[t] = User \/ call[t] \in CondCalls, call' = [call EXCEPT ![t] = User],
           k' = AwakeS(k) \/ (k' = k /\ ~Armed(k, t))
    PROVE  MtxInv'
<1>1. /\ t \in Threads /\ CallsFit(k, call) /\ OwnersFit(owner, mtxlist)
      /\ HoldsFit(k, call, mtxlist, holds) /\ holds \in [Threads -> Seq(Mutexes)]
      /\ WaitedIsOwned(k, owner) /\ Sound(k)
  BY InvFacts DEF MtxInv
<1>2. /\ owner \in [Mutexes -> Threads \cup {None}] /\ mtxlist \in [Threads -> Seq(Mutexes)]
      /\ \A x \in Threads : /\ IsInjective(mtxlist[x])
                            /\ \A o \in Mutexes : o \in ToSet(mtxlist[x]) <=> owner[o] = x
  BY <1>1 DEF OwnersFit
<1>3. mtxlist[t] = holds[t]
  <2>1. HeldFits(k, call[t], mtxlist[t], holds[t], t)
    BY <1>1 DEF HoldsFit
  <2>2. QED
    BY <2>1 DEF HeldFits
<1>4. /\ owner' = [owner EXCEPT ![m] = t] /\ mtxlist' = [mtxlist EXCEPT ![t] = <<m>> \o @]
      /\ holds' = [holds EXCEPT ![t] = <<m>> \o @] /\ realprio' = realprio /\ lowered' = lowered
  BY DEF Takes
<1> DEFINE n == <<m>> \o mtxlist[t]
<1>5. n \in Seq(Mutexes) /\ IsInjective(n) /\ ToSet(n) = ToSet(mtxlist[t]) \cup {m}
  <2>1. m \notin ToSet(mtxlist[t]) /\ mtxlist[t] \in Seq(Mutexes) /\ IsInjective(mtxlist[t])
    BY <1>1, <1>2, MtxAssumption
  <2>2. QED
    BY <2>1, Prefixed
<1>6. holds'[t] = n /\ mtxlist'[t] = n
  BY <1>1, <1>2, <1>3, <1>4
<1> HIDE DEF n
<1>7. /\ \A x \in Threads \ {t} : holds'[x] = holds[x] /\ mtxlist'[x] = mtxlist[x]
      /\ owner'[m] = t /\ \A o \in Mutexes \ {m} : owner'[o] = owner[o]
  BY <1>1, <1>2, <1>4
<1>8. holds' \in [Threads -> Seq(Mutexes)] /\ mtxlist' \in [Threads -> Seq(Mutexes)]
      /\ owner' \in [Mutexes -> Threads \cup {None}]
  <2>1. \A x \in Threads : holds'[x] \in Seq(Mutexes) /\ mtxlist'[x] \in Seq(Mutexes)
    BY <1>1, <1>2, <1>5, <1>6, <1>7
  <2>2. \A o \in Mutexes : owner'[o] \in Threads \cup {None}
    BY <1>1, <1>2, <1>7
  <2>3. QED
    BY <1>1, <1>2, <1>4, <2>1, <2>2
<1>9. OwnersFit(owner', mtxlist')
  <2>1. ASSUME NEW x \in Threads
        PROVE  /\ IsInjective(mtxlist'[x])
               /\ \A o \in Mutexes : o \in ToSet(mtxlist'[x]) <=> owner'[o] = x
    <3>1. CASE x = t
      <4>1. mtxlist'[x] = n /\ IsInjective(mtxlist'[x])
        BY <1>5, <1>6, <3>1
      <4>2. ASSUME NEW o \in Mutexes PROVE o \in ToSet(n) <=> owner'[o] = t
        <5>1. CASE o = m
          BY <1>5, <1>7, <5>1
        <5>2. CASE o # m
          BY <1>1, <1>2, <1>5, <1>7, <5>2
        <5>3. QED
          BY <5>1, <5>2
      <4>3. QED
        BY <3>1, <4>1, <4>2
    <3>2. CASE x # t
      <4>1. mtxlist'[x] = mtxlist[x] /\ owner[m] # x
        BY <1>7, <3>2, MtxAssumption
      <4>2. QED
        BY <1>2, <1>7, <3>2, <4>1
    <3>3. QED
      BY <3>1, <3>2
  <2>2. QED
    BY <1>8, <2>1 DEF OwnersFit
<1>10. k.queue[m] = <<>> /\ \A w : w \notin ToSet(k.queue[m])
  BY <1>1, NothingQueued DEF WaitedIsOwned
<1>11. WaitedIsOwned(k, owner')
  BY <1>1, <1>7, <1>10 DEF WaitedIsOwned
<1>12. \A x \in Threads : Waiters(k, owner', x) = Waiters(k, owner, x)
  <2> SUFFICES ASSUME NEW x \in Threads, NEW w \in Threads
               PROVE  (\E o \in Mutexes : owner'[o] = x /\ w \in ToSet(k.queue[o]))
                        <=> (\E o \in Mutexes : owner[o] = x /\ w \in ToSet(k.queue[o]))
    BY DEF Waiters
  <2>1. \A o \in Mutexes : w \in ToSet(k.queue[o]) => owner'[o] = owner[o]
    BY <1>7, <1>10
  <2>2. QED
    BY <2>1
<1>13. /\ Sound(k') /\ TopRuns(k') /\ QueuesFall(k') /\ Unmoved(k, k')
       /\ \A x \in Threads : Armed(k', x) => Armed(k, x) /\ x # t
  BY GoesOnIn
<1>14. holds'[t] = mtxlist'[t] /\ realprio' = realprio /\ lowered' = lowered
  BY <1>4, <1>6
<1>15. QED
  BY <1>7, <1>8, <1>9, <1>11, <1>12, <1>13, <1>14, GoesOn

LEMMA StutterKeeps == MtxInv /\ UNCHANGED vars => MtxInv'
<1> SUFFICES ASSUME MtxInv, UNCHANGED vars PROVE MtxInv'
  OBVIOUS
<1>1. /\ k' = k /\ call' = call /\ owner' = owner /\ mtxlist' = mtxlist
      /\ realprio' = realprio /\ holds' = holds /\ lowered' = lowered
  BY DEF vars
<1>2. Lent(k', owner', realprio', lowered')
  BY <1>1 DEF MtxInv, Lent, Waiters
<1>3. QED
  BY <1>1, <1>2 DEF MtxInv

LEMMA FreeMutexKeeps ==
    ASSUME MtxInv, NEW t, NEW m \in Mutexes, Calls(t), Returns(k), owner[m] = None, Takes(t, m)
    PROVE  MtxInv'
<1>1. InUser /\ t = k.current /\ k' = k /\ call' = call
  BY DEF Calls, Returns
<1>2. t \in Threads /\ call[t] = User /\ ~Armed(k, t)
  BY <1>1, OwnList
<1>3. call' = [call EXCEPT ![t] = User]
  BY <1>1, <1>2, InvFacts
<1>4. QED
  BY <1>1, <1>2, <1>3, TakesKeeps

LEMMA TryLockKeeps ==
    ASSUME MtxInv, NEW t, NEW m \in Mutexes, MtxTryLock(t, m)
    PROVE  MtxInv'
<1>1. CASE owner[m] = None /\ Returns(k) /\ Takes(t, m)
  BY <1>1, FreeMutexKeeps DEF MtxTryLock
<1>2. CASE owner[m] # None /\ Returns(k) /\ OwnersUnchanged /\ UNCHANGED holds
  BY <1>2, StutterKeeps DEF Returns, OwnersUnchanged, vars
<1>3. QED
  BY <1>1, <1>2 DEF MtxTryLock

\* The call a sleeping thread comes back from.
LEMMA BackFrom ==
    ASSUME MtxInv, NEW t, NEW op, IsBack(t, op)
    PROVE  /\ t = k.current /\ t \in Threads /\ Runs(k, t) /\ (t # Idle \/ op = "user")
           /\ HeldFits(k, call[t], mtxlist[t], holds[t], t)
           /\ op = "lock" => call[t] \in LockCalls
           /\ op = "cond" => call[t] \in CondCalls
<1>1. t = k.current /\ t \in Threads /\ Runs(k, t) /\ call[t] \in MtxCalls /\ call[t].op = op
  BY InvFacts DEF IsBack
<1>2. HeldFits(k, call[t], mtxlist[t], holds[t], t)
  BY <1>1 DEF MtxInv, HoldsFit
<1>3. /\ op = "lock" => call[t] \in LockCalls
      /\ op = "cond" => call[t] \in CondCalls
      /\ call[t] = User => op = "user"
  BY <1>1, KindsOfCalls DEF MtxCalls
<1>4. t # Idle \/ op = "user"
  BY <1>1, <1>3, InvFacts
<1>5. QED
  BY <1>1, <1>2, <1>3, <1>4

LEMMA LockBackKeeps ==
    ASSUME MtxInv, NEW t \in Threads, MtxLockBack(t)
    PROVE  MtxInv'
<1>1. /\ IsBack(t, "lock") /\ k' = k /\ call' = [call EXCEPT ![t] = User]
      /\ holds' = [holds EXCEPT ![t] = <<call[t].of>> \o @]
      /\ owner' = owner /\ mtxlist' = mtxlist /\ realprio' = realprio /\ lowered' = lowered
  BY DEF MtxLockBack, Sleeps, OwnersUnchanged
<1>2. /\ t = k.current /\ Runs(k, t) /\ call[t] \in LockCalls
      /\ HeldFits(k, call[t], mtxlist[t], holds[t], t)
  BY <1>1, BackFrom
<1>3. /\ OwnersFit(owner, mtxlist) /\ mtxlist \in [Threads -> Seq(Mutexes)]
      /\ holds \in [Threads -> Seq(Mutexes)] /\ CallsFit(k, call) /\ WaitedIsOwned(k, owner)
  BY InvFacts DEF MtxInv, OwnersFit
<1>4. mtxlist[t] = <<call[t].of>> \o holds[t]
  BY <1>2 DEF HeldFits
<1>5. /\ holds'[t] = mtxlist'[t] /\ holds' \in [Threads -> Seq(Mutexes)]
      /\ \A x \in Threads \ {t} : holds'[x] = holds[x] /\ mtxlist'[x] = mtxlist[x]
  BY <1>1, <1>3, <1>4
<1>6. ~Armed(k, t)
  BY <1>2, <1>3, KindsOfCalls DEF CallsFit
<1>7. /\ Sound(k') /\ TopRuns(k') /\ QueuesFall(k') /\ Unmoved(k, k')
      /\ \A x \in Threads : Armed(k', x) => Armed(k, x) /\ x # t
  BY <1>1, <1>2, <1>6, GoesOnIn
<1>8. \A x \in Threads : Waiters(k, owner', x) = Waiters(k, owner, x)
  BY <1>1
<1>9. /\ OwnersFit(owner', mtxlist') /\ WaitedIsOwned(k, owner')
      /\ t = k.current /\ call' = [call EXCEPT ![t] = User] /\ realprio' = realprio
      /\ lowered' = lowered
  BY <1>1, <1>2, <1>3
<1>10. QED
  BY <1>5, <1>7, <1>8, <1>9, GoesOn

\* The time of a thread that waited on a condition variable was over: it goes
\* on without the mutex.
LEMMA TimedOutKeeps ==
    ASSUME MtxInv, NEW t, IsBack(t, "cond"), k' = AwakeS(k), call' = [call EXCEPT ![t] = User],
           OwnersUnchanged, UNCHANGED holds
    PROVE  MtxInv'
<1>1. /\ owner' = owner /\ mtxlist' = mtxlist /\ realprio' = realprio /\ holds' = holds
      /\ lowered' = lowered
  BY DEF OwnersUnchanged
<1>2. /\ t = k.current /\ call[t] \in CondCalls /\ HeldFits(k, call[t], mtxlist[t], holds[t], t)
  BY BackFrom
<1>3. /\ OwnersFit(owner, mtxlist) /\ holds \in [Threads -> Seq(Mutexes)] /\ WaitedIsOwned(k, owner)
  BY DEF MtxInv
<1>4. mtxlist[t] = holds[t]
  BY <1>2 DEF HeldFits
<1>5. /\ Sound(k') /\ TopRuns(k') /\ QueuesFall(k') /\ Unmoved(k, k')
      /\ \A x \in Threads : Armed(k', x) => Armed(k, x) /\ x # t
  BY <1>2, GoesOnIn
<1>6. /\ OwnersFit(owner', mtxlist') /\ WaitedIsOwned(k, owner')
      /\ holds' \in [Threads -> Seq(Mutexes)] /\ holds'[t] = mtxlist'[t]
      /\ \A x \in Threads \ {t} : holds'[x] = holds[x] /\ mtxlist'[x] = mtxlist[x]
      /\ \A x \in Threads : Waiters(k, owner', x) = Waiters(k, owner, x)
  BY <1>1, <1>3, <1>4
<1>7. QED
  BY <1>1, <1>2, <1>5, <1>6, GoesOn

LEMMA SetPriorityKeeps ==
    ASSUME MtxInv, NEW t \in Threads, NEW p \in Prios, MtxSetPriority(t, p)
    PROVE  MtxInv'
<1> DEFINE v == IF k.prio[t] = realprio[t] \/ p > k.prio[t] THEN p ELSE k.prio[t]
           W == Waiters(k, owner, t)
           b == Boosted(k, k.current, v)
           r == RescheduleS(b)
<1>1. /\ InUser /\ t = k.current /\ call' = call
      /\ realprio' = [realprio EXCEPT ![t] = p]
      /\ owner' = owner /\ mtxlist' = mtxlist /\ holds' = holds
      /\ lowered' = IF /\ k.prio[t] = realprio[t] /\ p < k.prio[t]
                       /\ \E m \in ToSet(mtxlist[t]) : k.queue[m] # <<>>
                    THEN lowered \cup {t} ELSE lowered
  BY DEF MtxSetPriority, Calls, Returns
<1>4. p \in Nat \ {0} /\ Sound(k) /\ QueuesFall(k) /\ CallsFit(k, call)
  BY MtxAssumption, InvFacts
<1>20. /\ k.prio \in [Threads -> Nat \ {0}] /\ realprio \in [Threads -> Nat \ {0}]
       /\ Highest(k.prio[t], realprio[t], k.prio, W, t, lowered) /\ W \subseteq Threads
  BY <1>4, SoundIs DEF MtxInv, Lent, Waiters
<1>21. v \in Nat \ {0}
  BY <1>4, <1>20
<1>22. k' = r
  <2>1. k \in KernelStates(Notes, {})
    BY <1>4, SoundIs
  <2>2. k = [k EXCEPT !.prio[t] = k.prio[t]]
    BY <1>20, <2>1 DEF KernelStates
  <2>3. QED
    BY <1>1, <2>2 DEF MtxSetPriority, Returns, Boosted
<1>23. t \notin lowered' => t \notin lowered /\ (v >= k.prio[t] \/ W = {})
  <2> SUFFICES ASSUME t \notin lowered', ~(v >= k.prio[t]) PROVE W = {}
    BY <1>1
  <2>1. k.prio[t] = realprio[t] /\ p < k.prio[t]
    BY <1>4, <1>20
  <2>2. \A m \in ToSet(mtxlist[t]) : k.queue[m] = <<>>
    BY <1>1, <2>1
  <2>3. \A m \in Mutexes : owner[m] = t => ToSet(k.queue[m]) = {}
    BY <1>1, <2>2, OwnList, NothingQueued
  <2>4. QED
    BY <2>3 DEF Waiters
<1>24. Highest(v, p, k.prio, W, t, lowered')
  <2>1. v >= p
    BY <1>4, <1>20
  <2>2. v = p \/ \E w \in W : k.prio[w] = v
    BY <1>20 DEF Highest
  <2>3. t \in lowered' \/ \A w \in W : v >= k.prio[w]
    <3> SUFFICES ASSUME t \notin lowered', NEW w \in W PROVE v >= k.prio[w]
      OBVIOUS
    <3>1. v >= k.prio[t] /\ k.prio[t] >= k.prio[w]
      BY <1>20, <1>23 DEF Highest
    <3>2. k.prio[t] \in Nat /\ k.prio[w] \in Nat /\ v \in Nat
      BY <1>20, <1>21
    <3> HIDE DEF v
    <3>3. QED
      BY <3>1, <3>2
  <2>4. QED
    BY <2>1, <2>2, <2>3 DEF Highest
<1> HIDE DEF v, W
<1>5. /\ Sound(b) /\ QueuesFall(b) /\ Repriced(k, b, k.current, v)
      /\ b.state = k.state /\ b.u = k.u /\ b.queue = k.queue /\ b.vt = k.vt
  BY <1>4, <1>21, Reweighed
<1> HIDE DEF b
<1>6. Sound(r) /\ TopRuns(r) /\ SameThreads(b, r)
  BY <1>5, Resumes DEF Sound
<1> HIDE DEF r
<1>7. /\ r.queue = k.queue /\ r.vt = k.vt /\ r.u = k.u /\ r.prio = b.prio
      /\ \A x \in Threads : /\ Runs(r, x) <=> Runs(k, x)
                            /\ ~Runs(k, x) => r.state[x] = k.state[x]
  BY <1>5, <1>6 DEF SameThreads, Kept, Runs
<1>8. QueuesFall(r)
  BY <1>5, <1>7 DEF QueuesFall
<1>9. Loosed(k, r)
  BY <1>7 DEF Loosed, Armed
<1>10. CallsFit(r, call)
  BY <1>4, <1>9, CallsStay, SchdAssumption
<1>11. WaitedIsOwned(r, owner) /\ HoldsFit(r, call, mtxlist, holds)
  <2>1. ASSUME NEW x \in Threads PROVE HeldFits(r, call[x], mtxlist[x], holds[x], x)
    <3>1. HeldFits(k, call[x], mtxlist[x], holds[x], x)
      BY DEF MtxInv, HoldsFit
    <3>2. QED
      BY <1>7, <3>1 DEF HeldFits
  <2>2. QED
    BY <1>7, <2>1 DEF MtxInv, WaitedIsOwned, HoldsFit
<1>12. /\ realprio \in [Threads -> Nat \ {0}] /\ realprio' \in [Threads -> Nat \ {0}]
       /\ realprio'[t] = p /\ \A x \in Threads \ {t} : realprio'[x] = realprio[x]
  BY <1>1, <1>4 DEF MtxInv
<1>13. r.prio[t] = v /\ \A x \in Threads \ {t} : r.prio[x] = k.prio[x]
  BY <1>1, <1>5, <1>7 DEF Repriced
<1>14. \A m \in Objects : t \notin ToSet(k.queue[m])
  BY <1>1, <1>4, SoundIs DEF ThreadPlaced, WaitStates
<1>15. Lent(r, owner, realprio', lowered')
  <2>1. ASSUME NEW x \in Threads
        PROVE  Highest(r.prio[x], realprio'[x], r.prio, Waiters(r, owner, x), x, lowered')
    <3>1. Waiters(r, owner, x) = Waiters(k, owner, x)
      BY <1>7 DEF Waiters
    <3>2. \A w \in Waiters(k, owner, x) : w \in Threads \ {t} /\ r.prio[w] = k.prio[w]
      BY <1>13, <1>14, KindsOfCalls DEF Waiters
    <3>3. CASE x = t
      BY <1>12, <1>13, <1>24, <3>1, <3>2, <3>3 DEF Highest, W
    <3>4. CASE x # t
      <4>1. Highest(k.prio[x], realprio[x], k.prio, Waiters(k, owner, x), x, lowered)
        BY DEF MtxInv, Lent
      <4>2. x \in lowered' <=> x \in lowered
        BY <1>1, <3>4
      <4>3. QED
        BY <1>12, <1>13, <3>1, <3>2, <3>4, <4>1, <4>2 DEF Highest
    <3>5. QED
      BY <3>3, <3>4
  <2>2. QED
    BY <2>1 DEF Lent
<1>16. owner' = owner /\ mtxlist' = mtxlist /\ holds' = holds /\ call' = call
  BY <1>1
<1>17. OwnersFit(owner, mtxlist) /\ holds \in [Threads -> Seq(Mutexes)]
  BY DEF MtxInv
<1>18. realprio' \in [Threads -> Nat \ {0}] /\ lowered' \subseteq Threads
  BY <1>1, <1>12 DEF MtxInv
<1>19. QED
  BY <1>22, <1>6, <1>8, <1>10, <1>11, <1>15, <1>16, <1>17, <1>18 DEF MtxInv

-----------------------------------------------------------------------------
(* The running thread goes to sleep in a queue.                             *)

\* It takes its place in the queue of o.
Joins(s, o) == [s EXCEPT !.queue[o] = PrioInsert(@, s.current, s.prio), !.u[s.current] = o]

Joined(s, r, new, o) ==
    /\ Sound(r) /\ TopRuns(r) /\ QueuesFall(r) /\ Asleep(s, r, new, o)
    /\ \A y \in Objects : \A w \in Threads :
          w \in ToSet(r.queue[y]) <=> w \in ToSet(s.queue[y]) \/ (y = o /\ w = s.current)

LEMMA SleepsInQueue ==
    ASSUME NEW s, Sound(s), QueuesFall(s), s.ready # <<>>, ~Armed(s, s.current),
           NEW o \in Objects, NEW new \in WaitStates,
           NEW time, time = Infinite \/ time \in Nat \ {0}
    PROVE  LET r == GoSleepTimeoutS(Joins(s, o), new, time) IN
           Joined(s, r, new, o) /\ (time = Infinite => r.vt = s.vt)
<1> DEFINE c == s.current
           q == PrioInsert(s.queue[o], c, s.prio)
           m == Joins(s, o)
           r == GoSleepTimeoutS(m, new, time)
<1>1. /\ s \in KernelStates(Notes, {}) /\ QueuesSound(s) /\ ThreadPlaced(s, c)
      /\ c \in Threads /\ s.prio \in [Threads -> Nat \ {0}] /\ s.state[c] = "CURRENT"
      /\ s.queue \in [Objects -> Seq(Threads)] /\ s.u \in [Threads -> Notes]
      /\ Settled(Notes, {}, s)
  BY SoundIs DEF Sound
<1>2. \A x \in Objects : c \notin ToSet(s.queue[x])
  BY <1>1 DEF ThreadPlaced, WaitStates
<1>3. Queue(q, Threads) /\ ToSet(q) = ToSet(s.queue[o]) \cup {c} /\ Falling(q, s.prio)
  <2>1. Queue(s.queue[o], Threads) /\ Falling(s.queue[o], s.prio) /\ s.queue[o] \in Seq(Threads)
    BY <1>1 DEF QueuesSound, QueuesFall
  <2>2. s.prio \in [Threads -> Nat]
    BY <1>1
  <2>3. QED
    BY <1>1, <1>2, <2>1, <2>2, PrioInsertedQueue, PrioInsertedFalling
<1>4. /\ m \in KernelStates(Notes, {})
      /\ m.queue = [s.queue EXCEPT ![o] = q] /\ m.u = [s.u EXCEPT ![c] = o]
      /\ m.current = s.current /\ m.ready = s.ready /\ m.state = s.state /\ m.prio = s.prio
      /\ m.vt = s.vt /\ m.due = s.due
  <2> DEFINE qs == [s.queue EXCEPT ![o] = q]
             us == [s.u EXCEPT ![c] = o]
  <2>1. qs \in [Objects -> Seq(Threads)]
    BY <1>1, <1>3 DEF Queue
  <2>2. us \in [Threads -> Notes]
    BY <1>1 DEF Notes
  <2>3. m = [s EXCEPT !.queue = qs, !.u = us]
    BY <1>1 DEF Joins, KernelStates
  <2> HIDE DEF qs, us, m, q, c
  <2>4. m \in KernelStates(Notes, {}) /\ m.queue = qs /\ m.u = us
        /\ m.current = s.current /\ m.ready = s.ready /\ m.state = s.state /\ m.prio = s.prio
        /\ m.vt = s.vt /\ m.due = s.due
    BY <1>1, <2>1, <2>2, <2>3 DEF KernelStates
  <2>5. QED
    BY <2>4 DEF qs, us
<1> HIDE DEF m, q
<1>5. m.queue[o] = q /\ \A y \in Objects \ {o} : m.queue[y] = s.queue[y]
  BY <1>1, <1>4
<1>6. QueuesSound(m)
  <2>1. Queue(s.ready, Threads) /\ \A y \in Objects : Queue(s.queue[y], Threads)
    BY <1>1 DEF QueuesSound
  <2>2. QED
    BY <1>3, <1>4, <1>5, <2>1 DEF QueuesSound
<1>7. \A y \in Objects : \A w \in Threads :
          w \in ToSet(m.queue[y]) <=> w \in ToSet(s.queue[y]) \/ (y = o /\ w = c)
  BY <1>3, <1>5
<1>8. AboutToSleep(s, m, new, o)
  BY <1>1, <1>2, <1>4, <1>6, <1>7 DEF AboutToSleep
<1>9. new \in States \ Runnable /\ o \in Notes
  BY DEF States, WaitStates, Runnable, Notes
<1>10. Settled(Notes, {}, r) /\ TopRuns(r) /\ Asleep(s, r, new, o) /\ r.queue = m.queue
  BY <1>1, <1>4, <1>8, <1>9, SleepPlaces
<1>11. time = Infinite => r.vt = s.vt
  BY <1>4 DEF GoSleepTimeoutS, GoSleepS, TakeFirst
<1> HIDE DEF r
<1>12. r.prio = s.prio
  BY <1>10 DEF Asleep
<1>13. QueuesFall(r)
  <2>1. \A y \in Objects : Falling(m.queue[y], s.prio)
    BY <1>3, <1>5 DEF QueuesFall
  <2>2. QED
    BY <1>10, <1>12, <2>1 DEF QueuesFall
<1>14. Joined(s, r, new, o)
  BY <1>7, <1>10, <1>13 DEF Joined, Sound
<1>15. QED
  BY <1>11, <1>14 DEF r, m

\* The running thread of s sleeps for the mutex m, and lent its priority.
Blocked(s, r, m) ==
    /\ Sound(r) /\ TopRuns(r) /\ QueuesFall(r) /\ Lent(r, owner, realprio, lowered)
    /\ Asleep([s EXCEPT !.prio = r.prio], r, "WTMTX", m) /\ r.vt = s.vt
    /\ \A y \in Objects : \A w \in Threads :
          w \in ToSet(r.queue[y]) <=> w \in ToSet(s.queue[y]) \/ (y = m /\ w = s.current)

LEMMA LockBlocks ==
    ASSUME NEW s, WaitsFit(s), Lent(s, owner, realprio, lowered), NEW m \in Mutexes,
           s.ready # <<>>, ~Armed(s, s.current)
    PROVE  Blocked(s, LockS(s, s.current, m), m)
<1> DEFINE c == s.current
           l == Inherit(s, c, m)
           r == GoSleepTimeoutS(Joins(l, m), "WTMTX", Infinite)
<1>1. /\ Sound(l) /\ QueuesFall(l) /\ Alike(s, l)
      /\ \A y \in Threads : Highest(l.prio[y], realprio[y], l.prio, WaitersToo(s, m)[y], y, lowered)
  BY Inherits
<1> HIDE DEF l
<1>2. /\ l.current = c /\ l.state = s.state /\ l.u = s.u /\ l.vt = s.vt
      /\ ToSet(l.ready) = ToSet(s.ready)
      /\ \A o \in Objects : ToSet(l.queue[o]) = ToSet(s.queue[o])
  BY <1>1 DEF Alike
<1>3. LockS(s, c, m) = r
  BY <1>2 DEF LockS, Joins, GoSleepTimeoutS, l
<1>4. l.ready # <<>> /\ ~Armed(l, l.current) /\ c \in Threads
  <2>1. s.ready \in Seq(Threads) /\ l.ready \in Seq(Threads) /\ c \in Threads
    BY <1>1, SoundIs DEF WaitsFit
  <2>2. l.ready # <<>>
    BY <1>2, <2>1, QueueSet
  <2>3. QED
    BY <1>2, <2>1, <2>2 DEF Armed
<1>5. m \in Objects /\ "WTMTX" \in WaitStates
  BY KindsOfCalls DEF WaitStates
<1>6. Joined(l, r, "WTMTX", m) /\ r.vt = l.vt
  <2>1. Infinite = Infinite \/ Infinite \in Nat \ {0}
    OBVIOUS
  <2>2. QED
    BY <1>1, <1>4, <1>5, <2>1, SleepsInQueue
<1> HIDE DEF r
<1>7. Sound(r) /\ TopRuns(r) /\ QueuesFall(r) /\ Asleep(l, r, "WTMTX", m)
  BY <1>6 DEF Joined
<1>8. \A y \in Objects : \A w \in Threads :
          w \in ToSet(r.queue[y]) <=> w \in ToSet(s.queue[y]) \/ (y = m /\ w = c)
  BY <1>2, <1>6 DEF Joined
<1>9. Asleep([s EXCEPT !.prio = r.prio], r, "WTMTX", m)
  <2> DEFINE z == [s EXCEPT !.prio = r.prio]
  <2>1. z.current = c /\ z.state = s.state /\ z.u = s.u /\ z.vt = s.vt /\ z.prio = r.prio
    BY SoundIs DEF WaitsFit, KernelStates
  <2> HIDE DEF z
  <2>2. Asleep(z, r, "WTMTX", m)
    BY <1>2, <1>7, <2>1 DEF Asleep, Runs, Armed
  <2>3. QED
    BY <2>2 DEF z
<1>10. r.prio = l.prio /\ r.vt = s.vt
  BY <1>2, <1>6, <1>7 DEF Asleep
<1>11. Lent(r, owner, realprio, lowered)
  <2>1. ASSUME NEW x \in Threads
        PROVE  Highest(r.prio[x], realprio[x], r.prio, Waiters(r, owner, x), x, lowered)
    <3>1. WaitersToo(s, m)[x] = Waiters(s, owner, x) \cup (IF owner[m] = x THEN {c} ELSE {})
      BY DEF WaitersToo
    <3>2. \A w \in Threads : w \in Waiters(r, owner, x) <=> w \in WaitersToo(s, m)[x]
      <4>1. \A y \in Mutexes : y \in Objects
        BY KindsOfCalls
      <4>2. QED
        BY <1>4, <1>8, <3>1, <4>1 DEF Waiters
    <3>3. Waiters(r, owner, x) = WaitersToo(s, m)[x]
      <4>1. Waiters(r, owner, x) \subseteq Threads /\ WaitersToo(s, m)[x] \subseteq Threads
        BY <1>4, <3>1 DEF Waiters
      <4>2. QED
        BY <3>2, <4>1
    <3>4. QED
      BY <1>1, <1>10, <3>3
  <2>2. QED
    BY <2>1 DEF Lent
<1>12. QED
  BY <1>3, <1>7, <1>8, <1>9, <1>10, <1>11 DEF Blocked

\* The running thread asks for a mutex that it does not own.
LEMMA AsksKeeps ==
    ASSUME MtxInv, NEW t, t = k.current, t # Idle, NEW m \in Mutexes, owner[m] # None,
           m \notin ToSet(holds[t]), call[t] = User \/ call[t] \in CondCalls,
           NEW s, s = AwakeS(k) \/ (s = k /\ ~Armed(k, t)), k' = LockS(s, t, m),
           call' = [call EXCEPT ![t] = [op |-> "lock", of |-> m]],
           OwnersUnchanged, UNCHANGED holds
    PROVE  MtxInv'
<1>1. /\ t \in Threads /\ CallsFit(k, call) /\ call \in [Threads -> MtxCalls] /\ WaitsFit(k)
      /\ HoldsFit(k, call, mtxlist, holds) /\ WaitedIsOwned(k, owner)
      /\ Lent(k, owner, realprio, lowered) /\ k.ready # <<>> /\ Runs(k, t)
  BY InvFacts DEF MtxInv
<1>2. /\ Sound(s) /\ QueuesFall(s) /\ Unmoved(k, s)
      /\ \A x \in Threads : Armed(s, x) => Armed(k, x) /\ x # t
  BY GoesOnIn
<1>3. /\ s.current = t /\ s.ready = k.ready /\ s.state = k.state /\ s.u = k.u
      /\ s.queue = k.queue /\ s.prio = k.prio
      /\ \A x \in Threads : Runs(s, x) <=> Runs(k, x)
  BY <1>2 DEF Unmoved, Runs
<1>4. WaitsFit(s) /\ Lent(s, owner, realprio, lowered)
  BY <1>1, <1>2, <1>3 DEF WaitsFit, Sleeping, WaitedIsOwned, Lent, Waiters
<1>5. Blocked(s, k', m)
  BY <1>1, <1>2, <1>3, <1>4, LockBlocks
<1>6. /\ Sound(k') /\ TopRuns(k') /\ QueuesFall(k') /\ Lent(k', owner, realprio, lowered)
      /\ \A y \in Objects : \A w \in Threads :
            w \in ToSet(k'.queue[y]) <=> w \in ToSet(k.queue[y]) \/ (y = m /\ w = t)
  BY <1>3, <1>5 DEF Blocked
<1>7. /\ k'.u[t] = m /\ k'.state[t] = "WTMTX" /\ ~Runs(k', t)
      /\ \A x \in Threads \ {t} : /\ k'.u[x] = k.u[x] /\ (Runs(k', x) <=> Runs(k, x))
                                  /\ ~Runs(k', x) => k'.state[x] = k.state[x]
      /\ \A x \in Threads : Armed(k', x) => Armed(k, x) /\ x # t
  <2> DEFINE z == [s EXCEPT !.prio = k'.prio]
  <2>1. z.current = t /\ z.state = k.state /\ z.u = k.u
    BY <1>2, <1>3, SoundIs DEF KernelStates
  <2>2. Asleep(z, k', "WTMTX", m) /\ k'.vt = s.vt
    BY <1>5 DEF Blocked
  <2> HIDE DEF z
  <2>3. k.u \in [Threads -> Notes]
    BY <1>1, SoundIs DEF WaitsFit
  <2>4. k'.u[t] = m /\ k'.state[t] = "WTMTX" /\ \A x \in Threads \ {t} : k'.u[x] = k.u[x]
    BY <1>1, <2>1, <2>2, <2>3 DEF Asleep
  <2>5. \A x \in Threads : /\ Runs(k', x) <=> Runs(k, x) /\ x # t
                           /\ x # t /\ ~Runs(k', x) => k'.state[x] = k.state[x]
    BY <2>1, <2>2 DEF Asleep, Runs
  <2>6. \A x \in Threads : Armed(k', x) => Armed(k, x) /\ x # t
    BY <1>2, <2>2 DEF Armed
  <2>7. QED
    BY <1>1, <2>4, <2>5, <2>6
<1>8. /\ call' \in [Threads -> MtxCalls] /\ call'[t] = [op |-> "lock", of |-> m]
      /\ call'[t] \in LockCalls /\ call'[t].of = m
      /\ \A x \in Threads \ {t} : call'[x] = call[x]
  BY <1>1, KindsOfCalls DEF MtxCalls
<1>9. CallsFit(k', call')
  <2>1. ASSUME NEW x \in Threads
        PROVE  Sleeping(k', call'[x], x) /\ (Armed(k', x) => call'[x] \in CondCalls)
    <3>1. CASE x = t
      BY <1>7, <1>8, <3>1 DEF Sleeping
    <3>2. CASE x # t
      <4>1. Sleeping(k, call[x], x) /\ (Armed(k, x) => call[x] \in CondCalls)
        BY <1>1 DEF CallsFit
      <4>2. QED
        BY <1>7, <1>8, <3>2, <4>1 DEF Sleeping
    <3>3. QED
      BY <3>1, <3>2
  <2>2. Runs(k', Idle) /\ call'[Idle] = User
    BY <1>1, <1>7, <1>8, SchdAssumption DEF CallsFit
  <2>3. QED
    BY <1>8, <2>1, <2>2 DEF CallsFit
<1>10. /\ owner' = owner /\ mtxlist' = mtxlist /\ realprio' = realprio /\ holds' = holds
       /\ lowered' = lowered
  BY DEF OwnersUnchanged
<1>11. WaitedIsOwned(k', owner)
  <2> SUFFICES ASSUME NEW y \in Mutexes, k'.queue[y] # <<>> PROVE owner[y] # None
    BY DEF WaitedIsOwned
  <2>1. CASE y = m
    BY <2>1
  <2>2. CASE y # m
    <3>1. /\ y \in Objects /\ k'.queue[y] \in Seq(Threads) /\ k.queue[y] \in Seq(Threads)
      BY <1>1, <1>6, SoundIs, KindsOfCalls DEF WaitsFit
    <3>2. PICK w \in Threads : w \in ToSet(k'.queue[y])
      BY <3>1, QueueSet
    <3>3. k.queue[y] # <<>>
      BY <1>6, <2>2, <3>1, <3>2, QueueSet
    <3>4. QED
      BY <1>1, <3>3 DEF WaitedIsOwned
  <2>3. QED
    BY <2>1, <2>2
<1>12. HoldsFit(k', call', mtxlist, holds)
  <2>1. ASSUME NEW x \in Threads PROVE HeldFits(k', call'[x], mtxlist[x], holds[x], x)
    <3>1. HeldFits(k, call[x], mtxlist[x], holds[x], x)
      BY <1>1 DEF HoldsFit
    <3>2. CASE x = t
      BY <1>7, <1>8, <3>1, <3>2, KindsOfCalls DEF HeldFits
    <3>3. CASE x # t
      BY <1>7, <1>8, <3>1, <3>3 DEF HeldFits
    <3>4. QED
      BY <3>2, <3>3
  <2>2. QED
    BY <2>1 DEF HoldsFit
<1>13. /\ OwnersFit(owner, mtxlist) /\ holds \in [Threads -> Seq(Mutexes)]
       /\ realprio \in [Threads -> Nat \ {0}]
  BY DEF MtxInv
<1>14. QED
  BY <1>6, <1>9, <1>10, <1>11, <1>12, <1>13 DEF MtxInv

LEMMA LockKeeps ==
    ASSUME MtxInv, NEW t, NEW m \in Mutexes, MtxLock(t, m)
    PROVE  MtxInv'
<1>1. InUser /\ t = k.current /\ t # Idle /\ Calls(t)
  BY DEF MtxLock, Calls
<1>2. CASE owner[m] = None /\ Returns(k) /\ Takes(t, m)
  BY <1>1, <1>2, FreeMutexKeeps
<1>3. CASE owner[m] # None /\ Sleeps(t, LockS(k, t, m), [op |-> "lock", of |-> m])
           /\ OwnersUnchanged /\ UNCHANGED holds
  <2>1. k' = LockS(k, t, m) /\ call' = [call EXCEPT ![t] = [op |-> "lock", of |-> m]]
    BY <1>3 DEF Sleeps
  <2>2. call[t] = User /\ ~Armed(k, t) /\ holds[t] \in Seq(Mutexes)
    BY <1>1, OwnList
  <2>3. m \notin ToSet(holds[t])
    <3> SUFFICES ASSUME m \in ToSet(holds[t]) PROVE FALSE
      OBVIOUS
    <3>1. PICK i \in DOMAIN holds[t] : holds[t][i] = m
      BY DEF ToSet
    <3>2. Rank[m] < Rank[m]
      BY <3>1 DEF MtxLock
    <3>3. Rank[m] \in Nat
      BY MtxAssumption
    <3>4. QED
      BY <3>2, <3>3
  <2>4. QED
    BY <1>1, <1>3, <2>1, <2>2, <2>3, AsksKeeps
<1>4. QED
  BY <1>2, <1>3 DEF MtxLock

LEMMA CondBackKeeps ==
    ASSUME MtxInv, NEW t \in Threads, CondWaitBack(t)
    PROVE  MtxInv'
<1> DEFINE s == AwakeS(k)
           m == call[t].of
<1>1. /\ IsBack(t, "cond") /\ t = k.current /\ call[t] \in CondCalls /\ t # Idle
      /\ HeldFits(k, call[t], mtxlist[t], holds[t], t)
  BY BackFrom DEF CondWaitBack
<1>2. m \in Mutexes /\ m \notin ToSet(holds[t])
  BY <1>1, KindsOfCalls DEF HeldFits
<1>3. CASE k.u[t] = "TIMEOUT" /\ Sleeps(t, s, User) /\ OwnersUnchanged /\ UNCHANGED holds
  BY <1>1, <1>3, TimedOutKeeps DEF Sleeps
<1>4. CASE k.u[t] # "TIMEOUT" /\ owner[m] = None /\ Sleeps(t, s, User) /\ Takes(t, m)
  <2> HIDE DEF m
  <2>1. k' = s /\ call' = [call EXCEPT ![t] = User]
    BY <1>4 DEF Sleeps
  <2>2. QED
    BY <1>1, <1>2, <1>4, <2>1, TakesKeeps
<1>5. CASE /\ k.u[t] # "TIMEOUT" /\ owner[m] # None
           /\ Sleeps(t, LockS(s, t, m), [op |-> "lock", of |-> m])
           /\ OwnersUnchanged /\ UNCHANGED holds
  <2> HIDE DEF m
  <2>1. k' = LockS(s, t, m) /\ call' = [call EXCEPT ![t] = [op |-> "lock", of |-> m]]
    BY <1>5 DEF Sleeps
  <2>2. QED
    BY <1>1, <1>2, <1>5, <2>1, AsksKeeps
<1>6. QED
  BY <1>3, <1>4, <1>5 DEF CondWaitBack

\* The running thread has given up the mutex m and waits on c.
LEMMA WaitsKeeps ==
    ASSUME MtxInv, InUser, NEW t, t = k.current, t # Idle, NEW m \in Mutexes, NEW c \in Conds,
           NEW s, Sound(s), QueuesFall(s), s.current = t, ~Armed(s, t),
           CallsFit(s, call), WaitedIsOwned(s, owner'), HoldsFit(s, call, mtxlist', holds'),
           Lent(s, owner', realprio, lowered'), OwnersFit(owner', mtxlist'), realprio' = realprio,
           lowered' \subseteq Threads,
           holds' \in [Threads -> Seq(Mutexes)], m \notin ToSet(holds'[t]),
           NEW time, time = Infinite \/ time \in Nat \ {0},
           k' = GoSleepTimeoutS(Joins(s, c), "WTCOND", time),
           call' = [call EXCEPT ![t] = [op |-> "cond", of |-> m]]
    PROVE  MtxInv'
<1>1. /\ t \in Threads /\ call[t] = User /\ call \in [Threads -> MtxCalls]
      /\ realprio \in [Threads -> Nat \ {0}]
  BY OwnList, InvFacts DEF MtxInv
<1>2. s.ready # <<>> /\ s.u \in [Threads -> Notes] /\ s.queue \in [Objects -> Seq(Threads)]
  <2>1. /\ s.ready \in Seq(Threads) /\ ThreadPlaced(s, Idle) /\ Runs(s, Idle)
        /\ s.u \in [Threads -> Notes] /\ s.queue \in [Objects -> Seq(Threads)]
    BY SoundIs, SchdAssumption DEF CallsFit
  <2>2. Idle \in ToSet(s.ready)
    BY <2>1 DEF ThreadPlaced, Runs, Runnable
  <2>3. QED
    BY <2>1, <2>2, QueueSet
<1>3. c \in Objects /\ "WTCOND" \in WaitStates /\ \A y \in Mutexes : y \in Objects /\ y # c
  BY KindsOfCalls DEF WaitStates
<1>4. Joined(s, k', "WTCOND", c)
  BY <1>2, <1>3, SleepsInQueue
<1>5. /\ Sound(k') /\ TopRuns(k') /\ QueuesFall(k') /\ Asleep(s, k', "WTCOND", c)
      /\ \A y \in Mutexes : \A w \in Threads : w \in ToSet(k'.queue[y]) <=> w \in ToSet(s.queue[y])
  BY <1>3, <1>4 DEF Joined
<1>6. /\ k'.u[t] = c /\ k'.state[t] = "WTCOND" /\ k'.prio = s.prio
      /\ \A x \in Threads \ {t} : /\ k'.u[x] = s.u[x] /\ (Runs(k', x) <=> Runs(s, x))
                                  /\ ~Runs(k', x) => k'.state[x] = s.state[x]
                                  /\ Armed(k', x) => Armed(s, x)
  BY <1>1, <1>2, <1>5 DEF Asleep
<1>7. /\ call' \in [Threads -> MtxCalls] /\ call'[t] = [op |-> "cond", of |-> m]
      /\ call'[t] \in CondCalls /\ call'[t].of = m
      /\ \A x \in Threads \ {t} : call'[x] = call[x]
  BY <1>1, KindsOfCalls DEF MtxCalls
<1>8. CallsFit(k', call')
  <2>1. ASSUME NEW x \in Threads
        PROVE  Sleeping(k', call'[x], x) /\ (Armed(k', x) => call'[x] \in CondCalls)
    <3>1. CASE x = t
      BY <1>6, <1>7, <3>1 DEF Sleeping
    <3>2. CASE x # t
      <4>1. Sleeping(s, call[x], x) /\ (Armed(s, x) => call[x] \in CondCalls)
        BY DEF CallsFit
      <4>2. QED
        BY <1>6, <1>7, <3>2, <4>1 DEF Sleeping
    <3>3. QED
      BY <3>1, <3>2
  <2>2. Runs(k', Idle) /\ call'[Idle] = User
    BY <1>6, <1>7, SchdAssumption DEF CallsFit
  <2>3. QED
    BY <1>7, <2>1, <2>2 DEF CallsFit
<1>9. \A y \in Mutexes : ToSet(k'.queue[y]) = ToSet(s.queue[y]) /\ (k'.queue[y] # <<>> => s.queue[y] # <<>>)
  <2> SUFFICES ASSUME NEW y \in Mutexes
               PROVE  ToSet(k'.queue[y]) = ToSet(s.queue[y]) /\ (k'.queue[y] # <<>> => s.queue[y] # <<>>)
    OBVIOUS
  <2>1. k'.queue[y] \in Seq(Threads) /\ s.queue[y] \in Seq(Threads)
    BY <1>2, <1>3, <1>5, SoundIs
  <2>2. ToSet(k'.queue[y]) \subseteq Threads /\ ToSet(s.queue[y]) \subseteq Threads
    BY <2>1, QueueSet
  <2>3. ToSet(k'.queue[y]) = ToSet(s.queue[y])
    BY <1>5, <2>2
  <2>4. QED
    BY <2>1, <2>3, QueueSet
<1>10. WaitedIsOwned(k', owner')
  BY <1>9 DEF WaitedIsOwned
<1>11. HoldsFit(k', call', mtxlist', holds')
  <2>1. ASSUME NEW x \in Threads PROVE HeldFits(k', call'[x], mtxlist'[x], holds'[x], x)
    <3>1. HeldFits(s, call[x], mtxlist'[x], holds'[x], x)
      BY DEF HoldsFit
    <3>2. CASE x = t
      <4>1. mtxlist'[t] = holds'[t] /\ holds'[t] \in Seq(Mutexes)
        BY <1>1, <3>1, <3>2 DEF HeldFits
      <4>2. QED
        BY <1>7, <3>2, <4>1, KindsOfCalls DEF HeldFits
    <3>3. CASE x # t
      BY <1>6, <1>7, <3>1, <3>3 DEF HeldFits
    <3>4. QED
      BY <3>2, <3>3
  <2>2. QED
    BY <2>1 DEF HoldsFit
<1>12. Lent(k', owner', realprio, lowered')
  <2>1. \A x \in Threads : Waiters(k', owner', x) = Waiters(s, owner', x)
    BY <1>9 DEF Waiters
  <2>2. QED
    BY <1>6, <2>1 DEF Lent
<1>13. QED
  BY <1>1, <1>5, <1>8, <1>10, <1>11, <1>12 DEF MtxInv

LEMMA CondSleepKeeps ==
    ASSUME MtxInv, NEW t \in Threads, NEW c \in Conds, NEW time,
           time = Infinite \/ time \in Nat \ {0}, CondSleep(t, c, time)
    PROVE  MtxInv'
<1> DEFINE list == mtxlist[t]
           m == Head(list)
           kept == Tail(list)
           r == Readied(t, m, kept)
           s == IF k.queue[m] = <<>> THEN k ELSE r
           wait == [s EXCEPT !.u[t] = c, !.queue[c] = PrioInsert(@, t, s.prio)]
<1>1. /\ InUser /\ t = k.current /\ t # Idle /\ holds[t] # <<>>
      /\ k' = GoSleepTimeoutS(wait, "WTCOND", time)
      /\ call' = [call EXCEPT ![t] = [op |-> "cond", of |-> m]]
      /\ HandOver(t, {m}, kept) /\ holds' = [holds EXCEPT ![t] = Tail(@)]
  BY DEF CondSleep, Calls, Sleeps, UnlockedS, Boosted, Readied
<1>2. holds[t] = list /\ list # <<>> /\ DOMAIN holds = Threads /\ ~Armed(k, t)
  BY <1>1, OwnList DEF MtxInv
<1>3. /\ m \in ToSet(list) /\ m \in Mutexes /\ kept \in Seq(Mutexes)
      /\ IsInjective(kept) /\ ToSet(kept) = ToSet(list) \ {m}
  BY <1>1, <1>2, LastLocked
<1>4. holds' = [holds EXCEPT ![t] = kept]
  BY <1>1, <1>2
<1>5. holds' \in [Threads -> Seq(Mutexes)] /\ m \notin ToSet(holds'[t])
  BY <1>3, <1>4 DEF MtxInv
<1> HIDE DEF r, m, kept
<1>6. Unlocked(t, {m}, kept, s) /\ s.current = t /\ s.vt = k.vt
  <2>1. CASE k.queue[m] = <<>>
    <3> DEFINE ms == {m}
    <3>1. ms \in SUBSET ToSet(list) /\ ToSet(kept) = ToSet(list) \ ms /\ \A x \in ms : k.queue[x] = <<>>
      BY <1>3, <2>1
    <3> HIDE DEF ms
    <3>2. Unlocked(t, ms, kept, k)
      BY <1>1, <1>3, <3>1, NobodyWaits
    <3>3. QED
      BY <1>1, <2>1, <3>2 DEF ms
  <2>2. CASE k.queue[m] # <<>>
    <3>1. InUser /\ t = k.current
      BY <1>1
    <3> HIDE DEF s, wait
    <3>2. /\ m \in ToSet(mtxlist[t]) /\ kept \in Seq(Mutexes)
          /\ ToSet(kept) = ToSet(mtxlist[t]) \ {m}
      BY <1>3
    <3> HIDE DEF list
    <3>3. Unlocked(t, {m}, kept, r) /\ r.current = t /\ r.vt = k.vt
      BY <2>2, <3>1, <3>2, UnlockGives DEF r
    <3>4. QED
      BY <2>2, <3>3 DEF s
  <2>3. QED
    BY <2>1, <2>2
<1>7. wait = Joins(s, c)
  <2>1. s \in KernelStates(Notes, {})
    BY <1>6, SoundIs DEF Unlocked, HandsOn
  <2> HIDE DEF s
  <2>2. QED
    BY <1>6, <2>1 DEF Joins, KernelStates
<1> HIDE DEF s
<1>8. /\ Sound(s) /\ QueuesFall(s) /\ CallsFit(s, call) /\ WaitedIsOwned(s, owner')
      /\ HoldsFit(s, call, mtxlist', holds') /\ Lent(s, owner', realprio, lowered')
      /\ OwnersFit(owner', mtxlist') /\ realprio' = realprio /\ lowered' \subseteq Threads
  <2> DEFINE ms == {m}
  <2>1. ms \in SUBSET ToSet(list) /\ ToSet(kept) = ToSet(list) \ ms
    BY <1>3
  <2>2. HandOver(t, ms, kept) /\ Unlocked(t, ms, kept, s)
    BY <1>1, <1>6
  <2> HIDE DEF ms
  <2>3. QED
    BY <1>1, <1>2, <1>3, <1>4, <2>1, <2>2, GaveUp
<1>9. ~Armed(s, t)
  BY <1>2, <1>6 DEF Armed
<1>10. k' = GoSleepTimeoutS(Joins(s, c), "WTCOND", time)
  BY <1>1, <1>7
<1> HIDE DEF wait
<1>11. call' = [call EXCEPT ![t] = [op |-> "cond", of |-> m]] /\ InUser /\ t = k.current /\ t # Idle
  BY <1>1
<1>12. s.current = t
  BY <1>6
<1>13. QED
  BY <1>3, <1>5, <1>8, <1>9, <1>10, <1>11, <1>12, WaitsKeeps

-----------------------------------------------------------------------------
(* The initial states and the steps.                                        *)

\* Priorities that fall from each place to the next fall throughout.
LEMMA StepsFall ==
    ASSUME NEW q \in Seq(Threads), NEW prio \in [Threads -> Nat],
           \A i \in 1..Len(q) - 1 : prio[q[i]] >= prio[q[i + 1]]
    PROVE  Falling(q, prio)
<1> SUFFICES ASSUME NEW i \in 1..Len(q), NEW j \in 1..Len(q), i < j, ~(prio[q[i]] >= prio[q[j]])
             PROVE  FALSE
  BY DEF Falling
<1> DEFINE T == {y \in 1..Len(q) : i < y /\ ~(prio[q[i]] >= prio[q[y]])}
<1>1. Len(q) \in Nat /\ \A y \in 1..Len(q) : prio[q[y]] \in Nat
  BY ElementOfSeq
<1>2. PICK x \in T : \A y \in T : x <= y
  <2>1. T \in SUBSET Nat /\ j \in T
    BY <1>1
  <2>2. QED
    BY <2>1, Least
<1>3. x - 1 \in 1..Len(q) - 1 /\ x - 1 \in 1..Len(q) /\ i <= x - 1 /\ x - 1 \notin T
  BY <1>1, <1>2
<1>4. prio[q[x - 1]] >= prio[q[x]]
  BY <1>1, <1>2, <1>3
<1>5. prio[q[i]] >= prio[q[x - 1]]
  BY <1>1, <1>3
<1>6. QED
  BY <1>1, <1>2, <1>3, <1>4, <1>5

LEMMA InitialOrder ==
    ASSUME NEW ready \in SetToSeqs(Threads \ {Main})
    PROVE  Queue(ready, Threads) /\ ToSet(ready) = Threads \ {Main}
<1> DEFINE S == Threads \ {Main}
           n == Cardinality(S)
<1>1. IsFiniteSet(S) /\ S \subseteq Threads
  <2>1. S \subseteq Threads /\ IsFiniteSet(Threads)
    BY MtxAssumption
  <2>2. QED
    BY <2>1, FS_Subset
<1>2. ready \in [1..n -> S] /\ \A i, j \in 1..n : i # j => ready[i] # ready[j]
  BY DEF SetToSeqs
<1>3. n \in Nat
  BY <1>1, FS_CardinalityType
<1>4. IsInjective(ready)
  BY <1>2 DEF IsInjective
<1> HIDE DEF S
<1>5. \A t \in S : \E i \in 1..n : ready[i] = t
  <2>1. ready \in Injection(1..n, S)
    BY <1>2, <1>4 DEF Injection
  <2>2. Cardinality(1..n) = n
    BY <1>3, FS_Interval
  <2>3. ready \in Surjection(1..n, S)
    BY <1>1, <2>1, <2>2, FS_Injection
  <2>4. QED
    BY <2>3 DEF Surjection
<1> HIDE DEF n
<1>6. ready \in Seq(S) /\ Len(ready) = n
  BY <1>2, <1>3
<1>7. ToSet(ready) = S /\ ready \in Seq(Threads)
  BY <1>1, <1>2, <1>5, <1>6, QueueSet
<1>8. QED
  BY <1>4, <1>7 DEF Queue, S

LEMMA MtxInitially ==
    ASSUME Init
    PROVE  MtxInv
<1>1. /\ realprio \in [Threads -> Prios \cup {1}] /\ realprio[Idle] = 1
      /\ \A t \in Threads \ {Idle} : realprio[t] \in Prios /\ realprio[t] <= realprio[Main]
      /\ call = [t \in Threads |-> User] /\ owner = [m \in Mutexes |-> None]
      /\ mtxlist = [t \in Threads |-> <<>>] /\ holds = [t \in Threads |-> <<>>]
      /\ lowered = {}
  BY DEF Init
<1>2. PICK ready \in SetToSeqs(Threads \ {Main}) :
            /\ \A i \in 1..Len(ready) - 1 : realprio[ready[i]] >= realprio[ready[i + 1]]
            /\ k = InitialState(realprio, ready, Main, <<>>)
  BY DEF Init
<1>3. Main \in Threads /\ Idle \in Threads /\ Main # Idle /\ Prios \subseteq Nat \ {0, 1}
  BY SchdAssumption, MtxAssumption
<1>4. realprio \in [Threads -> Nat \ {0}] /\ realprio \in [Threads -> Nat]
  <2>1. Prios \cup {1} \subseteq Nat \ {0}
    BY <1>3
  <2>2. realprio \in [Threads -> Prios \cup {1}]
    BY <1>1
  <2>3. QED
    BY <2>1, <2>2
<1>5. Queue(ready, Threads) /\ ToSet(ready) = Threads \ {Main} /\ ready \in Seq(Threads)
  BY InitialOrder DEF Queue
<1>6. Falling(ready, realprio)
  BY <1>2, <1>4, <1>5, StepsFall
<1>7. Main \notin ToSet(ready) /\ \A t \in ToSet(ready) : realprio[t] <= realprio[Main]
  BY <1>1, <1>3, <1>4, <1>5
<1>8. <<>> \in [{} -> Int] /\ "OK" \in Notes
  BY DEF Notes
<1>9. /\ Sound(k) /\ TopRuns(k) /\ k.queue = [o \in Objects |-> <<>>]
      /\ \A t \in Threads : ~Armed(k, t) /\ Runs(k, t)
  <2>1. Started(Notes, {}, ready, Main, <<>>, InitialState(realprio, ready, Main, <<>>))
    BY <1>3, <1>4, <1>5, <1>6, <1>7, <1>8, StartsSettled
  <2>2. /\ Settled(Notes, {}, k) /\ TopRuns(k) /\ k.queue = [o \in Objects |-> <<>>]
        /\ \A t \in Threads : ~Armed(k, t) /\ k.state[t] \in Runnable
    BY <1>2, <1>5, <2>1 DEF Started, Runnable
  <2>3. QED
    BY <2>2 DEF Sound, Runs
<1>10. k.prio = realprio
  BY <1>2 DEF InitialState
<1>11. QueuesFall(k) /\ WaitedIsOwned(k, owner)
  BY <1>9, NothingQueued, KindsOfCalls DEF QueuesFall, Falling, WaitedIsOwned
<1>12. CallsFit(k, call)
  BY <1>1, <1>3, <1>9 DEF CallsFit, MtxCalls, Sleeping
<1>13. <<>> \in Seq(Mutexes) /\ IsInjective(<<>>) /\ ToSet(<<>>) = {}
  BY NothingQueued DEF IsInjective
<1>14. OwnersFit(owner, mtxlist) /\ holds \in [Threads -> Seq(Mutexes)]
  BY <1>1, <1>13, MtxAssumption DEF OwnersFit
<1>15. HoldsFit(k, call, mtxlist, holds)
  BY <1>1, <1>13, KindsOfCalls DEF HoldsFit, HeldFits
<1>16. Lent(k, owner, realprio, lowered)
  <2>1. \A x \in Threads : Waiters(k, owner, x) = {}
    BY <1>9, NothingQueued, KindsOfCalls DEF Waiters
  <2>2. QED
    BY <1>4, <1>10, <2>1 DEF Lent, Highest
<1>17. QED
  BY <1>1, <1>4, <1>9, <1>11, <1>12, <1>14, <1>15, <1>16 DEF MtxInv

LEMMA MtxStep ==
    MtxInv /\ [Next]_vars => MtxInv'
<1> SUFFICES ASSUME MtxInv, [Next]_vars PROVE MtxInv'
  OBVIOUS
<1>1. CASE UNCHANGED vars
  BY <1>1, StutterKeeps
<1>2. CASE TickStep
  BY <1>2, TickKeeps
<1>3. ASSUME NEW c \in Conds, CondSignalI(c) \/ CondBroadcast(c) \/ CondBroadcastIsr(c)
      PROVE  MtxInv'
  BY <1>3, SignalKeeps, BroadcastKeeps
<1>4. ASSUME NEW t \in Threads, NEW m \in Mutexes, MtxLock(t, m) PROVE MtxInv'
  BY <1>4, LockKeeps
<1>5. ASSUME NEW t \in Threads, NEW m \in Mutexes, MtxTryLock(t, m) PROVE MtxInv'
  BY <1>5, TryLockKeeps
<1>6. ASSUME NEW t \in Threads, MtxLockBack(t) PROVE MtxInv'
  BY <1>6, LockBackKeeps
<1>7. ASSUME NEW t \in Threads, MtxUnlock(t) PROVE MtxInv'
  BY <1>7, UnlockKeeps
<1>8. ASSUME NEW t \in Threads, MtxUnlockAll(t) PROVE MtxInv'
  BY <1>8, UnlockAllKeeps
<1>9. ASSUME NEW t \in Threads, NEW p \in Prios, MtxSetPriority(t, p) PROVE MtxInv'
  BY <1>9, SetPriorityKeeps
<1>10. ASSUME NEW t \in Threads, NEW c \in Conds, CondSignal(t, c) PROVE MtxInv'
  BY <1>10, SignalKeeps
<1>11. ASSUME NEW t \in Threads, NEW c \in Conds, CondWait(t, c) PROVE MtxInv'
  BY <1>11, CondSleepKeeps DEF CondWait
<1>12. ASSUME NEW t \in Threads, NEW c \in Conds, NEW time \in Times, CondWaitTimeout(t, c, time)
       PROVE  MtxInv'
  <2>1. time \in Nat \ {0}
    BY MtxAssumption
  <2>2. QED
    BY <1>12, <2>1, CondSleepKeeps DEF CondWaitTimeout
<1>13. ASSUME NEW t \in Threads, CondWaitBack(t) PROVE MtxInv'
  BY <1>13, CondBackKeeps
<1>14. QED
  BY <1>1, <1>2, <1>3, <1>4, <1>5, <1>6, <1>7, <1>8, <1>9, <1>10, <1>11, <1>12, <1>13 DEF Next

\* In every behaviour of the threads, any nesting of the mutexes, any time-outs
\* and any changes of priority: the kernel is sound, lists, owners and calls
\* agree, and each priority is one its thread has itself or is lent.
THEOREM MtxInvariant == Spec => []MtxInv
<1>1. Init => MtxInv
  BY MtxInitially
<1>2. MtxInv /\ [Next]_vars => MtxInv'
  BY MtxStep
<1>3. QED
  BY <1>1, <1>2, PTL DEF Spec

\* A priority of its own that a thread has is one it was given.
PriosGiven == realprio \in [Threads -> Prios \cup {1}]

LEMMA GivenStep ==
    PriosGiven /\ [Next]_vars => PriosGiven'
<1> SUFFICES ASSUME PriosGiven, [Next]_vars PROVE PriosGiven'
  OBVIOUS
<1>1. \/ realprio' = realprio
      \/ \E t \in Threads, p \in Prios : realprio' = [realprio EXCEPT ![t] = p]
  <2>1. ASSUME UNCHANGED vars \/ TickStep PROVE realprio' = realprio
    BY <2>1 DEF vars, TickStep, OwnersUnchanged
  <2>2. ASSUME NEW c \in Conds, CondSignalI(c) \/ CondBroadcast(c) \/ CondBroadcastIsr(c)
        PROVE  realprio' = realprio
    BY <2>2 DEF CondSignalI, CondBroadcast, CondBroadcastIsr, OwnersUnchanged
  <2>3. ASSUME NEW t, NEW m, MtxLock(t, m) \/ MtxTryLock(t, m) PROVE realprio' = realprio
    BY <2>3 DEF MtxLock, MtxTryLock, OwnersUnchanged, Takes
  <2>4. ASSUME NEW t, MtxLockBack(t) \/ MtxUnlock(t) \/ MtxUnlockAll(t) PROVE realprio' = realprio
    BY <2>4 DEF MtxLockBack, MtxUnlock, MtxUnlockAll, OwnersUnchanged, HandOver
  <2>5. ASSUME NEW t, NEW p, MtxSetPriority(t, p) PROVE realprio' = [realprio EXCEPT ![t] = p]
    BY <2>5 DEF MtxSetPriority
  <2>6. ASSUME NEW t, NEW c, NEW time, CondSignal(t, c) \/ CondSleep(t, c, time)
        PROVE  realprio' = realprio
    BY <2>6 DEF CondSignal, CondSleep, OwnersUnchanged, HandOver
  <2>7. ASSUME NEW t, CondWaitBack(t) PROVE realprio' = realprio
    BY <2>7 DEF CondWaitBack, OwnersUnchanged, Takes
  <2>8. QED
    BY <2>1, <2>2, <2>3, <2>4, <2>5, <2>6, <2>7 DEF Next, CondWait, CondWaitTimeout
<1>2. QED
  BY <1>1 DEF PriosGiven

\* Each thread is in the one queue its state says, the most urgent one runs,
\* and no sleep is cut short or overrun, however mutexes are locked and lent
\* for and condition variables waited for, signalled and timed out.
THEOREM SchedulerIsSound == Spec => [](TypeOK /\ HighestRuns /\ TimersOnTime)
<1>1. MtxInv => PlacesOK /\ HighestRuns /\ TimersOnTime
  BY SettledIsSound DEF MtxInv, Sound
<1>2. MtxInv /\ PriosGiven => TypeOK /\ HighestRuns /\ TimersOnTime
  BY <1>1 DEF TypeOK, PriosGiven, MtxInv, OwnersFit
<1>3. Init => PriosGiven
  BY DEF Init, PriosGiven
<1>4. Spec => []PriosGiven
  BY <1>3, GivenStep, PTL DEF Spec
<1>5. QED
  BY <1>2, <1>4, MtxInvariant, PTL

\* Mutual exclusion: what a thread's code has locked and not unlocked is what
\* the kernel has it own, in that order, whenever it runs its own code; a mutex
\* is in its owner's list once and in no other; who waits, waits for an owner.
THEOREM MutexIsExclusive == Spec => []HeldIsOwned
<1>1. MtxInv => HeldIsOwned
  <2> SUFFICES ASSUME MtxInv PROVE HeldIsOwned
    OBVIOUS
  <2>1. ASSUME NEW t \in Threads, call[t] = User PROVE holds[t] = mtxlist[t]
    BY <2>1 DEF MtxInv, HoldsFit, HeldFits
  <2>2. ASSUME NEW m \in Mutexes, k.queue[m] # <<>> PROVE owner[m] # None
    BY <2>2 DEF MtxInv, WaitedIsOwned
  <2>3. ASSUME NEW m \in Mutexes, NEW t \in Threads
        PROVE  Cardinality({i \in DOMAIN mtxlist[t] : mtxlist[t][i] = m})
                   = (IF owner[m] = t THEN 1 ELSE 0)
    <3> DEFINE list == mtxlist[t]
               at == {i \in DOMAIN list : list[i] = m}
    <3>1. IsInjective(list) /\ (m \in ToSet(list) <=> owner[m] = t)
      BY DEF MtxInv, OwnersFit
    <3>2. CASE owner[m] = t
      <4>1. PICK i \in DOMAIN list : list[i] = m
        BY <3>1, <3>2 DEF ToSet
      <4>2. at = {i}
        BY <3>1, <4>1 DEF IsInjective
      <4>3. Cardinality(at) = 1
        BY <4>2, FS_Singleton
      <4>4. QED
        BY <3>2, <4>3
    <3>3. CASE owner[m] # t
      <4>1. at = {}
        BY <3>1, <3>3 DEF ToSet
      <4>2. QED
        BY <3>3, <4>1, FS_EmptySet
    <3>4. QED
      BY <3>2, <3>3
  <2>4. QED
    BY <2>1, <2>2, <2>3 DEF HeldIsOwned
<1>2. QED
  BY <1>1, MtxInvariant, PTL

\* No priority inversion, and none kept too long: a thread is exactly as urgent
\* as itself or the most urgent thread waiting, itself or through a chain of
\* owners of any length, for a mutex it owns; one that lowered itself while
\* somebody waited for a mutex of it is as urgent as itself or as one of those
\* who wait, until what it is lent is computed again.
THEOREM PriorityInherited == Spec => []PriorityIsInherited
<1>1. MtxInv => PriorityIsInherited
  <2> SUFFICES ASSUME MtxInv, NEW t \in Threads
               PROVE  LET real  == realprio[t]
                          lends == {k.prio[w] : w \in UNION {ToSet(k.queue[m]) : m \in ToSet(mtxlist[t])}}
                      IN  /\ k.prio[t] \in {real} \cup lends /\ k.prio[t] >= real
                          /\ t \notin lowered => k.prio[t] = Max({real} \cup lends)
    BY DEF PriorityIsInherited
  <2> DEFINE W == Waiters(k, owner, t)
             S == {realprio[t]} \cup {k.prio[w] : w \in W}
  <2>1. /\ k.prio \in [Threads -> Nat \ {0}] /\ k.queue \in [Objects -> Seq(Threads)]
        /\ realprio \in [Threads -> Nat \ {0}] /\ mtxlist \in [Threads -> Seq(Mutexes)]
        /\ \A m \in Mutexes : m \in ToSet(mtxlist[t]) <=> owner[m] = t
    BY SoundIs DEF MtxInv, OwnersFit
  <2>2. UNION {ToSet(k.queue[m]) : m \in ToSet(mtxlist[t])} = W
    <3>1. ToSet(mtxlist[t]) \subseteq Mutexes /\ \A m \in Mutexes : ToSet(k.queue[m]) \subseteq Threads
      BY <2>1, QueueSet, KindsOfCalls
    <3>2. QED
      BY <2>1, <3>1 DEF Waiters
  <2>3. Highest(k.prio[t], realprio[t], k.prio, W, t, lowered)
    BY DEF MtxInv, Lent
  <2>4. k.prio[t] \in S /\ k.prio[t] >= realprio[t] /\ S \subseteq Nat
    <3>1. W \subseteq Threads
      BY DEF Waiters
    <3> HIDE DEF W
    <3>2. k.prio[t] \in S /\ k.prio[t] >= realprio[t]
      BY <2>3 DEF Highest
    <3>3. \A y \in S : y \in Nat
      BY <2>1, <3>1
    <3>4. QED
      BY <3>2, <3>3
  <2>5. ASSUME t \notin lowered PROVE k.prio[t] = Max(S)
    <3>1. \A y \in S : k.prio[t] >= y
      <4> HIDE DEF W
      <4>1. QED
        BY <2>3, <2>5 DEF Highest
    <3> HIDE DEF S, W
    <3>2. ASSUME NEW x \in S, \A y \in S : x >= y PROVE x = k.prio[t]
      <4>1. x >= k.prio[t] /\ k.prio[t] >= x /\ x \in Nat /\ k.prio[t] \in Nat
        BY <2>4, <3>1, <3>2
      <4>2. QED
        BY <4>1
    <3>3. QED
      BY <2>4, <3>1, <3>2 DEF Max
  <2>6. QED
    <3> DEFINE ws == UNION {ToSet(k.queue[m]) : m \in ToSet(mtxlist[t])}
               real == realprio[t]
               lends == {k.prio[w] : w \in ws}
    <3>1. S = {real} \cup lends
      BY <2>2
    <3>2. QED
      BY <2>4, <2>5, <3>1
<1>2. QED
  BY <1>1, MtxInvariant, PTL
=============================================================================
