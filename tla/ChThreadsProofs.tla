--------------------------- MODULE ChThreadsProofs ---------------------------
(* Theorems about ChThreads, for any number of threads and servers, any     *)
(* priorities, times and quantum.                                           *)
EXTENDS ChThreads, KernelProofs, FiniteSetTheorems

\* The notes p_u of the threads of this module: an exit code is a name.
Notes == Threads \cup {"OK", "TIMEOUT"}

Sound(s) == Settled(Notes, {}, s)

-----------------------------------------------------------------------------
(* The kernel under threads that wait in none of its queues.                *)

\* Thread t neither can run nor is in a queue of the kernel.
Elsewhere(s, t) == s.state[t] \notin Runnable \cup WaitStates

\* The threads of W can run after it; the others are where they were.
Lets(s, r, W) ==
    \A t \in Threads : /\ Runs(r, t) <=> (Runs(s, t) \/ t \in W)
                       /\ ~Runs(r, t) => r.state[t] = s.state[t]
                       /\ Armed(r, t) => Armed(s, t)

\* The current thread sleeps after it; the others are where they were.
Dozes(s, r, new) ==
    /\ r.state[s.current] = new
    /\ \A t \in Threads : /\ Runs(r, t) <=> (Runs(s, t) /\ t # s.current)
                          /\ t # s.current /\ ~Runs(r, t) => r.state[t] = s.state[t]

LEMMA SoundIs ==
    ASSUME NEW s, Sound(s)
    PROVE  /\ s \in KernelStates(Notes, {}) /\ Placed(s) /\ Queue(Pars(s.vt), Threads)
           /\ Sorted(s) /\ OnTime(s)
           /\ s.current \in Threads /\ s.state \in [Threads -> States]
           /\ s.prio \in [Threads -> Nat \ {0}] /\ s.u \in [Threads -> Notes]
           /\ s.state[s.current] = "CURRENT" /\ Runs(s, s.current)
           /\ \A t \in Threads : s.state[t] = "CURRENT" <=> t = s.current
           /\ \A t \in Threads : s.state[t] \in States
<1>1. s \in KernelStates(Notes, {}) /\ Placed(s)
  BY DEF Sound, Settled
<1>2. s.current \in Threads /\ s.state \in [Threads -> States]
  BY <1>1 DEF KernelStates
<1>3. \A t \in Threads : s.state[t] = "CURRENT" <=> t = s.current
  BY <1>1 DEF Placed, ThreadPlaced
<1>4. QED
  BY <1>1, <1>2, <1>3 DEF Sound, Settled, KernelStates, Runs, Runnable

LEMMA NoPlace ==
    ASSUME NEW s, Sound(s), NEW w \in Threads, Elsewhere(s, w)
    PROVE  PlacedBut(s, w) /\ ~Runs(s, w) /\ w # s.current /\ w \notin ToSet(s.ready)
<1>1. Placed(s)
  BY SoundIs
<1>2. ThreadPlaced(s, w) /\ s.state[w] \notin Runnable /\ s.state[w] \notin WaitStates
  BY <1>1 DEF Placed, Elsewhere
<1>3. w # s.current /\ w \notin ToSet(s.ready) /\ \A o \in Objects : w \notin ToSet(s.queue[o])
  BY <1>2 DEF ThreadPlaced, Runnable
<1>4. QED
  BY <1>1, <1>2, <1>3 DEF PlacedBut, Placed, Runs

\* A thread is woken up by another one, or in the middle of other things.
LEMMA Wakes ==
    ASSUME NEW s, Sound(s), NEW w \in Threads, Elsewhere(s, w), NEW msg \in Notes
    PROVE  LET a == ReadyWith(s, w, msg)
               b == WakeupS(s, w, msg) IN
           /\ Sound(a) /\ Lets(s, a, {w}) /\ a.current = s.current
           /\ a.u = [s.u EXCEPT ![w] = msg]
           /\ TopRuns(s) => Sound(b) /\ TopRuns(b) /\ Lets(s, b, {w})
<1> DEFINE a == ReadyWith(s, w, msg)
           b == WakeupS(s, w, msg)
<1>1. /\ s \in KernelStates(Notes, {}) /\ s.state[s.current] = "CURRENT" /\ Sorted(s)
      /\ Queue(Pars(s.vt), Threads) /\ OnTime(s)
  BY SoundIs
<1>2. PlacedBut(s, w) /\ Apart(s, s)
  BY NoPlace DEF Apart
<1>3. /\ a \in KernelStates(Notes, {}) /\ Placed(a) /\ Frees(s, a, w, msg)
      /\ a.current = s.current /\ Sorted(a)
  BY <1>1, <1>2, ReadyWithFrees
<1>4. /\ b \in KernelStates(Notes, {}) /\ Placed(b) /\ Frees(s, b, w, msg)
      /\ Ordered(s) => Ordered(b)
  BY <1>1, <1>2, WakeupSFrees
<1> HIDE DEF a, b
<1>5. ASSUME NEW r, Frees(s, r, w, msg)
      PROVE  /\ Lets(s, r, {w}) /\ Queue(Pars(r.vt), Threads) /\ OnTime(r)
             /\ r.u = [s.u EXCEPT ![w] = msg]
  BY <1>1, <1>5 DEF Frees, Lets, OnTime, Due, Armed, Runs
<1>6. Sound(a)
  BY <1>3, <1>5 DEF Sound, Settled
<1>7. TopRuns(s) => Sound(b) /\ TopRuns(b)
  BY <1>1, <1>4, <1>5 DEF Sound, Settled, Ordered
<1>8. QED
  BY <1>3, <1>4, <1>5, <1>6, <1>7 DEF a, b

LEMMA Readied ==
    ASSUME NEW s, Sound(s), NEW w \in Threads, Elsewhere(s, w)
    PROVE  LET r == ReadyI(s, w) IN
           Sound(r) /\ Lets(s, r, {w}) /\ r.current = s.current /\ r.u = s.u
<1>1. s \in KernelStates(Notes, {}) /\ s.u \in [Threads -> Notes] /\ s.u[w] \in Notes
  BY SoundIs
<1> DEFINE y == ReadyI(s, w)
<1>2. DOMAIN y = DOMAIN s /\ y.u = s.u
  BY <1>1 DEF ReadyI, KernelStates
<1>3. ReadyWith(s, w, s.u[w]) = y
  BY <1>1 DEF ReadyWith, ReadyI, KernelStates
<1>4. /\ Sound(ReadyWith(s, w, s.u[w])) /\ Lets(s, ReadyWith(s, w, s.u[w]), {w})
      /\ ReadyWith(s, w, s.u[w]).current = s.current
  BY <1>1, Wakes
<1>5. QED
  BY <1>2, <1>3, <1>4

Relabelled(s, w, new, p) == [s EXCEPT !.state[w] = new, !.prio[w] = p]

\* A thread that cannot run changes to another such state, or its priority.
LEMMA Relabels ==
    ASSUME NEW s, Sound(s), NEW w \in Threads, Elsewhere(s, w),
           NEW new \in States \ (Runnable \cup WaitStates), NEW p \in Nat \ {0}
    PROVE  LET r == Relabelled(s, w, new, p) IN
           /\ Sound(r) /\ (TopRuns(s) => TopRuns(r)) /\ r.current = s.current
           /\ r.state = [s.state EXCEPT ![w] = new] /\ r.vt = s.vt /\ r.ready = s.ready
<1> DEFINE r == Relabelled(s, w, new, p)
<1> USE DEF Relabelled
<1>1. /\ s \in KernelStates(Notes, {}) /\ Placed(s) /\ Sorted(s)
      /\ Queue(Pars(s.vt), Threads) /\ OnTime(s)
      /\ s.state \in [Threads -> States] /\ s.prio \in [Threads -> Nat \ {0}]
  BY SoundIs
<1>2. PlacedBut(s, w) /\ w # s.current /\ w \notin ToSet(s.ready) /\ s.ready \in Seq(Threads)
  BY <1>1, NoPlace DEF KernelStates
<1>3. /\ r.state = [s.state EXCEPT ![w] = new] /\ r.prio = [s.prio EXCEPT ![w] = p]
      /\ r.current = s.current /\ r.ready = s.ready /\ r.u = s.u /\ r.queue = s.queue
      /\ r.vt = s.vt /\ r.due = s.due
  BY <1>1 DEF KernelStates
<1>4. r \in KernelStates(Notes, {})
  <2>1. /\ [s.state EXCEPT ![w] = new] \in [Threads -> States]
        /\ [s.prio EXCEPT ![w] = p] \in [Threads -> Nat \ {0}]
    BY <1>1
  <2>2. r = [s EXCEPT !.state = [s.state EXCEPT ![w] = new], !.prio = [s.prio EXCEPT ![w] = p]]
    OBVIOUS
  <2> HIDE DEF r
  <2>3. QED
    BY <1>1, <2>1, <2>2 DEF KernelStates
<1> HIDE DEF r
<1>5. r.state[w] = new /\ \A x \in Threads \ {w} : r.state[x] = s.state[x] /\ r.prio[x] = s.prio[x]
  BY <1>1, <1>3
<1>6. Placed(r)
  <2>1. QueuesSound(r)
    BY <1>1, <1>3 DEF Placed, QueuesSound
  <2>2. ASSUME NEW x \in Threads \ {w} PROVE ThreadPlaced(r, x)
    BY <1>1, <1>3, <1>5 DEF Placed, ThreadPlaced
  <2>3. ThreadPlaced(r, w)
    BY <1>2, <1>3, <1>5 DEF ThreadPlaced, PlacedBut, Runnable
  <2>4. QED
    BY <2>1, <2>2, <2>3 DEF Placed
<1>7. \A i \in 1..Len(s.ready) : s.ready[i] \in Threads \ {w}
  BY <1>2, QueueSet
<1>8. Sorted(r)
  BY <1>1, <1>3, <1>5, <1>7 DEF Sorted, Falling
<1>9. TopRuns(s) => TopRuns(r)
  <2>1. \A x \in ToSet(s.ready) : x \in Threads \ {w}
    BY <1>2, QueueSet
  <2>2. s.current \in Threads \ {w}
    BY <1>2, SoundIs
  <2>3. QED
    BY <1>3, <1>5, <2>1, <2>2 DEF TopRuns
<1>10. OnTime(r)
  BY <1>1, <1>3 DEF OnTime, Due
<1>11. QED
  BY <1>1, <1>3, <1>4, <1>6, <1>8, <1>9, <1>10 DEF Sound, Settled, r

LEMMA Retuned ==
    ASSUME NEW s, Sound(s), NEW p \in Nat \ {0}
    PROVE  LET r == [s EXCEPT !.prio[s.current] = p] IN
           Sound(r) /\ r.current = s.current /\ r.state = s.state /\ r.vt = s.vt
<1> DEFINE c == s.current
           r == [s EXCEPT !.prio[c] = p]
<1>1. /\ s \in KernelStates(Notes, {}) /\ Placed(s) /\ Sorted(s)
      /\ Queue(Pars(s.vt), Threads) /\ OnTime(s)
      /\ c \in Threads /\ s.prio \in [Threads -> Nat \ {0}] /\ s.state[c] = "CURRENT"
  BY SoundIs
<1>2. s.ready \in Seq(Threads) /\ c \notin ToSet(s.ready)
  BY <1>1 DEF KernelStates, Placed, ThreadPlaced
<1> HIDE DEF c
<1>3. /\ r.prio = [s.prio EXCEPT ![c] = p] /\ r.state = s.state
      /\ r.current = s.current /\ r.ready = s.ready /\ r.u = s.u /\ r.queue = s.queue
      /\ r.vt = s.vt /\ r.due = s.due
  BY <1>1 DEF KernelStates
<1>4. r \in KernelStates(Notes, {})
  <2>1. [s.prio EXCEPT ![c] = p] \in [Threads -> Nat \ {0}]
    BY <1>1
  <2>2. r = [s EXCEPT !.prio = [s.prio EXCEPT ![c] = p]]
    OBVIOUS
  <2> HIDE DEF r
  <2>3. QED
    BY <1>1, <2>1, <2>2 DEF KernelStates
<1> HIDE DEF r
<1>5. \A i \in 1..Len(s.ready) : s.ready[i] \in Threads \ {c}
  BY <1>2, QueueSet
<1>6. \A x \in Threads \ {c} : r.prio[x] = s.prio[x]
  BY <1>1, <1>3
<1>7. Sorted(r)
  BY <1>1, <1>3, <1>5, <1>6 DEF Sorted, Falling
<1>8. Placed(r) /\ OnTime(r)
  BY <1>1, <1>3 DEF Placed, QueuesSound, ThreadPlaced, OnTime, Due
<1>9. QED
  BY <1>1, <1>3, <1>4, <1>7, <1>8 DEF Sound, Settled, r, c

LEMMA Reschedulings ==
    ASSUME NEW s, Sound(s)
    PROVE  /\ Sound(RescheduleS(s)) /\ TopRuns(RescheduleS(s)) /\ Lets(s, RescheduleS(s), {})
           /\ Sound(Epilogue(s)) /\ TopRuns(Epilogue(s)) /\ Lets(s, Epilogue(s), {})
<1>1. ASSUME NEW r, SameThreads(s, r) PROVE Lets(s, r, {})
  BY <1>1 DEF SameThreads, Lets, Kept, Armed
<1>2. QED
  BY <1>1, Resumes DEF Sound

LEMMA Yields ==
    ASSUME NEW s, Sound(s), TopRuns(s)
    PROVE  Sound(DoYieldS(s)) /\ TopRuns(DoYieldS(s)) /\ Lets(s, DoYieldS(s), {})
<1>1. /\ s \in KernelStates(Notes, {}) /\ Placed(s) /\ Sorted(s)
      /\ Queue(Pars(s.vt), Threads) /\ OnTime(s)
      /\ s.current \in Threads /\ s.prio \in [Threads -> Nat \ {0}] /\ s.ready \in Seq(Threads)
  <2>1. s \in KernelStates(Notes, {})
    BY SoundIs
  <2>2. s.ready \in Seq(Threads)
    BY <2>1 DEF KernelStates
  <2>3. QED
    BY <2>2, SoundIs
<1>2. CASE FirstPrio(s) >= s.prio[s.current]
  <2> DEFINE r == DoRescheduleBehind(s)
  <2>1. s.ready # <<>> /\ s.prio[s.current] <= s.prio[Head(s.ready)]
    <3>1. s.ready # <<>>
      BY <1>1, <1>2 DEF FirstPrio
    <3>2. QED
      BY <1>1, <1>2, <3>1, HeadTailProperties DEF FirstPrio
  <2>2. r \in KernelStates(Notes, {}) /\ Placed(r) /\ Shuffled(s, r) /\ Ordered(r)
    BY <1>1, <2>1, ReschedulePlaces, ReschedulesOrder
  <2> HIDE DEF r
  <2>3. Lets(s, r, {}) /\ Queue(Pars(r.vt), Threads) /\ OnTime(r)
    BY <1>1, <2>2 DEF Shuffled, Kept, Sleepers, Lets, Armed, OnTime, Due
  <2>4. Sound(r) /\ TopRuns(r) /\ Lets(s, r, {})
    BY <2>2, <2>3 DEF Sound, Settled, Ordered
  <2>5. QED
    BY <1>2, <2>4 DEF DoYieldS, r
<1>3. CASE ~(FirstPrio(s) >= s.prio[s.current])
  BY <1>3 DEF DoYieldS, Lets
<1>4. QED
  BY <1>2, <1>3

\* Sleeping, with a timer or without, on what is no queue of the kernel.
LEMMA Sleeping ==
    ASSUME NEW s, Sound(s), s.ready # <<>>, NEW new \in States \ (Runnable \cup WaitStates)
    PROVE  LET r == GoSleepS(s, new) IN
           /\ Sound(r) /\ TopRuns(r) /\ Dozes(s, r, new)
           /\ \A t \in Threads : Armed(r, t) => Armed(s, t)
<1> DEFINE r == GoSleepS(s, new)
<1>1. /\ s \in KernelStates(Notes, {}) /\ Placed(s) /\ Sorted(s)
      /\ Queue(Pars(s.vt), Threads) /\ OnTime(s) /\ s.current \in Threads
      /\ s.state[s.current] = "CURRENT"
  BY SoundIs
<1>2. /\ QueuesSound(s) /\ \A t \in Threads : ThreadPlaced(s, t)
      /\ Queue(s.ready, Threads)
  BY <1>1 DEF Placed, QueuesSound
<1>3. /\ s.current \notin ToSet(s.ready)
      /\ \A o \in Objects : s.current \notin ToSet(s.queue[o])
  BY <1>1, <1>2 DEF ThreadPlaced, WaitStates
<1>4. /\ r \in KernelStates(Notes, {}) /\ Placed(r) /\ Slept(s, r, new) /\ Ordered(r)
  BY <1>1, <1>2, <1>3, GoSleepPlaces, GoSleepOrders
<1> HIDE DEF r
<1>5. Queue(Pars(r.vt), Threads) /\ OnTime(r)
  BY <1>1, <1>4 DEF Slept, Kept, OnTime, Due
<1>6. Dozes(s, r, new) /\ \A t \in Threads : Armed(r, t) => Armed(s, t)
  BY <1>1, <1>4 DEF Slept, Kept, Sleepers, Dozes, Armed, Runs
<1>7. QED
  BY <1>4, <1>5, <1>6 DEF Sound, Settled, Ordered, r

LEMMA Pauses ==
    ASSUME NEW s, Sound(s), s.ready # <<>>, ~Armed(s, s.current), NEW time \in Nat \ {0}
    PROVE  LET r == GoSleepTimeoutS(s, "SLEEPING", time) IN
           /\ Sound(r) /\ TopRuns(r) /\ Dozes(s, r, "SLEEPING")
           /\ \A t \in Threads : Armed(r, t) => Armed(s, t) \/ t = s.current
<1> DEFINE r == GoSleepTimeoutS(s, "SLEEPING", time)
<1>1. /\ s \in KernelStates(Notes, {}) /\ Placed(s) /\ Sorted(s)
      /\ Queue(Pars(s.vt), Threads) /\ OnTime(s) /\ s.current \in Threads
      /\ Runs(s, s.current)
  BY SoundIs
<1>2. /\ r \in KernelStates(Notes, {}) /\ Placed(r) /\ Queue(Pars(r.vt), Threads)
      /\ Sleepers(s, r, Threads) /\ r.state[s.current] = "SLEEPING"
      /\ \A t \in Threads : /\ Armed(r, t) <=> (Armed(s, t) \/ t = s.current)
                            /\ Runs(r, t) <=> (Runs(s, t) /\ t # s.current)
      /\ Ordered(r) /\ OnTime(r)
  BY <1>1, DelaySleeps
<1> HIDE DEF r
<1>3. Dozes(s, r, "SLEEPING")
  BY <1>1, <1>2 DEF Dozes, Sleepers
<1>4. QED
  BY <1>2, <1>3 DEF Sound, Settled, Ordered, r

\* Those that wait for a thread to end are made ready one after the other.
ReadyEvery(base, q) == FoldLeft(ReadyI, base, q)

LEMMA ReadyType ==
    ASSUME NEW s \in KernelStates(Notes, {}), NEW t \in Threads
    PROVE  /\ ReadyI(s, t) \in KernelStates(Notes, {})
           /\ ReadyI(s, t) = ReadyWith(s, t, s.u[t]) /\ s.u[t] \in Notes
<1>1. s.u \in [Threads -> Notes] /\ s.u[t] \in Notes
  BY DEF KernelStates
<1>2. ReadyI(s, t) = ReadyWith(s, t, s.u[t])
  BY DEF ReadyWith, ReadyI, KernelStates
<1>3. ReadyWith(s, t, s.u[t]) \in KernelStates(Notes, {})
  BY <1>1, ReadyWithType
<1>4. QED
  BY <1>1, <1>2, <1>3

LEMMA ReadyInTurn ==
    ASSUME NEW q \in Seq(Threads), NEW base \in KernelStates(Notes, {}),
           NEW Rs, base \in Rs[0],
           \A m \in 1..Len(q) : \A r \in Rs[m - 1] : ReadyI(r, q[m]) \in Rs[m]
    PROVE  ReadyEvery(base, q) \in Rs[Len(q)]
<1> DEFINE n == Len(q)
           R == KernelStates(Notes, {})
           st == [p \in R \X (1..n) |-> ReadyI(p[1], q[p[2]])]
           Def(f) == f = [s \in SUBSET DOMAIN q |->
                            IF s = {} THEN base ELSE ReadyI(f[s \ {Max(s)}], q[Max(s)])]
           iter == CHOOSE f : Def(f)
<1>1. n \in Nat /\ DOMAIN q = 1..n /\ \A i \in 1..n : q[i] \in Threads
  BY LenProperties, ElementOfSeq
<1>2. st \in [R \X (1..n) -> R]
  BY <1>1, ReadyType
<1> HIDE DEF R
<1>3. PICK g : Folds(g, R, st, base, n)
  BY <1>1, <1>2, FoldExists DEF R
<1>4. Def(g)
  <2>1. ASSUME NEW s \in SUBSET (1..n), s # {} PROVE Max(s) \in 1..n /\ s \ {Max(s)} \in SUBSET (1..n)
    BY <2>1, <1>1, MaxIn
  <2>2. ASSUME NEW s \in SUBSET (1..n), s # {}
        PROVE  g[s] = ReadyI(g[s \ {Max(s)}], q[Max(s)])
    <3>1. g[s \ {Max(s)}] \in R
      BY <1>3, <2>1, <2>2 DEF Folds
    <3>2. g[s] = st[<<g[s \ {Max(s)}], Max(s)>>]
      BY <1>3, <2>2 DEF Folds
    <3>3. QED
      BY <2>1, <2>2, <3>1, <3>2
  <2>3. g[{}] = base
    BY <1>3 DEF Folds
  <2>4. g = [s \in SUBSET (1..n) |-> g[s]]
    BY <1>3 DEF Folds
  <2>5. QED
    BY <1>1, <2>2, <2>3, <2>4
<1>5. Def(iter)
  BY <1>4
<1>6. ReadyEvery(base, q) = iter[DOMAIN q]
  BY DEF ReadyEvery, FoldLeft, MapThenFoldSet
<1> HIDE DEF iter
<1>7. ASSUME NEW m \in 1..n, iter[1..(m - 1)] \in Rs[m - 1] PROVE iter[1..m] \in Rs[m]
  <2>1. Max(1..m) = m /\ (1..m) \ {m} = 1..(m - 1) /\ 1..m # {} /\ 1..m \in SUBSET (1..n)
    BY <1>1, UpTo
  <2>2. iter[1..m] = ReadyI(iter[1..(m - 1)], q[m])
    BY <1>1, <1>5, <2>1
  <2>3. QED
    BY <1>7, <2>2
<1>8. iter[{}] = base
  BY <1>5
<1>9. iter[1..n] \in Rs[n]
  BY <1>1, <1>7, <1>8, Chain
<1>10. QED
  BY <1>1, <1>6, <1>9

LEMMA EveryoneReady ==
    ASSUME NEW s, Sound(s), NEW q, Queue(q, Threads), \A t \in ToSet(q) : Elsewhere(s, t)
    PROVE  LET r == ReadyEvery(s, q) IN
           Sound(r) /\ Lets(s, r, ToSet(q)) /\ r.current = s.current
<1> DEFINE n == Len(q)
           Gone(m) == {q[i] : i \in 1..m}
           R(m) == {x \in KernelStates(Notes, {}) :
                      /\ Sound(x) /\ Lets(s, x, Gone(m)) /\ x.current = s.current
                      /\ \A i \in (m + 1)..n : x.state[q[i]] = s.state[q[i]]}
           Rs == [m \in 0..n |-> R(m)]
           r == ReadyEvery(s, q)
<1>1. /\ n \in Nat /\ \A i \in 1..n : q[i] \in Threads /\ q[i] \in ToSet(q)
      /\ \A i, j \in 1..n : q[i] = q[j] => i = j
      /\ \A e : e \in ToSet(q) <=> \E i \in 1..n : q[i] = e
      /\ q \in Seq(Threads)
  BY QueueSet DEF Queue, IsInjective
<1>2. Gone(0) = {} /\ Gone(n) = ToSet(q)
  BY <1>1
<1>3. s \in R(0)
  <2>1. s \in KernelStates(Notes, {})
    BY SoundIs
  <2>2. Lets(s, s, {})
    BY DEF Lets
  <2>3. QED
    BY <1>2, <2>1, <2>2
<1>4. ASSUME NEW m \in 1..n, NEW x \in R(m - 1) PROVE ReadyI(x, q[m]) \in R(m)
  <2> DEFINE w == q[m]
             y == ReadyI(x, w)
  <2>1. /\ w \in Threads /\ w \in ToSet(q) /\ Gone(m) = Gone(m - 1) \cup {w}
        /\ \A i \in (m + 1)..n : i \in 1..n /\ q[i] # w /\ q[i] \in Threads /\ i \in ((m - 1) + 1)..n
        /\ x.state[w] = s.state[w]
    BY <1>1
  <2>2. Sound(x) /\ Lets(s, x, Gone(m - 1)) /\ x.current = s.current
    OBVIOUS
  <2> HIDE DEF w, Gone
  <2>3. Elsewhere(x, w)
    BY <2>1 DEF Elsewhere
  <2>4. Sound(y) /\ Lets(x, y, {w}) /\ y.current = x.current
    BY <2>1, <2>2, <2>3, Readied
  <2>5. \A t \in Threads \ {w} : ~Runs(x, t) => y.state[t] = x.state[t]
    BY <2>1, <2>4 DEF Lets
  <2>6. ASSUME NEW i \in (m + 1)..n PROVE y.state[q[i]] = s.state[q[i]]
    <3>1. x.state[q[i]] = s.state[q[i]] /\ q[i] \in Threads \ {w} /\ q[i] \in ToSet(q)
      BY <1>1, <2>1
    <3>2. ~Runs(x, q[i])
      BY <3>1 DEF Elsewhere, Runs
    <3>3. QED
      BY <2>5, <3>1, <3>2
  <2>7. Lets(s, y, Gone(m))
    BY <2>1, <2>2, <2>4 DEF Lets
  <2>8. y \in KernelStates(Notes, {})
    BY <2>4, SoundIs
  <2>9. QED
    BY <2>2, <2>4, <2>6, <2>7, <2>8 DEF w, y
<1>5. r \in Rs[n]
  <2> HIDE DEF R
  <2>1. s \in Rs[0]
    BY <1>1, <1>3
  <2>2. \A m \in 1..n : Rs[m - 1] = R(m - 1) /\ Rs[m] = R(m)
    BY <1>1
  <2>3. \A m \in 1..n : \A x \in Rs[m - 1] : ReadyI(x, q[m]) \in Rs[m]
    BY <1>4, <2>2
  <2>4. s \in KernelStates(Notes, {})
    BY SoundIs
  <2> HIDE DEF Rs
  <2>5. QED
    BY <1>1, <2>1, <2>3, <2>4, ReadyInTurn
<1>6. r \in R(n)
  BY <1>1, <1>5
<1>7. QED
  BY <1>2, <1>6

LEMMA Noted ==
    ASSUME NEW s, Sound(s), NEW v \in Notes
    PROVE  LET r == [s EXCEPT !.u[s.current] = v] IN
           /\ Sound(r) /\ (TopRuns(s) => TopRuns(r)) /\ r.current = s.current
           /\ r.state = s.state /\ r.vt = s.vt /\ r.ready = s.ready
<1> DEFINE c == s.current
           r == [s EXCEPT !.u[c] = v]
<1>1. /\ s \in KernelStates(Notes, {}) /\ Placed(s) /\ Sorted(s)
      /\ Queue(Pars(s.vt), Threads) /\ OnTime(s)
      /\ c \in Threads /\ s.u \in [Threads -> Notes] /\ s.state[c] = "CURRENT"
  BY SoundIs
<1> HIDE DEF c
<1>2. /\ r.u = [s.u EXCEPT ![c] = v] /\ r.state = s.state /\ r.prio = s.prio
      /\ r.current = s.current /\ r.ready = s.ready /\ r.queue = s.queue
      /\ r.vt = s.vt /\ r.due = s.due
  BY <1>1 DEF KernelStates
<1>3. r \in KernelStates(Notes, {})
  <2>1. [s.u EXCEPT ![c] = v] \in [Threads -> Notes]
    BY <1>1
  <2>2. r = [s EXCEPT !.u = [s.u EXCEPT ![c] = v]]
    OBVIOUS
  <2> HIDE DEF r
  <2>3. QED
    BY <1>1, <2>1, <2>2 DEF KernelStates
<1> HIDE DEF r
<1>4. \A x \in Threads \ {c} : r.u[x] = s.u[x]
  BY <1>1, <1>2
<1>5. Placed(r)
  <2>1. ASSUME NEW x \in Threads PROVE ThreadPlaced(r, x)
    <3>1. ThreadPlaced(s, x)
      BY <1>1 DEF Placed
    <3>2. CASE x = c
      BY <1>1, <1>2, <3>1, <3>2 DEF ThreadPlaced, WaitStates
    <3>3. CASE x # c
      BY <1>2, <1>4, <3>1, <3>3 DEF ThreadPlaced
    <3>4. QED
      BY <3>2, <3>3
  <2>2. QED
    BY <1>1, <1>2, <2>1 DEF Placed, QueuesSound
<1>6. Sorted(r) /\ OnTime(r) /\ (TopRuns(s) => TopRuns(r))
  BY <1>1, <1>2 DEF Sorted, OnTime, Due, TopRuns
<1>7. QED
  BY <1>1, <1>2, <1>3, <1>5, <1>6 DEF Sound, Settled, r, c

LEMMA LetsMore ==
    ASSUME NEW s, NEW x, NEW r, NEW V, NEW W, Lets(s, x, V), Lets(x, r, W)
    PROVE  Lets(s, r, V \cup W)
  BY DEF Lets

-----------------------------------------------------------------------------
(* The kernel and the calls.                                                *)

Doings ==
    {User, [op |-> "sleep"], [op |-> "send"], [op |-> "receive"]}
        \cup [op : {"join"}, of : Threads]

\* Where a thread is that cannot run, for the call it is in.
AtRest(c, state) ==
    \/ c = User /\ state \in {None, "SUSPENDED", "FINAL"}
    \/ c.op = "sleep" /\ state = "SLEEPING"
    \/ c.op = "join" /\ state = "WTEXIT"
    \/ c.op = "send" /\ state \in {"SNDMSGQ", "SNDMSG"}
    \/ c.op = "receive" /\ state = "WTMSG"

CallsFit(calls, s) ==
    \A t \in Threads : /\ ~Runs(s, t) => AtRest(calls[t], s.state[t])
                       /\ Armed(s, t) => calls[t].op = "sleep"

ThreadsFit ==
    /\ Sound(k) /\ TopRuns(k)
    /\ call \in [Threads -> Doings] /\ call[Idle] = User /\ Runs(k, Idle)
    /\ CallsFit(call, k)

LEMMA DoingsAre ==
    /\ \A c \in Doings : c.op \in {"user", "sleep", "send", "receive", "join"}
    /\ \A c \in Doings : c.op = "user" <=> c = User
    /\ User \in Doings /\ User.op = "user"
  BY DEF Doings, User

LEMMA IdleIsReady ==
    ASSUME NEW s, Sound(s), Runs(s, Idle), s.current # Idle
    PROVE  s.ready # <<>>
<1>1. /\ s.state[Idle] # "CURRENT" /\ Placed(s) /\ s \in KernelStates(Notes, {})
      /\ Idle \in Threads
  BY SoundIs, SchdAssumption
<1>2. s.state[Idle] = "READY"
  BY <1>1 DEF Runs, Runnable
<1>3. Idle \in ToSet(s.ready) /\ s.ready \in Seq(Threads)
  BY <1>1, <1>2 DEF Placed, ThreadPlaced, KernelStates
<1>4. QED
  BY <1>3, QueueSet

\* What every other step of a thread finds: it runs, someone else is ready.
LEMMA WhoCalls ==
    ASSUME ThreadsFit, NEW t \in Threads, t = k.current, t # Idle
    PROVE  /\ k.ready # <<>> /\ Runs(k, t) /\ k.state[t] = "CURRENT"
           /\ call[t].op # "sleep" => ~Armed(k, t)
<1>1. Sound(k) /\ Runs(k, Idle)
  BY DEF ThreadsFit
<1>2. k.state[t] = "CURRENT" /\ Runs(k, t)
  BY <1>1, SoundIs
<1>3. k.ready # <<>>
  BY <1>1, IdleIsReady
<1>4. QED
  BY <1>2, <1>3 DEF ThreadsFit, CallsFit

\* A step that lets threads go, or one that sleeps, keeps the calls fitting.
LEMMA FitsLet ==
    ASSUME ThreadsFit, Sound(k'), TopRuns(k'), NEW W, Lets(k, k', W), UNCHANGED call
    PROVE  ThreadsFit'
<1>1. \A t \in Threads : /\ ~Runs(k', t) => ~Runs(k, t) /\ k'.state[t] = k.state[t]
                         /\ Armed(k', t) => Armed(k, t)
  BY DEF Lets
<1>2. CallsFit(call, k')
  BY <1>1 DEF ThreadsFit, CallsFit
<1>3. Runs(k', Idle)
  BY SchdAssumption DEF ThreadsFit, Lets
<1>4. QED
  BY <1>2, <1>3 DEF ThreadsFit, CallsFit, Sound, TopRuns, Runs, Settled

LEMMA FitsDoze ==
    ASSUME ThreadsFit, NEW s, Sound(s), NEW W, Lets(k, s, W), s.current = k.current,
           NEW t \in Threads, t = k.current, t # Idle,
           Sound(k'), TopRuns(k'), NEW new, Dozes(s, k', new),
           NEW rest \in Doings, AtRest(rest, new), call' = [call EXCEPT ![t] = rest],
           \A x \in Threads : Armed(k', x) => Armed(s, x) \/ (x = t /\ rest.op = "sleep"),
           ~Armed(k, t)
    PROVE  ThreadsFit'
<1>1. /\ \A x \in Threads : /\ Runs(s, x) <=> (Runs(k, x) \/ x \in W)
                            /\ ~Runs(s, x) => s.state[x] = k.state[x]
                            /\ Armed(s, x) => Armed(k, x)
  BY DEF Lets
<1>2. /\ k'.state[t] = new
      /\ \A x \in Threads : /\ Runs(k', x) <=> (Runs(s, x) /\ x # t)
                            /\ x # t /\ ~Runs(k', x) => k'.state[x] = s.state[x]
  BY DEF Dozes
<1>3. call' \in [Threads -> Doings] /\ call'[t] = rest /\ \A x \in Threads \ {t} : call'[x] = call[x]
  BY DEF ThreadsFit
<1>4. call'[Idle] = User
  BY <1>3, SchdAssumption DEF ThreadsFit
<1>5. Runs(k', Idle)
  BY <1>1, <1>2, SchdAssumption DEF ThreadsFit
<1>6. ASSUME NEW x \in Threads
      PROVE  (~Runs(k', x) => AtRest(call'[x], k'.state[x])) /\ (Armed(k', x) => call'[x].op = "sleep")
  <2>1. CASE x = t
    BY <1>1, <1>2, <1>3, <2>1
  <2>2. CASE x # t
    <3>1. ~Runs(k', x) => ~Runs(k, x) /\ k'.state[x] = k.state[x]
      BY <1>1, <1>2, <2>2
    <3>2. Armed(k', x) => Armed(k, x)
      BY <1>1, <2>2
    <3>3. QED
      BY <1>3, <2>2, <3>1, <3>2 DEF ThreadsFit, CallsFit
  <2>3. QED
    BY <2>1, <2>2
<1>7. CallsFit(call', k')
  BY <1>6 DEF CallsFit
<1>8. QED
  BY <1>3, <1>4, <1>5, <1>7 DEF ThreadsFit, CallsFit, Sound, TopRuns, Runs, Settled

LEMMA FitsBack ==
    ASSUME ThreadsFit, NEW t \in Threads, t = k.current, t # Idle, Sound(k'), TopRuns(k'),
           Lets(k, k', {}), call' = [call EXCEPT ![t] = User], ~Armed(k', t)
    PROVE  ThreadsFit'
<1>1. \A x \in Threads : /\ Runs(k', x) <=> Runs(k, x)
                         /\ ~Runs(k', x) => k'.state[x] = k.state[x]
                         /\ Armed(k', x) => Armed(k, x)
  BY DEF Lets
<1>2. Runs(k, t)
  BY WhoCalls
<1>3. /\ call' \in [Threads -> Doings] /\ call'[t] = User /\ call'[Idle] = User
      /\ \A x \in Threads \ {t} : call'[x] = call[x]
  BY DoingsAre, SchdAssumption DEF ThreadsFit
<1>4. CallsFit(call', k')
  BY <1>1, <1>2, <1>3 DEF ThreadsFit, CallsFit
<1>5. Runs(k', Idle)
  BY <1>1, SchdAssumption DEF ThreadsFit
<1>6. QED
  BY <1>3, <1>4, <1>5 DEF ThreadsFit, CallsFit, Sound, TopRuns, Runs, Settled

\* The states that others have a part in, and those of no thread's life.
Special == {"WTEXIT", "SNDMSGQ", "SNDMSG", "WTMSG"}
Ended == {None, "FINAL"}

Still(S) == \A x \in Threads, state \in S : k'.state[x] = state <=> k.state[x] = state
SameLives == \A x \in Threads : k'.state[x] \in Ended <=> k.state[x] \in Ended
SameReceivers ==
    \A x \in Threads :
        call'[x].op = "receive" => call[x].op = "receive" /\ (Runs(k', x) => Runs(k, x))

Calm == Still(Special) /\ SameLives /\ SameReceivers

LEMMA LetsStates ==
    ASSUME NEW s, NEW r, NEW W, Lets(s, r, W)
    PROVE  /\ \A x \in Threads : x \notin W =>
                \A state : state \notin Runnable => (r.state[x] = state <=> s.state[x] = state)
           /\ \A x \in Threads : x \in W => r.state[x] \in Runnable
  BY DEF Lets, Runs

LEMMA Calms ==
    ASSUME ThreadsFit, NEW W, Lets(k, k', W), \A x \in Threads : x \in W => k.state[x] \notin Special \cup Ended,
           \A x \in Threads : call'[x].op = "receive" => call[x].op = "receive"
    PROVE  Calm
<1>1. Special \cap Runnable = {} /\ Ended \cap Runnable = {} /\ Special \cap Ended = {}
  BY DEF Special, Ended, Runnable, None
<1>2. \A x \in Threads : x \notin W =>
          \A state : state \notin Runnable => (k'.state[x] = state <=> k.state[x] = state)
  BY LetsStates
<1>3. \A x \in Threads : x \in W => k'.state[x] \in Runnable
  BY LetsStates
<1>4. Still(Special)
  BY <1>1, <1>2, <1>3 DEF Still
<1>5. SameLives
  BY <1>1, <1>2, <1>3 DEF SameLives
<1>6. ASSUME NEW x \in Threads, call'[x].op = "receive", Runs(k', x) PROVE Runs(k, x)
  <2>1. call[x].op = "receive" /\ call[x] # User
    BY <1>6, DoingsAre
  <2>2. ~Runs(k, x) => k.state[x] = "WTMSG"
    BY <2>1 DEF ThreadsFit, CallsFit, AtRest
  <2>3. QED
    BY <1>6, <2>2 DEF Lets, Special
<1>7. SameReceivers
  BY <1>6 DEF SameReceivers
<1>8. QED
  BY <1>4, <1>5, <1>7 DEF Calm

LEMMA TickFits ==
    ASSUME ThreadsFit, Tick
    PROVE  ThreadsFit' /\ Calm
<1> DEFINE r == Epilogue(SysTimerHandlerI(k))
           W == {t \in Threads : Runs(k', t) /\ ~Runs(k, t)}
<1>1. k' = r /\ UNCHANGED call /\ call[k.current] = User
  BY DEF Tick, InUser
<1>2. /\ k \in KernelStates(Notes, {}) /\ Placed(k) /\ Sorted(k)
      /\ Queue(Pars(k.vt), Threads) /\ OnTime(k) /\ k.current \in Threads
  BY SoundIs DEF ThreadsFit
<1>3. ASSUME NEW t \in Threads, Armed(k, t)
      PROVE  t # k.current /\ k.state[t] \notin WaitStates /\ (~Runs(k, t) => k.state[t] = "SLEEPING")
  <2>1. call[t].op = "sleep" /\ call[t] # User
    BY <1>3, DoingsAre DEF ThreadsFit, CallsFit
  <2>2. ~Runs(k, t) => k.state[t] = "SLEEPING"
    BY <2>1 DEF ThreadsFit, CallsFit, AtRest
  <2>3. QED
    BY <1>1, <2>1, <2>2 DEF WaitStates, Runs, Runnable
<1>4. /\ r \in KernelStates(Notes, {}) /\ Placed(r) /\ Queue(Pars(r.vt), Threads)
      /\ \A t \in Threads :
           /\ Armed(r, t) => Armed(k, t)
           /\ Runs(k, t) => Runs(r, t)
           /\ Runs(r, t) => Runs(k, t) \/ Armed(k, t)
           /\ ~Runs(r, t) => r.state[t] = k.state[t] /\ r.u[t] = k.u[t]
      /\ Ordered(r) /\ OnTime(r)
  <2>1. "TIMEOUT" \in Notes
    BY DEF Notes
  <2>2. QED
    BY <1>2, <1>3, <2>1, TickPlaces
<1> HIDE DEF r
<1>5. Sound(k') /\ TopRuns(k')
  BY <1>1, <1>4 DEF Sound, Settled, Ordered
<1>6. Lets(k, k', W)
  BY <1>1, <1>4 DEF Lets
<1>7. \A t \in Threads : t \in W => k.state[t] \notin Special \cup Ended
  BY <1>1, <1>3, <1>4 DEF Special, Ended, None
<1> HIDE DEF W
<1>8. ThreadsFit'
  BY <1>1, <1>5, <1>6, FitsLet
<1>9. Calm
  BY <1>1, <1>6, <1>7, Calms
<1>10. QED
  BY <1>8, <1>9

\* The calls that only let threads go, and those back from a sleep.
LEMMA LetsGo ==
    ASSUME ThreadsFit, Sound(k'), TopRuns(k'), NEW W, Lets(k, k', W),
           \A x \in Threads : x \in W => k.state[x] \notin Special \cup Ended, UNCHANGED call
    PROVE  ThreadsFit' /\ Calm
  BY FitsLet, Calms

LEMMA ComesBack ==
    ASSUME ThreadsFit, NEW t \in Threads, t = k.current, t # Idle, Sound(k'), TopRuns(k'),
           Lets(k, k', {}), call' = [call EXCEPT ![t] = User], ~Armed(k', t)
    PROVE  ThreadsFit' /\ Calm
<1>1. \A x \in Threads : call'[x].op = "receive" => call[x].op = "receive"
  BY DoingsAre DEF ThreadsFit
<1>2. Calm
  <2>1. \A x \in Threads : x \in {} => k.state[x] \notin Special \cup Ended
    OBVIOUS
  <2>2. QED
    BY <1>1, <2>1, Calms
<1>3. QED
  BY <1>2, FitsBack

LEMMA CallersAreNot ==
    ASSUME ThreadsFit, NEW t \in Threads
    PROVE  /\ Calls(t) => t = k.current /\ t # Idle /\ call[t] = User /\ call[t].op = "user"
           /\ \A op \in {"sleep", "send", "receive", "join"} :
                 IsBack(t, op) => t = k.current /\ t # Idle /\ call[t] # User
<1>1. call[Idle] = User /\ User.op = "user"
  BY DoingsAre DEF ThreadsFit
<1>2. QED
  BY <1>1 DEF Calls, InUser, IsBack

LEMMA SomeoneReady ==
    ASSUME ThreadsFit, NEW w \in Threads, k.state[w] \in {"SUSPENDED", "SNDMSG", "WTMSG", "WTEXIT"}
    PROVE  Elsewhere(k, w)
  BY DEF Elsewhere, Runnable, WaitStates

LEMMA ResumeFits ==
    ASSUME ThreadsFit, NEW c \in Threads,
           \/ \E t \in Threads : Resume(t, c)
           \/ ResumeI(c)
    PROVE  ThreadsFit' /\ Calm
<1>1. k.state[c] = "SUSPENDED" /\ UNCHANGED call /\ (k' = WakeupS(k, c, "OK") \/ k' = Epilogue(ReadyI(k, c)))
  BY DEF Resume, ResumeI, Returns
<1>2. Sound(k) /\ TopRuns(k) /\ "OK" \in Notes /\ Elsewhere(k, c)
  BY <1>1, SomeoneReady DEF ThreadsFit, Notes
<1>3. ASSUME k' = WakeupS(k, c, "OK") PROVE Sound(k') /\ TopRuns(k') /\ Lets(k, k', {c})
  BY <1>2, <1>3, Wakes
<1>4. ASSUME k' = Epilogue(ReadyI(k, c)) PROVE Sound(k') /\ TopRuns(k') /\ Lets(k, k', {c})
  <2> DEFINE r == ReadyI(k, c)
  <2>1. Sound(r) /\ Lets(k, r, {c})
    BY <1>2, Readied
  <2> HIDE DEF r
  <2>2. Sound(Epilogue(r)) /\ TopRuns(Epilogue(r)) /\ Lets(r, Epilogue(r), {})
    BY <2>1, Reschedulings
  <2>3. Lets(k, Epilogue(r), {c} \cup {})
    BY <2>1, <2>2, LetsMore
  <2>4. {c} \cup {} = {c}
    OBVIOUS
  <2>5. QED
    BY <1>4, <2>2, <2>3, <2>4 DEF r
<1>5. Sound(k') /\ TopRuns(k') /\ Lets(k, k', {c})
  BY <1>1, <1>3, <1>4
<1>6. k.state[c] \notin Special \cup Ended
  BY <1>1 DEF Special, Ended, None
<1>7. QED
  BY <1>1, <1>5, <1>6, LetsGo

LEMMA SetPriorityFits ==
    ASSUME ThreadsFit, NEW t \in Threads, NEW p \in Prios, SetPriority(t, p)
    PROVE  ThreadsFit' /\ Calm
<1> DEFINE s == [k EXCEPT !.prio[k.current] = p]
<1>1. t = k.current /\ k' = RescheduleS([k EXCEPT !.prio[t] = p]) /\ UNCHANGED call
  BY DEF SetPriority, Calls, Returns
<1>2. k' = RescheduleS(s)
  BY <1>1
<1>3. p \in Nat \ {0} /\ Sound(k)
  BY ThreadsAssumption DEF ThreadsFit
<1>4. Sound(s) /\ s.state = k.state /\ s.vt = k.vt
  BY <1>3, Retuned
<1> HIDE DEF s
<1>5. Lets(k, s, {})
  BY <1>4 DEF Lets, Runs, Armed
<1>6. Sound(k') /\ TopRuns(k') /\ Lets(s, k', {})
  BY <1>2, <1>4, Reschedulings
<1>7. Lets(k, k', {} \cup {})
  BY <1>5, <1>6, LetsMore
<1>8. QED
  BY <1>1, <1>6, <1>7, LetsGo

LEMMA YieldFits ==
    ASSUME ThreadsFit, NEW t \in Threads, Yield(t)
    PROVE  ThreadsFit' /\ Calm
  BY Yields, LetsGo DEF Yield, Returns, ThreadsFit

LEMMA SleepFits ==
    ASSUME ThreadsFit, NEW t \in Threads, NEW time \in Times, Sleep(t, time)
    PROVE  ThreadsFit' /\ Calm
<1> DEFINE rest == [op |-> "sleep"]
<1>1. /\ t = k.current /\ t # Idle /\ call[t] = User
      /\ k' = GoSleepTimeoutS(k, "SLEEPING", time) /\ call' = [call EXCEPT ![t] = rest]
  BY CallersAreNot DEF Sleep, Sleeps
<1>2. k.ready # <<>> /\ ~Armed(k, t) /\ Runs(k, t) /\ Sound(k) /\ time \in Nat \ {0}
  BY <1>1, WhoCalls, DoingsAre, ThreadsAssumption DEF ThreadsFit
<1>3. /\ Sound(k') /\ TopRuns(k') /\ Dozes(k, k', "SLEEPING")
      /\ \A x \in Threads : Armed(k', x) => Armed(k, x) \/ x = k.current
  BY <1>1, <1>2, Pauses
<1>4. Lets(k, k, {})
  BY DEF Lets
<1>5. rest \in Doings /\ rest.op = "sleep" /\ AtRest(rest, "SLEEPING")
  BY DEF Doings, AtRest
<1>6. \A x \in Threads : Armed(k', x) => Armed(k, x) \/ (x = t /\ rest.op = "sleep")
  BY <1>1, <1>3
<1> HIDE DEF rest
<1>7. ThreadsFit'
  BY <1>1, <1>2, <1>3, <1>4, <1>5, <1>6, FitsDoze
<1>8. Still(Special) /\ SameLives
  <2>1. \A x \in Threads : /\ Runs(k', x) <=> (Runs(k, x) /\ x # t)
                           /\ x # t /\ ~Runs(k', x) => k'.state[x] = k.state[x]
    BY <1>1, <1>3 DEF Dozes
  <2>2. k'.state[t] = "SLEEPING" /\ k.state[t] = "CURRENT"
    BY <1>1, <1>2, <1>3, SoundIs DEF Dozes
  <2>3. QED
    BY <2>1, <2>2 DEF Still, SameLives, Special, Ended, None, Runs, Runnable
<1>9. SameReceivers
  BY <1>1, <1>3, <1>5 DEF SameReceivers, Dozes, ThreadsFit
<1>10. QED
  BY <1>7, <1>8, <1>9 DEF Calm

LEMMA BackFits ==
    ASSUME ThreadsFit, NEW t \in Threads, SleepBack(t) \/ WaitBack(t) \/ MsgSendBack(t)
    PROVE  ThreadsFit' /\ Calm
<1>1. t = k.current /\ t # Idle /\ call' = [call EXCEPT ![t] = User]
  BY CallersAreNot DEF SleepBack, WaitBack, MsgSendBack, Sleeps
<1>2. Sound(k) /\ TopRuns(k)
  BY DEF ThreadsFit
<1>3. CASE SleepBack(t)
  <2>1. k' = AwakeS(k)
    BY <1>3 DEF SleepBack, Sleeps
  <2>2. /\ Settled(Notes, {}, k') /\ Unmoved(k, k') /\ TopRuns(k')
        /\ \A x \in Threads : Armed(k', x) <=> (Armed(k, x) /\ x # k.current)
    BY <1>2, <2>1, Awakens DEF Sound
  <2>3. Lets(k, k', {})
    BY <2>2 DEF Unmoved, Lets, Runs
  <2>4. ~Armed(k', t)
    BY <1>1, <2>2
  <2>5. QED
    BY <1>1, <2>2, <2>3, <2>4, ComesBack DEF Sound
<1>4. CASE WaitBack(t) \/ MsgSendBack(t)
  <2>1. k' = k /\ call[t].op # "sleep"
    BY <1>4 DEF WaitBack, MsgSendBack, Sleeps, IsBack
  <2>2. ~Armed(k, t)
    BY <1>1, <2>1, WhoCalls
  <2>3. Lets(k, k', {}) /\ Sound(k') /\ TopRuns(k') /\ ~Armed(k', t)
    BY <1>2, <2>1, <2>2 DEF Lets
  <2>4. QED
    BY <1>1, <2>3, ComesBack
<1>5. QED
  BY <1>3, <1>4

\* The current thread t sleeps in state new after the threads of W were let
\* go, or goes on if new is a state of those that run.
Moves(t, new, W) ==
    /\ k.state[t] = "CURRENT" /\ k'.state[t] = new
    /\ \A x \in Threads \ {t} :
         /\ x \in W => k'.state[x] \in Runnable
         /\ x \notin W => \A state \in States \ Runnable : k'.state[x] = state <=> k.state[x] = state
         /\ Runs(k', x) => Runs(k, x) \/ x \in W

\* A call in which thread t, which is current, first lets the threads of W go
\* and then sleeps.
LEMMA DozeMoves ==
    ASSUME ThreadsFit, NEW s, Sound(s), NEW W, Lets(k, s, W), s.current = k.current,
           NEW t \in Threads, Calls(t), NEW new \in States \ (Runnable \cup WaitStates),
           k' = GoSleepS(s, new),
           NEW rest \in Doings, AtRest(rest, new), call' = [call EXCEPT ![t] = rest]
    PROVE  ThreadsFit' /\ Moves(t, new, W)
<1>1. t = k.current /\ t # Idle /\ call[t] = User /\ call[t].op = "user"
  BY CallersAreNot
<1>2. k.state[t] = "CURRENT" /\ Runs(k, t) /\ ~Armed(k, t)
  BY <1>1, WhoCalls
<1>3. Runs(s, Idle)
  BY SchdAssumption DEF ThreadsFit, Lets
<1>4. s.ready # <<>>
  BY <1>1, <1>3, IdleIsReady
<1>5. /\ Sound(k') /\ TopRuns(k') /\ Dozes(s, k', new)
      /\ \A x \in Threads : Armed(k', x) => Armed(s, x)
  BY <1>4, Sleeping
<1>6. ThreadsFit'
  BY <1>1, <1>2, <1>5, FitsDoze
<1>7. /\ k'.state[t] = new
      /\ \A x \in Threads \ {t} : /\ Runs(k', x) <=> Runs(s, x)
                                  /\ ~Runs(k', x) => k'.state[x] = s.state[x]
  BY <1>1, <1>5 DEF Dozes
<1>8. \A x \in Threads : /\ Runs(s, x) <=> (Runs(k, x) \/ x \in W)
                         /\ ~Runs(s, x) => s.state[x] = k.state[x]
  BY DEF Lets
<1>9. ASSUME NEW x \in Threads \ {t}
      PROVE  /\ x \in W => k'.state[x] \in Runnable
             /\ x \notin W => \A state \in States \ Runnable : k'.state[x] = state <=> k.state[x] = state
             /\ Runs(k', x) => Runs(k, x) \/ x \in W
  BY <1>7, <1>8 DEF Runs
<1>10. QED
  BY <1>2, <1>6, <1>7, <1>9 DEF Moves

LEMMA ExitFits ==
    ASSUME ThreadsFit, NEW t \in Threads, Exit(t), Queue(waiting[t], Threads),
           \A x \in ToSet(waiting[t]) : k.state[x] = "WTEXIT"
    PROVE  ThreadsFit' /\ Moves(t, "FINAL", ToSet(waiting[t])) /\ UNCHANGED call
<1> DEFINE coded == [k EXCEPT !.u[k.current] = t]
           s == ReadyEvery(coded, waiting[t])
           W == ToSet(waiting[t])
<1>1. Calls(t) /\ t = k.current /\ call[t] = User
  BY CallersAreNot DEF Exit
<1>2. k' = GoSleepS(s, "FINAL") /\ call' = call
  BY <1>1 DEF Exit, Returns, ReadyEvery
<1>3. Sound(k) /\ t \in Notes
  BY DEF ThreadsFit, Notes
<1>4. Sound(coded) /\ coded.current = k.current /\ coded.state = k.state /\ coded.vt = k.vt
  BY <1>3, Noted
<1>5. Lets(k, coded, {})
  BY <1>4 DEF Lets, Runs, Armed
<1>6. \A x \in W : Elsewhere(coded, x)
  BY <1>4 DEF Elsewhere, Runnable, WaitStates
<1> HIDE DEF coded
<1>7. Sound(s) /\ Lets(coded, s, W) /\ s.current = k.current
  BY <1>4, <1>6, EveryoneReady
<1> HIDE DEF s
<1>8. Lets(k, s, W)
  <2>1. Lets(k, s, {} \cup W)
    BY <1>5, <1>7, LetsMore
  <2>2. {} \cup W = W
    OBVIOUS
  <2>3. QED
    BY <2>1, <2>2
<1>9. "FINAL" \in States \ (Runnable \cup WaitStates) /\ AtRest(User, "FINAL") /\ User \in Doings
  BY DoingsAre DEF States, Runnable, WaitStates, AtRest
<1>10. call' = [call EXCEPT ![t] = User]
  BY <1>1, <1>2 DEF ThreadsFit
<1> HIDE DEF W
<1>11. ThreadsFit' /\ Moves(t, "FINAL", W)
  BY <1>1, <1>2, <1>7, <1>8, <1>9, <1>10, DozeMoves
<1>12. QED
  BY <1>2, <1>11 DEF W

LEMMA LetsNobody == Lets(k, k, {})
  BY DEF Lets

LEMMA WaitFits ==
    ASSUME ThreadsFit, NEW t \in Threads, NEW c \in Threads, Wait(t, c)
    PROVE  ThreadsFit' /\ Moves(t, "WTEXIT", {}) /\ call'[t].op = "join"
           /\ \A x \in Threads \ {t} : call'[x] = call[x]
<1> DEFINE rest == [op |-> "join", of |-> c]
<1>1. Calls(t) /\ k' = GoSleepS(k, "WTEXIT") /\ call' = [call EXCEPT ![t] = rest]
  BY DEF Wait, Sleeps
<1>2. rest \in Doings /\ AtRest(rest, "WTEXIT") /\ rest.op = "join"
  BY DEF Doings, AtRest
<1>3. "WTEXIT" \in States \ (Runnable \cup WaitStates)
  BY DEF States, Runnable, WaitStates
<1> HIDE DEF rest
<1>4. Sound(k)
  BY DEF ThreadsFit
<1>5. ThreadsFit' /\ Moves(t, "WTEXIT", {})
  BY <1>1, <1>2, <1>3, <1>4, LetsNobody, DozeMoves
<1>6. QED
  BY <1>1, <1>2, <1>5 DEF ThreadsFit

LEMMA SendFits ==
    ASSUME ThreadsFit, NEW t \in Threads, NEW c \in Threads, MsgSend(t, c)
    PROVE  /\ ThreadsFit' /\ Moves(t, "SNDMSGQ", IF k.state[c] = "WTMSG" THEN {c} ELSE {})
           /\ call'[t].op = "send" /\ \A x \in Threads \ {t} : call'[x] = call[x]
<1> DEFINE rest == [op |-> "send"]
           W == IF k.state[c] = "WTMSG" THEN {c} ELSE {}
           s == IF k.state[c] = "WTMSG" THEN ReadyI(k, c) ELSE k
<1>1. Calls(t) /\ k' = GoSleepS(s, "SNDMSGQ") /\ call' = [call EXCEPT ![t] = rest]
  BY DEF MsgSend, Sleeps
<1>2. rest \in Doings /\ AtRest(rest, "SNDMSGQ") /\ rest.op = "send"
  BY DEF Doings, AtRest
<1>3. "SNDMSGQ" \in States \ (Runnable \cup WaitStates)
  BY DEF States, Runnable, WaitStates
<1>4. Sound(k)
  BY DEF ThreadsFit
<1>5. Sound(s) /\ Lets(k, s, W) /\ s.current = k.current
  BY <1>4, SomeoneReady, Readied, LetsNobody
<1> HIDE DEF rest, W, s
<1>6. ThreadsFit' /\ Moves(t, "SNDMSGQ", W)
  BY <1>1, <1>2, <1>3, <1>5, DozeMoves
<1>7. QED
  BY <1>1, <1>2, <1>6 DEF ThreadsFit, W

\* A thread is made: c did not live and now it does.
LEMMA CreateFits ==
    ASSUME ThreadsFit, NEW t \in Threads, NEW c \in Threads \ {Idle}, NEW p \in Prios,
           CreateI(t, c, p) \/ CreateStatic(t, c, p)
    PROVE  /\ ThreadsFit' /\ Still(Special) /\ SameReceivers /\ UNCHANGED call
           /\ k.state[c] = None /\ k'.state[c] \notin Ended
           /\ \A x \in Threads \ {c} : k'.state[x] \in Ended <=> k.state[x] \in Ended
<1> DEFINE s == Relabelled(k, c, "SUSPENDED", p)
<1>1. /\ k.state[c] = None /\ UNCHANGED call /\ Sound(k) /\ TopRuns(k)
      /\ k' = s \/ k' = WakeupS(s, c, "OK")
  BY DEF CreateI, CreateStatic, Returns, ThreadInit, ThreadsFit, Relabelled
<1>2. Elsewhere(k, c) /\ ~Runs(k, c)
  BY <1>1 DEF Elsewhere, Runs, Runnable, WaitStates, None
<1>3. "SUSPENDED" \in States \ (Runnable \cup WaitStates) /\ p \in Nat \ {0}
  BY ThreadsAssumption DEF States, Runnable, WaitStates
<1>4. /\ Sound(s) /\ TopRuns(s) /\ s.current = k.current /\ s.vt = k.vt
      /\ s.state = [k.state EXCEPT ![c] = "SUSPENDED"]
  BY <1>1, <1>2, <1>3, Relabels
<1> HIDE DEF s
<1>5. s.state[c] = "SUSPENDED" /\ \A x \in Threads \ {c} : s.state[x] = k.state[x]
  BY <1>1, <1>4, SoundIs
<1>6. Sound(k') /\ TopRuns(k') /\ (Lets(s, k', {c}) \/ k' = s)
  <2>1. CASE k' = s
    BY <1>4, <2>1
  <2>2. CASE k' = WakeupS(s, c, "OK")
    <3>1. "OK" \in Notes /\ Elsewhere(s, c)
      BY <1>5 DEF Notes, Elsewhere, Runnable, WaitStates
    <3>2. QED
      BY <1>4, <2>2, <3>1, Wakes
  <2>3. QED
    BY <1>1, <2>1, <2>2
<1>7. /\ \A x \in Threads \ {c} : /\ Runs(k', x) <=> Runs(k, x)
                                  /\ ~Runs(k', x) => k'.state[x] = k.state[x]
      /\ Runs(k', c) \/ k'.state[c] = "SUSPENDED"
      /\ \A x \in Threads : Armed(k', x) => Armed(k, x)
  <2>1. \A x \in Threads : Armed(s, x) <=> Armed(k, x)
    BY <1>4 DEF Armed
  <2>2. CASE Lets(s, k', {c})
    BY <1>5, <2>1, <2>2 DEF Lets, Runs
  <2>3. CASE k' = s
    BY <1>5, <2>1, <2>3 DEF Runs
  <2>4. QED
    BY <1>6, <2>2, <2>3
<1>8. call[c] = User /\ call[c].op = "user"
  <2>1. call[c] \in Doings /\ AtRest(call[c], None)
    BY <1>1, <1>2 DEF ThreadsFit, CallsFit
  <2>2. call[c] = User
    BY <2>1 DEF AtRest, None
  <2>3. QED
    BY <2>2, DoingsAre
<1>9. CallsFit(call, k')
  <2>1. ~Runs(k', c) => AtRest(call[c], k'.state[c])
    BY <1>7, <1>8 DEF AtRest
  <2>2. QED
    BY <1>7, <2>1 DEF ThreadsFit, CallsFit
<1>10. Runs(k', Idle)
  BY <1>7, SchdAssumption DEF ThreadsFit
<1>11. ThreadsFit'
  <2>1. Sound(k') /\ TopRuns(k')
    BY <1>4, <1>6
  <2>2. QED
    BY <1>1, <1>9, <1>10, <2>1 DEF ThreadsFit, CallsFit, Sound, TopRuns, Runs, Settled
<1>12. k'.state[c] \notin Ended \cup Special
  BY <1>7 DEF Runs, Runnable, Ended, Special, None
<1>13. Still(Special) /\ \A x \in Threads \ {c} : k'.state[x] \in Ended <=> k.state[x] \in Ended
  <2>1. Special \cap Runnable = {} /\ Ended \cap Runnable = {} /\ None \notin Special
    BY DEF Special, Ended, Runnable, None
  <2>2. QED
    BY <1>1, <1>7, <1>12, <2>1 DEF Still, Runs
<1>14. SameReceivers
  BY <1>1, <1>7, <1>8 DEF SameReceivers
<1>15. QED
  BY <1>1, <1>11, <1>12, <1>13, <1>14

\* The server takes a message: its client h waits for the answer.
LEMMA TakeFits ==
    ASSUME ThreadsFit, NEW t \in Threads, t = k.current, t # Idle, call[t].op # "sleep",
           NEW h \in Threads, k.state[h] = "SNDMSGQ",
           k' = [k EXCEPT !.state[h] = "SNDMSG"], call' = [call EXCEPT ![t] = User]
    PROVE  /\ ThreadsFit' /\ k'.state = [k.state EXCEPT ![h] = "SNDMSG"] /\ t # h
           /\ call'[t].op = "user" /\ \A x \in Threads \ {t} : call'[x] = call[x]
<1> DEFINE p == k.prio[h]
           s == Relabelled(k, h, "SNDMSG", p)
<1>1. Sound(k) /\ TopRuns(k) /\ k \in KernelStates(Notes, {}) /\ k.prio \in [Threads -> Nat \ {0}]
  BY SoundIs DEF ThreadsFit
<1>2. Elsewhere(k, h) /\ ~Runs(k, h)
  BY DEF Elsewhere, Runs, Runnable, WaitStates
<1>3. "SNDMSG" \in States \ (Runnable \cup WaitStates) /\ p \in Nat \ {0}
  BY <1>1 DEF States, Runnable, WaitStates
<1>4. k' = s
  <2>1. [k.prio EXCEPT ![h] = p] = k.prio
    BY <1>1
  <2>2. QED
    BY <1>1, <2>1 DEF KernelStates, Relabelled
<1> HIDE DEF p
<1>5. /\ Sound(s) /\ TopRuns(s) /\ s.current = k.current /\ s.vt = k.vt
      /\ s.state = [k.state EXCEPT ![h] = "SNDMSG"]
  BY <1>1, <1>2, <1>3, Relabels
<1> HIDE DEF s
<1>6. /\ Sound(k') /\ TopRuns(k') /\ k'.vt = k.vt
      /\ k'.state = [k.state EXCEPT ![h] = "SNDMSG"]
  BY <1>4, <1>5
<1>7. k'.state[h] = "SNDMSG" /\ \A x \in Threads \ {h} : k'.state[x] = k.state[x]
  BY <1>1, <1>6, SoundIs
<1>8. Runs(k, t) /\ k.state[t] = "CURRENT" /\ ~Armed(k, t)
  BY WhoCalls
<1>9. /\ \A x \in Threads : Armed(k', x) <=> Armed(k, x)
      /\ \A x \in Threads : Runs(k', x) <=> Runs(k, x)
  BY <1>2, <1>6, <1>7 DEF Armed, Runs, Runnable
<1>10. /\ call' \in [Threads -> Doings] /\ call'[Idle] = User /\ call'[t].op = "user"
       /\ \A x \in Threads \ {t} : call'[x] = call[x]
  BY DoingsAre, SchdAssumption DEF ThreadsFit
<1>11. call[h].op = "send"
  <2>1. AtRest(call[h], "SNDMSGQ")
    BY <1>2 DEF ThreadsFit, CallsFit
  <2>2. QED
    BY <2>1 DEF AtRest, None
<1>12. CallsFit(call', k')
  <2>1. ASSUME NEW x \in Threads, ~Runs(k', x) PROVE AtRest(call'[x], k'.state[x])
    <3>1. x # t /\ ~Runs(k, x) /\ call'[x] = call[x]
      BY <1>8, <1>9, <1>10, <2>1
    <3>2. CASE x = h
      BY <1>7, <1>11, <3>1, <3>2 DEF AtRest
    <3>3. CASE x # h
      BY <1>7, <3>1, <3>3 DEF ThreadsFit, CallsFit
    <3>4. QED
      BY <3>2, <3>3
  <2>2. ASSUME NEW x \in Threads, Armed(k', x) PROVE call'[x].op = "sleep"
    BY <1>8, <1>9, <1>10, <2>2 DEF ThreadsFit, CallsFit
  <2>3. QED
    BY <2>1, <2>2 DEF CallsFit
<1>13. Runs(k', Idle)
  BY <1>9, SchdAssumption DEF ThreadsFit
<1>14. ThreadsFit'
  BY <1>6, <1>10, <1>12, <1>13 DEF ThreadsFit, CallsFit, Sound, TopRuns, Runs, Settled
<1>15. QED
  BY <1>6, <1>8, <1>10, <1>14

\* The server sleeps until there is a message.
LEMMA ReceiveFits ==
    ASSUME ThreadsFit, NEW t \in Threads, Calls(t), Sleeps(t, GoSleepS(k, "WTMSG"), [op |-> "receive"])
    PROVE  ThreadsFit' /\ Moves(t, "WTMSG", {}) /\ call'[t].op = "receive"
           /\ \A x \in Threads \ {t} : call'[x] = call[x]
<1> DEFINE rest == [op |-> "receive"]
<1>1. k' = GoSleepS(k, "WTMSG") /\ call' = [call EXCEPT ![t] = rest]
  BY DEF Sleeps
<1>2. rest \in Doings /\ AtRest(rest, "WTMSG") /\ rest.op = "receive"
  BY DEF Doings, AtRest
<1>3. "WTMSG" \in States \ (Runnable \cup WaitStates)
  BY DEF States, Runnable, WaitStates
<1> HIDE DEF rest
<1>4. Sound(k)
  BY DEF ThreadsFit
<1>5. ThreadsFit' /\ Moves(t, "WTMSG", {})
  BY <1>1, <1>2, <1>3, <1>4, LetsNobody, DozeMoves
<1>6. QED
  BY <1>1, <1>2, <1>5 DEF ThreadsFit

\* The server answers its client c.
LEMMA AnswerFits ==
    ASSUME ThreadsFit, NEW c \in Threads, k.state[c] = "SNDMSG", Returns(WakeupS(k, c, "OK"))
    PROVE  ThreadsFit' /\ Lets(k, k', {c}) /\ UNCHANGED call
<1>1. Sound(k) /\ TopRuns(k) /\ "OK" \in Notes /\ Elsewhere(k, c)
  BY SomeoneReady DEF ThreadsFit, Notes
<1>2. k' = WakeupS(k, c, "OK") /\ UNCHANGED call
  BY DEF Returns
<1>3. Sound(k') /\ TopRuns(k') /\ Lets(k, k', {c})
  BY <1>1, <1>2, Wakes
<1>4. QED
  BY <1>2, <1>3, FitsLet

-----------------------------------------------------------------------------
(* Who waits for whom.                                                      *)

One(S) == \E x \in S : S = {x}

\* The queues w that thread t is in, and the servers that hold its message.
Joined(w, t) == {c \in Threads : t \in ToSet(w[c])}
Served(t) == {c \in Threads : serving[c] = t}

Queues(w) == w \in [Threads -> Seq(Threads)] /\ \A c \in Threads : Queue(w[c], Threads)

\* The threads that wait in the queues w are those in the given state, and
\* each waits once.
Awaited(w, state) ==
    \A t \in Threads : IF k.state[t] = state THEN One(Joined(w, t)) ELSE Joined(w, t) = {}

WaitInv ==
    /\ Queues(waiting) /\ Awaited(waiting, "WTEXIT")
    /\ \A c \in Threads : k.state[c] \in Ended => waiting[c] = <<>>

\* A server that is on its way back from its sleep finds a message.
MsgInv ==
    /\ Queues(msgqueue) /\ Awaited(msgqueue, "SNDMSGQ")
    /\ serving \in [Threads -> Threads \cup {None}]
    /\ \A t \in Threads : IF k.state[t] = "SNDMSG" THEN One(Served(t)) ELSE Served(t) = {}
    /\ \A t \in Threads :
         /\ k.state[t] = "WTMSG" => msgqueue[t] = <<>>
         /\ call[t].op = "receive" => serving[t] = None /\ (Runs(k, t) => msgqueue[t] # <<>>)

\* Queue c of w becomes q.
Becomes(w, v, c, q) == v \in [Threads -> Seq(Threads)] /\ v[c] = q /\ \A d \in Threads \ {c} : v[d] = w[d]

LEMMA OneBecomes ==
    ASSUME NEW w \in [Threads -> Seq(Threads)], NEW c \in Threads, NEW q, Queue(q, Threads)
    PROVE  Becomes(w, [w EXCEPT ![c] = q], c, q)
  BY DEF Becomes, Queue

LEMMA JoinedSets ==
    ASSUME NEW w, NEW v, NEW c \in Threads, NEW q, Becomes(w, v, c, q), NEW x
    PROVE  Joined(v, x) = IF x \in ToSet(q) THEN Joined(w, x) \cup {c} ELSE Joined(w, x) \ {c}
  BY DEF Joined, Becomes

LEMMA QueuesChange ==
    ASSUME NEW w, Queues(w), NEW v, NEW c \in Threads, NEW q, Queue(q, Threads), Becomes(w, v, c, q)
    PROVE  Queues(v)
  BY DEF Queues, Queue, Becomes

LEMMA PrependedQueue ==
    ASSUME NEW q, Queue(q, Threads), NEW t \in Threads, t \notin ToSet(q)
    PROVE  Queue(<<t>> \o q, Threads) /\ ToSet(<<t>> \o q) = ToSet(q) \cup {t}
<1> DEFINE r == <<t>> \o q
<1>1. q \in Seq(Threads) /\ Len(q) \in Nat /\ DOMAIN q = 1..Len(q)
      /\ \A i, j \in 1..Len(q) : q[i] = q[j] => i = j
  BY QueueSet DEF Queue, IsInjective
<1>2. /\ r \in Seq(Threads) /\ Len(r) = Len(q) + 1 /\ r[1] = t
      /\ \A i \in 2..Len(r) : r[i] = q[i - 1]
  BY <1>1
<1> HIDE DEF r
<1>3. ToSet(q) = {q[i] : i \in 1..Len(q)} /\ ToSet(r) = {r[i] : i \in 1..Len(r)}
  BY <1>1, <1>2, QueueSet
<1>4. \A i \in 1..Len(q) : q[i] # t
  BY <1>3
<1>5. ASSUME NEW i \in 1..Len(r), NEW j \in 1..Len(r), r[i] = r[j]
      PROVE  i = j
  <2>1. CASE i = 1 /\ j = 1
    BY <2>1
  <2>2. CASE i # 1 /\ j # 1
    <3>1. i \in 2..Len(r) /\ j \in 2..Len(r) /\ i - 1 \in 1..Len(q) /\ j - 1 \in 1..Len(q)
      BY <1>1, <1>2, <2>2
    <3>2. q[i - 1] = q[j - 1]
      BY <1>2, <1>5, <3>1
    <3>3. i - 1 = j - 1
      BY <1>1, <3>1, <3>2
    <3>4. QED
      BY <3>1, <3>3
  <2>3. CASE i = 1 /\ j # 1
    BY <1>1, <1>2, <1>4, <1>5, <2>3
  <2>4. CASE i # 1 /\ j = 1
    BY <1>1, <1>2, <1>4, <1>5, <2>4
  <2>5. QED
    BY <2>1, <2>2, <2>3, <2>4
<1>6. Queue(r, Threads)
  BY <1>2, <1>5 DEF Queue, IsInjective
<1>7. ASSUME NEW x \in ToSet(r) PROVE x \in ToSet(q) \cup {t}
  BY <1>1, <1>2, <1>3, <1>7
<1>8. ASSUME NEW x \in ToSet(q) \cup {t} PROVE x \in ToSet(r)
  <2>1. CASE x = t
    BY <1>1, <1>2, <1>3, <2>1
  <2>2. CASE x \in ToSet(q)
    <3>1. PICK i \in 1..Len(q) : x = q[i]
      BY <1>3, <2>2
    <3>2. i + 1 \in 1..Len(r) /\ r[i + 1] = x
      BY <1>1, <1>2, <3>1
    <3>3. QED
      BY <1>3, <3>2
  <2>3. QED
    BY <2>1, <2>2
<1>9. QED
  BY <1>6, <1>7, <1>8 DEF r

\* Steps that have no part in joining, and those that have none in messages.
LEMMA WaitStays ==
    ASSUME WaitInv, Still({"WTEXIT"}), UNCHANGED waiting,
           \A x \in Threads : k'.state[x] \in Ended => k.state[x] \in Ended
    PROVE  WaitInv'
<1>1. \A x \in Threads : k'.state[x] = "WTEXIT" <=> k.state[x] = "WTEXIT"
  BY DEF Still
<1>2. QED
  BY <1>1 DEF WaitInv, Awaited, Joined, Queues

LEMMA MsgStays ==
    ASSUME MsgInv, Still({"SNDMSGQ", "SNDMSG", "WTMSG"}), SameReceivers, UNCHANGED <<msgqueue, serving>>
    PROVE  MsgInv'
<1>1. \A x \in Threads : /\ k'.state[x] = "SNDMSGQ" <=> k.state[x] = "SNDMSGQ"
                         /\ k'.state[x] = "SNDMSG" <=> k.state[x] = "SNDMSG"
                         /\ k'.state[x] = "WTMSG" <=> k.state[x] = "WTMSG"
  BY DEF Still
<1>2. Awaited(msgqueue, "SNDMSGQ")'
  BY <1>1 DEF MsgInv, Awaited, Joined
<1>3. Queues(msgqueue)' /\ serving' \in [Threads -> Threads \cup {None}]
  BY DEF MsgInv, Queues
<1>4. \A t \in Threads : IF k'.state[t] = "SNDMSG" THEN One(Served(t)') ELSE Served(t)' = {}
  BY <1>1 DEF MsgInv, Served
<1>5. \A t \in Threads :
        /\ k'.state[t] = "WTMSG" => msgqueue'[t] = <<>>
        /\ call'[t].op = "receive" => serving'[t] = None /\ (Runs(k, t)' => msgqueue'[t] # <<>>)
  BY <1>1 DEF MsgInv, SameReceivers, Runs
<1>6. QED
  BY <1>2, <1>3, <1>4, <1>5 DEF MsgInv, One

LEMMA ExitWaits ==
    ASSUME WaitInv, NEW t \in Threads, Moves(t, "FINAL", ToSet(waiting[t])),
           waiting' = [waiting EXCEPT ![t] = <<>>]
    PROVE  WaitInv'
<1>1. /\ Queue(<<>>, Threads) /\ Queues(waiting) /\ ToSet(<<>>) = {}
      /\ Becomes(waiting, waiting', t, <<>>)
  BY NothingQueued, OneBecomes DEF WaitInv, Queues
<1>2. Queues(waiting')
  BY <1>1, QueuesChange
<1>3. \A x \in Threads : Joined(waiting', x) = Joined(waiting, x) \ {t}
  <2>1. \A x : x \notin ToSet(<<>>)
    BY <1>1
  <2>2. QED
    BY <1>1, <2>1, JoinedSets
<1>4. "WTEXIT" \in States \ Runnable /\ Ended \subseteq States \ Runnable
  BY DEF States, Runnable, Ended, None
<1>5. ASSUME NEW x \in Threads
      PROVE  IF k'.state[x] = "WTEXIT" THEN One(Joined(waiting', x)) ELSE Joined(waiting', x) = {}
  <2>1. CASE x = t
    <3>1. k.state[x] # "WTEXIT" /\ k'.state[x] # "WTEXIT"
      BY <2>1 DEF Moves
    <3>2. QED
      BY <1>3, <3>1 DEF WaitInv, Awaited
  <2>2. CASE x # t /\ x \in ToSet(waiting[t])
    <3>1. t \in Joined(waiting, x) /\ k'.state[x] # "WTEXIT"
      BY <1>4, <2>2 DEF Joined, Moves
    <3>2. One(Joined(waiting, x))
      BY <3>1 DEF WaitInv, Awaited
    <3>3. Joined(waiting, x) = {t}
      BY <3>1, <3>2 DEF One
    <3>4. QED
      BY <1>3, <3>1, <3>3
  <2>3. CASE x # t /\ x \notin ToSet(waiting[t])
    <3>1. t \notin Joined(waiting, x) /\ (k'.state[x] = "WTEXIT" <=> k.state[x] = "WTEXIT")
      BY <1>4, <2>3 DEF Joined, Moves
    <3>2. Joined(waiting', x) = Joined(waiting, x)
      BY <1>3, <3>1
    <3>3. QED
      BY <3>1, <3>2 DEF WaitInv, Awaited
  <2>4. QED
    BY <2>1, <2>2, <2>3
<1>6. ASSUME NEW x \in Threads, k'.state[x] \in Ended PROVE waiting'[x] = <<>>
  <2>1. CASE x = t
    BY <1>1, <2>1 DEF Becomes
  <2>2. CASE x # t
    <3>1. k.state[x] \in Ended
      BY <1>4, <1>6, <2>2 DEF Moves
    <3>2. QED
      BY <1>1, <2>2, <3>1 DEF WaitInv, Becomes
  <2>3. QED
    BY <2>1, <2>2
<1>7. QED
  BY <1>2, <1>5, <1>6 DEF WaitInv, Awaited

LEMMA JoinWaits ==
    ASSUME WaitInv, NEW t \in Threads, NEW c \in Threads, Moves(t, "WTEXIT", {}), c # t,
           k.state[c] \notin Ended, waiting' = [waiting EXCEPT ![c] = <<t>> \o @]
    PROVE  WaitInv'
<1> DEFINE q == <<t>> \o waiting[c]
<1>1. /\ waiting \in [Threads -> Seq(Threads)] /\ Queues(waiting) /\ Queue(waiting[c], Threads)
      /\ waiting' = [waiting EXCEPT ![c] = q]
  BY DEF WaitInv, Queues
<1>2. \A x \in Threads \ {c} : waiting'[x] = waiting[x]
  BY <1>1
<1>3. k.state[t] # "WTEXIT" /\ Joined(waiting, t) = {}
  BY DEF WaitInv, Awaited, Moves
<1>4. t \notin ToSet(waiting[c])
  BY <1>3 DEF Joined
<1>5. Queue(q, Threads) /\ ToSet(q) = ToSet(waiting[c]) \cup {t}
  BY <1>1, <1>4, PrependedQueue
<1> HIDE DEF q
<1>6. Becomes(waiting, waiting', c, q)
  BY <1>1, <1>5, OneBecomes, ZenonT(40)
<1>7. Queues(waiting')
  BY <1>1, <1>5, <1>6, QueuesChange
<1>8. \A x \in Threads : Joined(waiting', x) = IF x \in ToSet(q) THEN Joined(waiting, x) \cup {c}
                                                                 ELSE Joined(waiting, x) \ {c}
  <2> DEFINE v == waiting'
  <2>1. Becomes(waiting, v, c, q)
    BY <1>6
  <2> HIDE DEF v
  <2>2. \A x \in Threads : Joined(v, x) = IF x \in ToSet(q) THEN Joined(waiting, x) \cup {c}
                                                          ELSE Joined(waiting, x) \ {c}
    BY <2>1, JoinedSets
  <2>3. QED
    BY <2>2 DEF v
<1>9. "WTEXIT" \in States \ Runnable /\ Ended \subseteq States \ Runnable /\ "WTEXIT" \notin Ended
  BY DEF States, Runnable, Ended, None
<1>10. ASSUME NEW x \in Threads
      PROVE  IF k'.state[x] = "WTEXIT" THEN One(Joined(waiting', x)) ELSE Joined(waiting', x) = {}
  <2>1. CASE x = t
    <3>1. k'.state[x] = "WTEXIT" /\ Joined(waiting', x) = {c}
      BY <1>3, <1>5, <1>8, <2>1 DEF Moves
    <3>2. QED
      BY <3>1 DEF One
  <2>2. CASE x # t
    <3>1. k'.state[x] = "WTEXIT" <=> k.state[x] = "WTEXIT"
      BY <1>9, <2>2 DEF Moves
    <3>2. c \in Joined(waiting, x) <=> x \in ToSet(q)
      BY <1>5, <2>2 DEF Joined
    <3>3. Joined(waiting', x) = Joined(waiting, x)
      BY <1>8, <3>2, ZenonT(40)
    <3>4. QED
      BY <3>1, <3>3 DEF WaitInv, Awaited
  <2>3. QED
    BY <2>1, <2>2
<1>11. ASSUME NEW x \in Threads, k'.state[x] \in Ended PROVE waiting'[x] = <<>>
  <2>1. x # t /\ k.state[x] \in Ended
    BY <1>9, <1>11 DEF Moves
  <2>2. x # c
    BY <2>1
  <2>3. QED
    BY <1>2, <2>1, <2>2 DEF WaitInv
<1>12. QED
  BY <1>7, <1>10, <1>11 DEF WaitInv, Awaited

LEMMA MsgStates ==
    /\ {"SNDMSGQ", "SNDMSG", "WTMSG"} \subseteq States \ Runnable
    /\ {"SNDMSGQ", "SNDMSG", "WTMSG"} \cap Ended = {}
  BY DEF States, Runnable, Ended, None

LEMMA SendKeeps ==
    ASSUME MsgInv, ThreadsFit, NEW t \in Threads, NEW c \in Threads, c # t,
           Moves(t, "SNDMSGQ", IF k.state[c] = "WTMSG" THEN {c} ELSE {}),
           call'[t].op = "send", \A x \in Threads \ {t} : call'[x] = call[x],
           msgqueue' = [msgqueue EXCEPT ![c] = Append(@, t)], UNCHANGED serving
    PROVE  MsgInv'
<1> DEFINE q == Append(msgqueue[c], t)
           W == IF k.state[c] = "WTMSG" THEN {c} ELSE {}
<1>1. /\ Queues(msgqueue) /\ msgqueue \in [Threads -> Seq(Threads)] /\ Queue(msgqueue[c], Threads)
      /\ Awaited(msgqueue, "SNDMSGQ") /\ serving \in [Threads -> Threads \cup {None}]
  BY DEF MsgInv, Queues
<1>2. k.state[t] = "CURRENT" /\ Joined(msgqueue, t) = {}
  BY <1>1 DEF Awaited, Moves
<1>3. t \notin ToSet(msgqueue[c])
  BY <1>2 DEF Joined
<1>4. Queue(q, Threads) /\ ToSet(q) = ToSet(msgqueue[c]) \cup {t} /\ q # <<>>
  <2>1. Queue(q, Threads) /\ ToSet(q) = ToSet(msgqueue[c]) \cup {t}
    BY <1>1, <1>3, AppendedQueue
  <2>2. q \in Seq(Threads) /\ ToSet(q) # {}
    BY <2>1 DEF Queue
  <2> HIDE DEF q
  <2>3. QED
    BY <2>1, <2>2, QueueSet
<1>5. Becomes(msgqueue, msgqueue', c, q)
  BY <1>1, <1>4, OneBecomes
<1> HIDE DEF q
<1>6. Queues(msgqueue')
  BY <1>1, <1>4, <1>5, QueuesChange
<1>7. \A x \in Threads : Joined(msgqueue', x) = IF x \in ToSet(q) THEN Joined(msgqueue, x) \cup {c}
                                                                  ELSE Joined(msgqueue, x) \ {c}
  <2> DEFINE v == msgqueue'
  <2>1. Becomes(msgqueue, v, c, q)
    BY <1>5
  <2> HIDE DEF v
  <2>2. \A x \in Threads : Joined(v, x) = IF x \in ToSet(q) THEN Joined(msgqueue, x) \cup {c}
                                                          ELSE Joined(msgqueue, x) \ {c}
    BY <2>1, JoinedSets
  <2>3. QED
    BY <2>2 DEF v
<1>8. /\ k'.state[t] = "SNDMSGQ" /\ \A x : x \in W => x = c /\ k.state[c] = "WTMSG"
      /\ k.state[c] = "WTMSG" => c \in W
      /\ \A x \in Threads \ {t} :
           /\ x \in W => k'.state[x] \in Runnable
           /\ x \notin W => \A state \in States \ Runnable : k'.state[x] = state <=> k.state[x] = state
           /\ Runs(k', x) => Runs(k, x) \/ x \in W
  BY DEF Moves
<1> HIDE DEF W
<1>9. \A x \in Threads \ {t} :
        /\ k'.state[x] = "SNDMSGQ" <=> k.state[x] = "SNDMSGQ"
        /\ k'.state[x] = "SNDMSG" <=> k.state[x] = "SNDMSG"
        /\ k'.state[x] = "WTMSG" => k.state[x] = "WTMSG" /\ x # c
  BY <1>8, MsgStates
<1>10. ASSUME NEW x \in Threads
       PROVE  IF k'.state[x] = "SNDMSGQ" THEN One(Joined(msgqueue', x)) ELSE Joined(msgqueue', x) = {}
  <2>1. CASE x = t
    <3>1. Joined(msgqueue', x) = {c}
      BY <1>2, <1>4, <1>7, <2>1
    <3>2. QED
      BY <1>8, <2>1, <3>1 DEF One
  <2>2. CASE x # t
    <3>1. c \in Joined(msgqueue, x) <=> x \in ToSet(q)
      BY <1>4, <2>2 DEF Joined
    <3>2. Joined(msgqueue', x) = Joined(msgqueue, x)
      BY <1>7, <3>1
    <3>3. QED
      BY <1>1, <1>9, <2>2, <3>2 DEF Awaited
  <2>3. QED
    BY <2>1, <2>2
<1>11. ASSUME NEW x \in Threads
       PROVE  IF k'.state[x] = "SNDMSG" THEN One(Served(x)') ELSE Served(x)' = {}
  <2>1. Served(x)' = Served(x)
    BY DEF Served
  <2>2. x = t => k.state[x] # "SNDMSG" /\ k'.state[x] # "SNDMSG"
    BY <1>2, <1>8
  <2>3. k'.state[x] = "SNDMSG" <=> k.state[x] = "SNDMSG"
    BY <1>9, <2>2
  <2>4. QED
    BY <2>1, <2>3 DEF MsgInv
<1>12. ASSUME NEW x \in Threads
       PROVE  /\ k'.state[x] = "WTMSG" => msgqueue'[x] = <<>>
              /\ call'[x].op = "receive" => serving'[x] = None /\ (Runs(k', x) => msgqueue'[x] # <<>>)
  <2>1. k'.state[x] = "WTMSG" => msgqueue'[x] = <<>>
    <3>1. k'.state[x] = "WTMSG" => x # t /\ x # c /\ k.state[x] = "WTMSG"
      BY <1>8, <1>9
    <3>2. QED
      BY <1>5, <3>1 DEF MsgInv, Becomes
  <2>2. ASSUME call'[x].op = "receive" PROVE serving'[x] = None /\ (Runs(k', x) => msgqueue'[x] # <<>>)
    <3>1. x # t /\ call[x].op = "receive" /\ serving[x] = None
      BY <2>2 DEF MsgInv
    <3>2. CASE x = c
      BY <1>4, <1>5, <3>1, <3>2 DEF Becomes
    <3>3. CASE x # c
      <4>1. Runs(k', x) => Runs(k, x)
        BY <1>8, <3>1, <3>3
      <4>2. msgqueue'[x] = msgqueue[x]
        BY <1>5, <3>3 DEF Becomes
      <4>3. QED
        BY <3>1, <4>1, <4>2 DEF MsgInv
    <3>4. QED
      BY <3>2, <3>3
  <2>3. QED
    BY <2>1, <2>2
<1>13. Awaited(msgqueue, "SNDMSGQ")'
  BY <1>10 DEF Awaited
<1>14. serving' \in [Threads -> Threads \cup {None}]
  BY <1>1
<1>15. QED
  BY <1>6, <1>11, <1>12, <1>13, <1>14 DEF MsgInv, One, Served, Runs

LEMMA TakeKeeps ==
    ASSUME MsgInv, NEW t \in Threads, k.state[t] = "CURRENT", serving[t] = None, msgqueue[t] # <<>>,
           NEW h, h = Head(msgqueue[t]), k.state \in [Threads -> States],
           k'.state = [k.state EXCEPT ![h] = "SNDMSG"], t # h,
           call'[t].op = "user", \A x \in Threads \ {t} : call'[x] = call[x],
           serving' = [serving EXCEPT ![t] = h],
           msgqueue' = [msgqueue EXCEPT ![t] = Tail(@)]
    PROVE  MsgInv'
<1> DEFINE q == Tail(msgqueue[t])
<1>1. /\ Queues(msgqueue) /\ msgqueue \in [Threads -> Seq(Threads)] /\ Queue(msgqueue[t], Threads)
      /\ Awaited(msgqueue, "SNDMSGQ") /\ serving \in [Threads -> Threads \cup {None}]
  BY DEF MsgInv, Queues
<1>2. Queue(q, Threads) /\ h \in ToSet(msgqueue[t]) /\ h \in Threads /\ ToSet(q) = ToSet(msgqueue[t]) \ {h}
  BY <1>1, TailQueue
<1>3. Becomes(msgqueue, msgqueue', t, q)
  BY <1>1, <1>2, OneBecomes
<1> HIDE DEF q
<1>4. Queues(msgqueue')
  BY <1>1, <1>2, <1>3, QueuesChange
<1>5. \A x \in Threads : Joined(msgqueue', x) = IF x \in ToSet(q) THEN Joined(msgqueue, x) \cup {t}
                                                                  ELSE Joined(msgqueue, x) \ {t}
  <2> DEFINE v == msgqueue'
  <2>1. Becomes(msgqueue, v, t, q)
    BY <1>3
  <2> HIDE DEF v
  <2>2. \A x \in Threads : Joined(v, x) = IF x \in ToSet(q) THEN Joined(msgqueue, x) \cup {t}
                                                          ELSE Joined(msgqueue, x) \ {t}
    BY <2>1, JoinedSets
  <2>3. QED
    BY <2>2 DEF v
<1>6. t \in Joined(msgqueue, h)
  BY <1>2 DEF Joined
<1>7. k.state[h] = "SNDMSGQ" /\ Joined(msgqueue, h) = {t}
  BY <1>1, <1>2, <1>6 DEF Awaited, One
<1>8. k'.state[h] = "SNDMSG" /\ \A x \in Threads \ {h} : k'.state[x] = k.state[x]
  BY <1>2
<1>9. ASSUME NEW x \in Threads
      PROVE  IF k'.state[x] = "SNDMSGQ" THEN One(Joined(msgqueue', x)) ELSE Joined(msgqueue', x) = {}
  <2>1. CASE x = h
    BY <1>2, <1>5, <1>7, <1>8, <2>1
  <2>2. CASE x # h
    <3>1. t \in Joined(msgqueue, x) <=> x \in ToSet(q)
      BY <1>2, <2>2 DEF Joined
    <3>2. Joined(msgqueue', x) = Joined(msgqueue, x)
      <4>1. CASE x \in ToSet(q)
        <5>1. Joined(msgqueue', x) = Joined(msgqueue, x) \cup {t}
          BY <1>5, <4>1
        <5>2. QED
          BY <3>1, <4>1, <5>1
      <4>2. CASE x \notin ToSet(q)
        <5>1. Joined(msgqueue', x) = Joined(msgqueue, x) \ {t}
          BY <1>5, <4>2
        <5>2. QED
          BY <3>1, <4>2, <5>1
      <4>3. QED
        BY <4>1, <4>2
    <3>3. QED
      BY <1>1, <1>8, <2>2, <3>2 DEF Awaited
  <2>3. QED
    BY <2>1, <2>2
<1>10. /\ serving' \in [Threads -> Threads \cup {None}] /\ serving'[t] = h
       /\ \A x \in Threads \ {t} : serving'[x] = serving[x]
  BY <1>1, <1>2
<1>11. None \notin Threads
  BY ThreadsAssumption
<1>12. ASSUME NEW x \in Threads
       PROVE  IF k'.state[x] = "SNDMSG" THEN One(Served(x)') ELSE Served(x)' = {}
  <2>1. CASE x = h
    <3>1. Served(h) = {}
      BY <1>2, <1>7 DEF MsgInv
    <3>2. Served(h)' = {t}
      BY <1>10, <3>1 DEF Served
    <3>3. QED
      BY <1>8, <2>1, <3>2 DEF One
  <2>2. CASE x # h
    <3>1. Served(x)' = Served(x)
      BY <1>10, <1>11, <2>2 DEF Served
    <3>2. QED
      BY <1>8, <2>2, <3>1 DEF MsgInv
  <2>3. QED
    BY <2>1, <2>2
<1>13. ASSUME NEW x \in Threads
       PROVE  /\ k'.state[x] = "WTMSG" => msgqueue'[x] = <<>>
              /\ call'[x].op = "receive" => serving'[x] = None /\ (Runs(k', x) => msgqueue'[x] # <<>>)
  <2>1. CASE x = t
    <3>1. k'.state[x] = "CURRENT"
      BY <1>8, <2>1
    <3>2. QED
      BY <2>1, <3>1
  <2>2. CASE x # t
    <3>1. msgqueue'[x] = msgqueue[x] /\ serving'[x] = serving[x] /\ call'[x] = call[x]
      BY <1>3, <1>10, <2>2 DEF Becomes
    <3>2. (k'.state[x] = "WTMSG" => k.state[x] = "WTMSG") /\ (Runs(k', x) => Runs(k, x))
      BY <1>7, <1>8 DEF Runs, Runnable
    <3>3. QED
      BY <3>1, <3>2 DEF MsgInv
  <2>3. QED
    BY <2>1, <2>2
<1>14. Awaited(msgqueue, "SNDMSGQ")'
  BY <1>9 DEF Awaited
<1>15. QED
  BY <1>4, <1>10, <1>12, <1>13, <1>14 DEF MsgInv, One, Served, Runs

LEMMA ReceiveKeeps ==
    ASSUME MsgInv, NEW t \in Threads, Moves(t, "WTMSG", {}), serving[t] = None, msgqueue[t] = <<>>,
           \A x \in Threads \ {t} : call'[x] = call[x], UNCHANGED <<msgqueue, serving>>
    PROVE  MsgInv'
<1>1. k.state[t] = "CURRENT" /\ k'.state[t] = "WTMSG"
  BY DEF Moves
<1>2. \A x \in Threads \ {t} : /\ k'.state[x] = "SNDMSGQ" <=> k.state[x] = "SNDMSGQ"
                               /\ k'.state[x] = "SNDMSG" <=> k.state[x] = "SNDMSG"
                               /\ k'.state[x] = "WTMSG" <=> k.state[x] = "WTMSG"
                               /\ Runs(k', x) => Runs(k, x)
  BY MsgStates DEF Moves
<1>3. \A x \in Threads : /\ k'.state[x] = "SNDMSGQ" <=> k.state[x] = "SNDMSGQ"
                         /\ k'.state[x] = "SNDMSG" <=> k.state[x] = "SNDMSG"
  BY <1>1, <1>2
<1>4. Awaited(msgqueue, "SNDMSGQ")'
  BY <1>3 DEF MsgInv, Awaited, Joined
<1>5. Queues(msgqueue)' /\ serving' \in [Threads -> Threads \cup {None}]
  BY DEF MsgInv, Queues
<1>6. \A x \in Threads : IF k'.state[x] = "SNDMSG" THEN One(Served(x)') ELSE Served(x)' = {}
  <2>1. \A x : Served(x)' = Served(x)
    BY DEF Served
  <2>2. QED
    BY <1>3, <2>1 DEF MsgInv
<1>7. ASSUME NEW x \in Threads
      PROVE  /\ k'.state[x] = "WTMSG" => msgqueue'[x] = <<>>
             /\ call'[x].op = "receive" => serving'[x] = None /\ (Runs(k', x) => msgqueue'[x] # <<>>)
  <2>1. CASE x = t
    BY <1>1, <2>1 DEF Runs, Runnable
  <2>2. CASE x # t
    BY <1>2, <2>2 DEF MsgInv
  <2>3. QED
    BY <2>1, <2>2
<1>8. QED
  BY <1>4, <1>5, <1>6, <1>7 DEF MsgInv, One, Served, Runs

LEMMA AnswerKeeps ==
    ASSUME MsgInv, ThreadsFit, NEW t \in Threads, NEW c \in Threads, serving[t] = c,
           Lets(k, k', {c}), UNCHANGED <<call, msgqueue>>, serving' = [serving EXCEPT ![t] = None]
    PROVE  MsgInv'
<1>1. /\ t \in Served(c) /\ None \notin Threads /\ serving \in [Threads -> Threads \cup {None}]
  BY ThreadsAssumption DEF Served, MsgInv
<1>2. k.state[c] = "SNDMSG" /\ Served(c) = {t}
  BY <1>1 DEF MsgInv, One
<1>3. k'.state[c] \in Runnable
  BY LetsStates
<1>4. \A x \in Threads \ {c} : \A state : state \notin Runnable => (k'.state[x] = state <=> k.state[x] = state)
  BY LetsStates
<1>5. \A x \in Threads : /\ k'.state[x] = "SNDMSGQ" <=> k.state[x] = "SNDMSGQ"
                         /\ k'.state[x] = "WTMSG" <=> k.state[x] = "WTMSG"
                         /\ k'.state[x] = "SNDMSG" <=> (k.state[x] = "SNDMSG" /\ x # c)
  BY <1>2, <1>3, <1>4, MsgStates
<1>6. Awaited(msgqueue, "SNDMSGQ")'
  BY <1>5 DEF MsgInv, Awaited, Joined
<1>7. /\ Queues(msgqueue)' /\ serving' \in [Threads -> Threads \cup {None}] /\ serving'[t] = None
      /\ \A x \in Threads \ {t} : serving'[x] = serving[x]
  BY <1>1 DEF MsgInv, Queues
<1>8. ASSUME NEW x \in Threads
      PROVE  IF k'.state[x] = "SNDMSG" THEN One(Served(x)') ELSE Served(x)' = {}
  <2>1. CASE x = c
    BY <1>1, <1>2, <1>5, <1>7, <2>1 DEF Served
  <2>2. CASE x # c
    <3>1. Served(x)' = Served(x)
      BY <1>1, <1>7, <2>2 DEF Served
    <3>2. QED
      BY <1>5, <2>2, <3>1 DEF MsgInv
  <2>3. QED
    BY <2>1, <2>2
<1>9. call[c].op = "send"
  <2>1. AtRest(call[c], "SNDMSG")
    BY <1>2 DEF ThreadsFit, CallsFit, Runs, Runnable
  <2>2. QED
    BY <2>1 DEF AtRest, None
<1>10. ASSUME NEW x \in Threads
       PROVE  /\ k'.state[x] = "WTMSG" => msgqueue'[x] = <<>>
              /\ call'[x].op = "receive" => serving'[x] = None /\ (Runs(k', x) => msgqueue'[x] # <<>>)
  <2>1. k'.state[x] = "WTMSG" => msgqueue'[x] = <<>>
    BY <1>5 DEF MsgInv
  <2>2. ASSUME call'[x].op = "receive" PROVE serving'[x] = None /\ (Runs(k', x) => msgqueue'[x] # <<>>)
    <3>1. x # c /\ call[x].op = "receive" /\ serving[x] = None
      BY <1>9, <2>2 DEF MsgInv
    <3>2. Runs(k', x) => Runs(k, x)
      BY <3>1 DEF Lets
    <3>3. QED
      BY <1>7, <3>1, <3>2 DEF MsgInv
  <2>3. QED
    BY <2>1, <2>2
<1>11. QED
  BY <1>6, <1>7, <1>8, <1>10 DEF MsgInv, One, Served, Runs

-----------------------------------------------------------------------------
(* The registry.                                                            *)

Ends == Threads \cup {RList}

\* The i-th place of the ring that RList and the threads of q form.
Place(q, i) == IF i \in 1..Len(q) THEN q[i] ELSE RList

Linked(q, next, last) ==
    /\ next \in [Ends -> Ends \cup {None}] /\ last \in [Ends -> Ends \cup {None}]
    /\ \A i \in 0..Len(q) : next[Place(q, i)] = Place(q, i + 1) /\ last[Place(q, i + 1)] = Place(q, i)

RegInv == \E q : Queue(q, Threads) /\ ToSet(q) = Live /\ Linked(q, newer, older)

LEMMA PlacesAre ==
    ASSUME NEW q, Queue(q, Threads)
    PROVE  /\ Len(q) \in Nat /\ RList \notin Threads
           /\ \A i \in 1..Len(q) : Place(q, i) = q[i] /\ q[i] \in Threads
           /\ Place(q, 0) = RList /\ Place(q, Len(q) + 1) = RList
           /\ \A i \in 0..(Len(q) + 1) : Place(q, i) \in Ends
           /\ \A i, j \in 0..Len(q) : Place(q, i) = Place(q, j) => i = j
           /\ \A i, j \in 1..(Len(q) + 1) : Place(q, i) = Place(q, j) => i = j
<1>1. /\ q \in Seq(Threads) /\ Len(q) \in Nat /\ RList \notin Threads
      /\ \A i \in 1..Len(q) : q[i] \in Threads
      /\ \A i, j \in 1..Len(q) : q[i] = q[j] => i = j
  BY QueueSet, ElementOfSeq, ThreadsAssumption DEF Queue, IsInjective
<1>2. \A i \in 1..Len(q) : Place(q, i) = q[i] /\ q[i] \in Threads
  BY <1>1 DEF Place
<1>3. Place(q, 0) = RList /\ Place(q, Len(q) + 1) = RList
  BY <1>1 DEF Place
<1>4. ASSUME NEW i \in 0..(Len(q) + 1) PROVE Place(q, i) \in Ends
  <2>1. i \in 1..Len(q) \/ i = 0 \/ i = Len(q) + 1
    BY <1>1
  <2>2. QED
    BY <1>2, <1>3, <2>1 DEF Ends
<1>5. ASSUME NEW i \in 0..Len(q), NEW j \in 0..Len(q), Place(q, i) = Place(q, j)
      PROVE  i = j
  <2>1. (i = 0 \/ i \in 1..Len(q)) /\ (j = 0 \/ j \in 1..Len(q))
    BY <1>1
  <2>2. QED
    BY <1>1, <1>2, <1>3, <1>5, <2>1
<1>6. ASSUME NEW i \in 1..(Len(q) + 1), NEW j \in 1..(Len(q) + 1), Place(q, i) = Place(q, j)
      PROVE  i = j
  <2>1. (i = Len(q) + 1 \/ i \in 1..Len(q)) /\ (j = Len(q) + 1 \/ j \in 1..Len(q))
    BY <1>1
  <2>2. QED
    BY <1>1, <1>2, <1>3, <1>6, <2>1
<1>7. QED
  BY <1>1, <1>2, <1>3, <1>4, <1>5, <1>6

LEMMA Inserts ==
    ASSUME RegInv, NEW c \in Threads, c \notin Live, Live' = Live \cup {c}, RegInsert(c)
    PROVE  RegInv'
<1>1. PICK q : Queue(q, Threads) /\ ToSet(q) = Live /\ Linked(q, newer, older)
  BY DEF RegInv
<1> DEFINE r == Append(q, c)
           n == Len(q)
<1>2. Queue(r, Threads) /\ ToSet(r) = Live' /\ Len(r) = n + 1
  BY <1>1, AppendedQueue
<1>3. n \in Nat /\ q \in Seq(Threads) /\ \A i \in 1..n : q[i] # c /\ r[i] = q[i]
  BY <1>1, QueueSet DEF Queue
<1>4. r[n + 1] = c
  BY <1>3
<1> HIDE DEF r
<1>5. /\ \A i \in 0..n : Place(r, i) = Place(q, i) /\ Place(q, i) # c
      /\ Place(r, n + 1) = c /\ Place(r, n + 2) = RList /\ Place(q, n + 1) = RList
      /\ c # RList /\ c \in Ends
  <2>1. Place(r, n + 1) = c /\ Place(r, n + 2) = RList /\ Place(q, n + 1) = RList
    BY <1>2, <1>3, <1>4 DEF Place
  <2>2. c # RList /\ RList \notin Threads
    BY ThreadsAssumption
  <2>3. ASSUME NEW i \in 0..n PROVE Place(r, i) = Place(q, i) /\ Place(q, i) # c
    <3>1. CASE i = 0
      BY <1>2, <1>3, <2>2, <3>1 DEF Place
    <3>2. CASE i \in 1..n
      BY <1>2, <1>3, <3>2 DEF Place
    <3>3. QED
      BY <1>3, <3>1, <3>2
  <2>4. QED
    BY <2>1, <2>2, <2>3 DEF Ends
<1>6. /\ n \in Nat /\ \A i \in 0..(n + 1) : Place(q, i) \in Ends
      /\ \A i, j \in 0..n : Place(q, i) = Place(q, j) => i = j
      /\ \A i, j \in 1..(n + 1) : Place(q, i) = Place(q, j) => i = j
  BY <1>1, PlacesAre
<1>7. /\ newer \in [Ends -> Ends \cup {None}] /\ older \in [Ends -> Ends \cup {None}]
      /\ \A i \in 0..n : newer[Place(q, i)] = Place(q, i + 1) /\ older[Place(q, i + 1)] = Place(q, i)
  BY <1>1 DEF Linked
<1> DEFINE l == Place(q, n)
<1>8. older[RList] = l /\ l \in Ends /\ l # c /\ RList \in Ends
  <2>1. n \in 0..n /\ n \in 0..(n + 1)
    BY <1>6
  <2>2. QED
    BY <1>5, <1>6, <1>7, <2>1 DEF Ends
<1>9. newer' = [newer EXCEPT ![c] = RList, ![l] = c] /\ older' = [older EXCEPT ![c] = l, ![RList] = c]
  BY <1>8 DEF RegInsert
<1> HIDE DEF l
<1>10. /\ newer' \in [Ends -> Ends \cup {None}] /\ newer'[c] = RList /\ newer'[l] = c
       /\ \A x \in Ends : x # c /\ x # l => newer'[x] = newer[x]
  BY <1>5, <1>7, <1>8, <1>9
<1>11. /\ older' \in [Ends -> Ends \cup {None}] /\ older'[c] = l /\ older'[RList] = c
       /\ \A x \in Ends : x # c /\ x # RList => older'[x] = older[x]
  BY <1>5, <1>7, <1>8, <1>9
<1>12. ASSUME NEW i \in 0..(n + 1)
       PROVE  newer'[Place(r, i)] = Place(r, i + 1) /\ older'[Place(r, i + 1)] = Place(r, i)
  <2>1. CASE i = n + 1
    <3>1. i + 1 = n + 2
      BY <1>6, <2>1
    <3>2. QED
      BY <1>5, <1>10, <1>11, <2>1, <3>1
  <2>2. CASE i = n
    <3>1. n \in 0..n /\ i + 1 = n + 1
      BY <1>6, <2>2
    <3>2. Place(r, i) = l /\ Place(r, i + 1) = c
      BY <1>5, <2>2, <3>1 DEF l
    <3>3. QED
      BY <1>10, <1>11, <3>2
  <2>3. CASE i \in 0..(n - 1)
    <3>1. i \in 0..n /\ i + 1 \in 0..n /\ i # n /\ i + 1 # n + 1 /\ n \in 0..n
          /\ i + 1 \in 1..(n + 1) /\ n + 1 \in 1..(n + 1) /\ i \in 0..(n + 1) /\ i + 1 \in 0..(n + 1)
      BY <1>6, <2>3
    <3> DEFINE a == Place(q, i)
               b == Place(q, i + 1)
    <3>2. Place(r, i) = a /\ Place(r, i + 1) = b /\ a # c /\ b # c /\ a \in Ends /\ b \in Ends
      BY <1>5, <1>6, <3>1
    <3>3. a # l
      BY <1>6, <3>1 DEF l
    <3>4. b # RList
      BY <1>5, <1>6, <3>1
    <3>5. newer[a] = b /\ older[b] = a
      BY <1>7, <3>1
    <3> HIDE DEF a, b
    <3>6. QED
      BY <1>10, <1>11, <3>2, <3>3, <3>4, <3>5
  <2>4. QED
    BY <1>6, <2>1, <2>2, <2>3
<1>13. Linked(r, newer', older')
  BY <1>2, <1>10, <1>11, <1>12 DEF Linked
<1>14. QED
  BY <1>2, <1>13 DEF RegInv

LEMMA Removes ==
    ASSUME RegInv, NEW t \in Live, Live' = Live \ {t}, RegRemove(t)
    PROVE  RegInv'
<1>1. PICK q : Queue(q, Threads) /\ ToSet(q) = Live /\ Linked(q, newer, older)
  BY DEF RegInv
<1> DEFINE n == Len(q)
<1>2. PICK a \in 1..n : q[a] = t
  BY <1>1, QueueSet DEF Queue
<1> DEFINE r == RemoveAt(q, a)
<1>3. q \in Seq(Threads) /\ n \in Nat /\ a \in 1..n /\ n - 1 \in Nat
  BY <1>1, <1>2, QueueSet DEF Queue
<1>4. /\ r \in Seq(Threads) /\ Len(r) = n - 1
      /\ \A j \in 1..(n - 1) : r[j] = IF j < a THEN q[j] ELSE q[j + 1]
  BY <1>3, RemovedIndex
<1> HIDE DEF r
<1>5. /\ \A i \in 0..(n + 1) : Place(q, i) \in Ends
      /\ Place(q, 0) = RList /\ Place(q, n + 1) = RList /\ Place(q, a) = t
      /\ \A i, j \in 0..n : Place(q, i) = Place(q, j) => i = j
      /\ \A i, j \in 1..(n + 1) : Place(q, i) = Place(q, j) => i = j
  BY <1>1, <1>2, PlacesAre
<1>6. ASSUME NEW i \in 0..n PROVE Place(r, i) = IF i < a THEN Place(q, i) ELSE Place(q, i + 1)
  <2>1. CASE i = 0
    BY <1>3, <1>4, <2>1 DEF Place
  <2>2. CASE i = n
    BY <1>3, <1>4, <2>2 DEF Place
  <2>3. CASE i \in 1..(n - 1)
    <3>1. i \in 1..n /\ i + 1 \in 1..n
      BY <1>3, <2>3
    <3>2. QED
      BY <1>4, <2>3, <3>1 DEF Place
  <2>4. QED
    BY <1>3, <2>1, <2>2, <2>3
<1>7. Queue(r, Threads) /\ ToSet(r) = Live'
  <2>1. ASSUME NEW i \in 1..Len(r), NEW j \in 1..Len(r), r[i] = r[j] PROVE i = j
    <3>1. \A x, y \in 1..n : q[x] = q[y] => x = y
      BY <1>1, QueueSet DEF Queue, IsInjective
    <3>2. /\ i \in 1..n /\ i + 1 \in 1..n /\ j \in 1..n /\ j + 1 \in 1..n
          /\ i \in 1..(n - 1) /\ j \in 1..(n - 1)
      BY <1>3, <1>4
    <3>3. (IF i < a THEN q[i] ELSE q[i + 1]) = (IF j < a THEN q[j] ELSE q[j + 1])
      BY <1>4, <2>1, <3>2
    <3>4. (IF i < a THEN i ELSE i + 1) = (IF j < a THEN j ELSE j + 1)
      BY <3>1, <3>2, <3>3
    <3>5. QED
      BY <1>3, <3>2, <3>4
  <2>2. Queue(r, Threads)
    BY <1>4, <2>1, QueueSet DEF Queue, IsInjective
  <2>3. ASSUME NEW x \in ToSet(r) PROVE x \in ToSet(q) /\ x # t
    <3>1. PICK j \in 1..(n - 1) : r[j] = x
      BY <1>4, <2>3, QueueSet
    <3>2. j \in 1..n /\ j + 1 \in 1..n
      BY <1>3, <3>1
    <3>3. \A y \in 1..n : q[y] = t => y = a
      BY <1>1, <1>2, QueueSet DEF Queue, IsInjective
    <3>4. CASE j < a
      <4>1. q[j] = x /\ j # a
        BY <1>3, <1>4, <3>1, <3>4
      <4>2. QED
        BY <1>3, <3>2, <3>3, <4>1, QueueSet
    <3>5. CASE ~(j < a)
      <4>1. q[j + 1] = x /\ j + 1 # a
        BY <1>3, <1>4, <3>1, <3>5
      <4>2. QED
        BY <1>3, <3>2, <3>3, <4>1, QueueSet
    <3>6. QED
      BY <3>4, <3>5
  <2>4. ASSUME NEW x \in ToSet(q), x # t PROVE x \in ToSet(r)
    <3>1. PICK j \in 1..n : q[j] = x
      BY <1>3, <2>4, QueueSet
    <3>2. j # a
      BY <1>2, <2>4, <3>1
    <3>3. CASE j < a
      <4>1. j \in 1..(n - 1) /\ r[j] = x
        BY <1>3, <1>4, <3>1, <3>3
      <4>2. QED
        BY <1>4, <4>1, QueueSet
    <3>4. CASE j > a
      <4>1. j - 1 \in 1..(n - 1) /\ ~(j - 1 < a) /\ (j - 1) + 1 = j
        BY <1>3, <3>1, <3>4
      <4>2. r[j - 1] = x
        BY <1>4, <3>1, <4>1
      <4>3. QED
        BY <1>4, <4>1, <4>2, QueueSet
    <3>5. QED
      BY <1>3, <3>1, <3>2, <3>3, <3>4
  <2>5. QED
    BY <1>1, <2>2, <2>3, <2>4
<1>8. /\ newer \in [Ends -> Ends \cup {None}] /\ older \in [Ends -> Ends \cup {None}]
      /\ \A i \in 0..n : newer[Place(q, i)] = Place(q, i + 1) /\ older[Place(q, i + 1)] = Place(q, i)
  BY <1>1 DEF Linked
<1> DEFINE l == Place(q, a - 1)
           f == Place(q, a + 1)
<1>9. a - 1 \in 0..n /\ a \in 0..n /\ a - 1 \in 0..(n + 1) /\ a + 1 \in 0..(n + 1) /\ (a - 1) + 1 = a
      /\ a + 1 \in 1..(n + 1)
  BY <1>3
<1>10. older[t] = l /\ newer[t] = f /\ l \in Ends /\ f \in Ends
  BY <1>5, <1>8, <1>9
<1>11. newer' = [newer EXCEPT ![l] = f] /\ older' = [older EXCEPT ![f] = l]
  BY <1>10 DEF RegRemove
<1>12. /\ newer' \in [Ends -> Ends \cup {None}] /\ newer'[l] = f /\ \A x \in Ends \ {l} : newer'[x] = newer[x]
       /\ older' \in [Ends -> Ends \cup {None}] /\ older'[f] = l /\ \A x \in Ends \ {f} : older'[x] = older[x]
  <2> HIDE DEF l, f
  <2>1. QED
    BY <1>8, <1>10, <1>11
<1>13. ASSUME NEW i \in 0..(n - 1)
       PROVE  newer'[Place(r, i)] = Place(r, i + 1) /\ older'[Place(r, i + 1)] = Place(r, i)
  <2>1. CASE i = a - 1
    <3>1. i \in 0..n /\ i + 1 \in 0..n /\ i < a /\ ~(i + 1 < a) /\ (i + 1) + 1 = a + 1
      BY <1>3, <2>1
    <3>2. Place(r, i) = l /\ Place(r, i + 1) = f
      BY <1>6, <2>1, <3>1
    <3>3. QED
      BY <1>12, <3>2
  <2>2. CASE i # a - 1
    <3> DEFINE j == IF i < a THEN i ELSE i + 1
    <3>1. /\ i \in 0..n /\ i + 1 \in 0..n /\ j \in 0..n /\ j # a - 1 /\ j # a
          /\ j \in 0..(n + 1) /\ j + 1 \in 0..(n + 1) /\ j + 1 \in 1..(n + 1) /\ j + 1 # a + 1
          /\ j + 1 = IF i + 1 < a THEN i + 1 ELSE (i + 1) + 1
      BY <1>3, <2>2
    <3>2. Place(r, i) = Place(q, j)
      BY <1>6, <3>1
    <3>3. Place(r, i + 1) = Place(q, j + 1)
      BY <1>6, <3>1
    <3> HIDE DEF j
    <3>4. Place(q, j) # l /\ Place(q, j + 1) # f
      BY <1>5, <1>9, <3>1
    <3>5. newer'[Place(q, j)] = newer[Place(q, j)] /\ older'[Place(q, j + 1)] = older[Place(q, j + 1)]
      BY <1>5, <1>12, <3>1, <3>4
    <3>6. QED
      BY <1>8, <3>1, <3>2, <3>3, <3>5
  <2>3. QED
    BY <2>1, <2>2
<1>14. Linked(r, newer', older')
  BY <1>4, <1>12, <1>13 DEF Linked
<1>15. QED
  BY <1>7, <1>14 DEF RegInv

\* A queue is as long as the threads in it are many.
LEMMA QueueLength ==
    ASSUME NEW q, Queue(q, Threads)
    PROVE  Cardinality(ToSet(q)) = Len(q) /\ Len(q) <= Cardinality(Threads) /\ Cardinality(Threads) \in Nat
<1>1. /\ q \in [1..Len(q) -> ToSet(q)] /\ Len(q) \in Nat
      /\ \A i, j \in 1..Len(q) : q[i] = q[j] => i = j
      /\ \A x \in ToSet(q) : \E i \in 1..Len(q) : q[i] = x
  <2>1. q \in Seq(Threads) /\ Len(q) \in Nat /\ DOMAIN q = 1..Len(q) /\ q = [i \in 1..Len(q) |-> q[i]]
    BY QueueSet DEF Queue
  <2>2. \A i \in 1..Len(q) : q[i] \in ToSet(q)
    BY <2>1, QueueSet
  <2>3. \A i, j \in 1..Len(q) : q[i] = q[j] => i = j
    BY <2>1 DEF Queue, IsInjective
  <2>4. \A x \in ToSet(q) : \E i \in 1..Len(q) : q[i] = x
    BY <2>1, QueueSet
  <2>5. QED
    BY <2>1, <2>2, <2>3, <2>4
<1>2. q \in Bijection(1..Len(q), ToSet(q))
  BY <1>1 DEF Bijection, Injection, Surjection, IsInjective
<1>3. Cardinality(ToSet(q)) = Len(q)
  BY <1>1, <1>2, FS_CountingElements DEF ExistsBijection
<1>4. ToSet(q) \in SUBSET Threads
  BY QueueSet DEF Queue
<1>5. Cardinality(ToSet(q)) <= Cardinality(Threads) /\ Cardinality(Threads) \in Nat
  BY <1>4, FS_Subset, FS_CardinalityType, ThreadsAssumption
<1>6. QED
  BY <1>3, <1>5

\* w is where following the links f from b leads in m steps.
Follows(w, D, b, f, m) == w \in [0..m -> D] /\ w[0] = b /\ \A i \in 1..m : w[i] = f[w[i - 1]]

LEMMA WalkExists ==
    ASSUME NEW D, NEW b \in D, NEW f, \A x \in D : f[x] \in D, NEW m \in Nat
    PROVE  \E w : Follows(w, D, b, f, m)
<1> DEFINE Goes(j, w) == Follows(w, D, b, f, j)
           T == {j \in 0..m : ~ \E w : Goes(j, w)}
<1> SUFFICES ASSUME T # {} PROVE FALSE
  <2>1. m \in 0..m
    OBVIOUS
  <2>2. QED
    BY <2>1
<1>1. PICK x \in T : \A y \in T : x <= y
  <2>1. T \in SUBSET Nat
    OBVIOUS
  <2>2. QED
    BY <2>1, Least
<1>2. x # 0
  <2>1. Goes(0, [i \in 0..0 |-> b])
    BY DEF Follows
  <2>2. QED
    BY <2>1
<1>3. x - 1 \in 0..m /\ x \in 1..m /\ x - 1 \notin T
  <2>1. x \in 0..m /\ x - 1 < x
    OBVIOUS
  <2>2. x - 1 \in 0..m /\ x \in 1..m
    BY <1>2, <2>1
  <2> HIDE DEF T
  <2>3. QED
    BY <1>1, <2>1, <2>2
<1>4. PICK v : Goes(x - 1, v)
  BY <1>3
<1> USE DEF Follows
<1> DEFINE w == [i \in 0..x |-> IF i = x THEN f[v[x - 1]] ELSE v[i]]
<1>5. \A i \in 0..x : i # x => i \in 0..(x - 1)
  BY <1>3
<1>6. w \in [0..x -> D] /\ w[0] = b
  BY <1>3, <1>4, <1>5
<1>7. ASSUME NEW i \in 1..x PROVE w[i] = f[w[i - 1]]
  <2>1. i \in 0..x /\ i - 1 \in 0..x /\ i - 1 # x
    BY <1>3
  <2>2. w[i - 1] = v[i - 1]
    BY <2>1
  <2>3. CASE i = x
    BY <2>1, <2>2, <2>3
  <2>4. CASE i # x
    <3>1. i \in 1..(x - 1)
      BY <1>3, <2>4
    <3>2. QED
      BY <1>4, <2>1, <2>2, <2>4, <3>1
  <2>5. QED
    BY <2>3, <2>4
<1>8. Goes(x, w)
  BY <1>6, <1>7
<1>9. QED
  BY <1>8

\* Around the ring: what each step keeps holds all the way.
LEMMA WalksAlong ==
    ASSUME NEW link, NEW D, RList \in D, \A x \in D : link[x] \in D,
           Cardinality(Threads) \in Nat,
           NEW n \in Nat, n <= Cardinality(Threads), NEW place, place[0] = RList,
           \A i \in 0..n : link[place[i]] = place[i + 1]
    PROVE  \A i \in 0..(n + 1) : Walk(link)[i] = place[i]
<1> DEFINE m == Cardinality(Threads) + 1
           Def(w) == w = [i \in 0..m |-> IF i = 0 THEN RList ELSE link[w[i - 1]]]
           v == CHOOSE w : Def(w)
<1>1. m \in Nat /\ n + 1 <= m
  OBVIOUS
<1>2. \E w : Def(w)
  <2>1. PICK w : Follows(w, D, RList, link, m)
    <3> HIDE DEF m
    <3>1. QED
      BY <1>1, WalkExists
  <2>2. \A i \in 0..m : i # 0 => i \in 1..m
    BY <1>1
  <2>3. Def(w)
    BY <2>1, <2>2 DEF Follows
  <2>4. QED
    BY <2>3
<1>3. Def(v)
  BY <1>2
<1>4. Walk(link) = v
  BY DEF Walk
<1> HIDE DEF v
<1>5. v[0] = RList /\ \A i \in 1..m : v[i] = link[v[i - 1]]
  <2>1. \A i \in 0..m : v[i] = IF i = 0 THEN RList ELSE link[v[i - 1]]
    BY <1>3
  <2>2. 0 \in 0..m /\ \A i \in 1..m : i \in 0..m /\ i # 0
    BY <1>1
  <2>3. QED
    BY <2>1, <2>2
<1> DEFINE T == {i \in 0..(n + 1) : v[i] # place[i]}
<1>6. ASSUME T # {} PROVE FALSE
  <2>1. PICK x \in T : \A y \in T : x <= y
    <3>1. T \in SUBSET Nat
      OBVIOUS
    <3>2. QED
      BY <1>6, <3>1, Least
  <2>2. x # 0
    BY <1>5
  <2>3. x - 1 \in 0..n /\ x \in 1..m /\ x - 1 \in 0..(n + 1) /\ x - 1 \notin T /\ (x - 1) + 1 = x
    BY <1>1, <2>1, <2>2
  <2>4. v[x - 1] = place[x - 1]
    BY <2>3
  <2>5. v[x] = place[x]
    BY <1>5, <2>3, <2>4
  <2>6. QED
    BY <2>5
<1>7. QED
  BY <1>4, <1>6

LEMMA RegistryLists ==
    ASSUME RegInv
    PROVE  RegistryIsLive
<1>1. PICK q : Queue(q, Threads) /\ ToSet(q) = Live /\ Linked(q, newer, older)
  BY DEF RegInv
<1> DEFINE n == Len(q)
           there == [i \in 0..(n + 1) |-> Place(q, i)]
           back == [i \in 0..(n + 1) |-> Place(q, n + 1 - i)]
           D == {Place(q, i) : i \in 0..(n + 1)}
<1>2. Cardinality(Live) = n /\ n <= Cardinality(Threads) /\ Cardinality(Threads) \in Nat
  BY <1>1, QueueLength
<1>3. /\ n \in Nat /\ Place(q, 0) = RList /\ Place(q, n + 1) = RList
      /\ \A i \in 1..n : Place(q, i) = q[i]
  BY <1>1, PlacesAre
<1>4. \A i \in 0..n : newer[Place(q, i)] = Place(q, i + 1) /\ older[Place(q, i + 1)] = Place(q, i)
  BY <1>1 DEF Linked
<1>5. RList \in D /\ \A x \in D : newer[x] \in D /\ older[x] \in D
  <2>1. RList \in D
    <3>1. 0 \in 0..(n + 1)
      BY <1>3
    <3>2. QED
      BY <1>3, <3>1
  <2>2. ASSUME NEW i \in 0..(n + 1) PROVE newer[Place(q, i)] \in D /\ older[Place(q, i)] \in D
    <3>1. PICK j \in 0..n : Place(q, j) = Place(q, i)
      <4>1. CASE i = n + 1
        BY <1>3, <4>1
      <4>2. CASE i # n + 1
        BY <1>3, <4>2
      <4>3. QED
        BY <4>1, <4>2
    <3>2. PICK e \in 0..n : Place(q, e + 1) = Place(q, i)
      <4>1. CASE i = 0
        <5>1. n \in 0..n
          BY <1>3
        <5>2. QED
          BY <1>3, <4>1, <5>1
      <4>2. CASE i # 0
        <5>1. i - 1 \in 0..n /\ (i - 1) + 1 = i
          BY <1>3, <4>2
        <5>2. QED
          BY <5>1
      <4>3. QED
        BY <4>1, <4>2
    <3>3. j + 1 \in 0..(n + 1) /\ e \in 0..(n + 1)
      BY <1>3
    <3>4. QED
      BY <1>4, <3>1, <3>2, <3>3
  <2>3. QED
    BY <2>1, <2>2
<1> HIDE DEF D
<1>6. \A i \in 0..(n + 1) : Walk(newer)[i] = Place(q, i)
  <2>1. there[0] = RList /\ \A i \in 0..n : newer[there[i]] = there[i + 1]
    BY <1>3, <1>4
  <2>2. \A i \in 0..(n + 1) : there[i] = Place(q, i)
    OBVIOUS
  <2> HIDE DEF there
  <2>3. \A i \in 0..(n + 1) : Walk(newer)[i] = there[i]
    BY <1>2, <1>3, <1>5, <2>1, WalksAlong
  <2>4. QED
    BY <2>2, <2>3
<1>7. \A i \in 0..(n + 1) : Walk(older)[i] = Place(q, n + 1 - i)
  <2>1. back[0] = RList
    BY <1>3
  <2>2. ASSUME NEW i \in 0..n PROVE older[back[i]] = back[i + 1]
    <3>1. n - i \in 0..n /\ (n - i) + 1 = n + 1 - i /\ n + 1 - (i + 1) = n - i
          /\ i \in 0..(n + 1) /\ i + 1 \in 0..(n + 1)
      BY <1>3
    <3>2. older[Place(q, (n - i) + 1)] = Place(q, n - i)
      BY <1>4, <3>1
    <3>3. back[i] = Place(q, n + 1 - i) /\ back[i + 1] = Place(q, n + 1 - (i + 1))
      BY <3>1
    <3>4. QED
      BY <3>1, <3>2, <3>3
  <2>3. \A i \in 0..(n + 1) : back[i] = Place(q, n + 1 - i)
    OBVIOUS
  <2> HIDE DEF back
  <2>4. \A i \in 0..(n + 1) : Walk(older)[i] = back[i]
    BY <1>2, <1>3, <1>5, <2>1, <2>2, WalksAlong
  <2>5. QED
    BY <2>3, <2>4
<1>8. {Walk(newer)[i] : i \in 1..n} = Live
  <2>1. \A i \in 1..n : Walk(newer)[i] = q[i]
    BY <1>3, <1>6
  <2>2. \A x : x \in Live <=> \E i \in 1..n : q[i] = x
    BY <1>1, QueueSet DEF Queue
  <2>3. QED
    BY <2>1, <2>2
<1>9. Walk(newer)[n + 1] = RList
  <2>1. n + 1 \in 0..(n + 1)
    BY <1>3
  <2>2. QED
    BY <1>3, <1>6, <2>1
<1>10. ASSUME NEW i \in 0..(n + 1) PROVE Walk(older)[i] = Walk(newer)[n + 1 - i]
  <2>1. n + 1 - i \in 0..(n + 1)
    BY <1>3
  <2>2. QED
    BY <1>6, <1>7, <2>1
<1>11. QED
  BY <1>2, <1>8, <1>9, <1>10 DEF RegistryIsLive

-----------------------------------------------------------------------------
(* The theorems.                                                            *)

\* What every step keeps: the kernel is sound and each thread is where the
\* rest of its call says; who waits in a queue of joiners or of messages, and
\* who is served, are those whose states say so, each once; the registry is a
\* ring of the threads that live.
ThreadsInv == ThreadsFit /\ WaitInv /\ MsgInv /\ RegInv

LEMMA RegStays ==
    ASSUME RegInv, SameLives, RegUnchanged
    PROVE  RegInv'
<1>1. Live' = Live
  BY DEF Live, SameLives, Ended
<1>2. QED
  BY <1>1 DEF RegInv, RegUnchanged

\* A thread that was current and sleeps in a state of those that live.
LEMMA MovesLives ==
    ASSUME NEW t, NEW new, NEW W, Moves(t, new, W), new \notin Ended,
           \A x \in Threads : x \in W => k.state[x] \notin Ended
    PROVE  SameLives
<1>1. Ended \subseteq States \ Runnable /\ "CURRENT" \in Runnable
  BY DEF States, Runnable, Ended, None
<1>2. ASSUME NEW x \in Threads PROVE k'.state[x] \in Ended <=> k.state[x] \in Ended
  <2>1. CASE x = t
    BY <1>1, <2>1 DEF Moves
  <2>2. CASE x # t /\ x \in W
    BY <1>1, <2>2 DEF Moves
  <2>3. CASE x # t /\ x \notin W
    BY <1>1, <2>3 DEF Moves
  <2>4. QED
    BY <2>1, <2>2, <2>3
<1>3. QED
  BY <1>2 DEF SameLives

LEMMA CalmKeeps ==
    ASSUME ThreadsInv, ThreadsFit', Calm, RegUnchanged, MsgUnchanged, UNCHANGED waiting
    PROVE  ThreadsInv'
<1>1. Still({"WTEXIT"}) /\ Still({"SNDMSGQ", "SNDMSG", "WTMSG"})
  BY DEF Calm, Still, Special
<1>2. \A x \in Threads : k'.state[x] \in Ended => k.state[x] \in Ended
  BY DEF Calm, SameLives
<1>3. WaitInv'
  BY <1>1, <1>2, WaitStays DEF ThreadsInv
<1>4. MsgInv'
  BY <1>1, MsgStays DEF ThreadsInv, Calm, MsgUnchanged
<1>5. RegInv'
  BY RegStays DEF ThreadsInv, Calm
<1>6. QED
  BY <1>3, <1>4, <1>5 DEF ThreadsInv

LEMMA CreateKeeps ==
    ASSUME ThreadsInv, NEW t \in Threads, NEW c \in Threads \ {Idle}, NEW p \in Prios,
           CreateI(t, c, p) \/ CreateStatic(t, c, p)
    PROVE  ThreadsInv'
<1>1. /\ ThreadsFit' /\ Still(Special) /\ SameReceivers
      /\ k.state[c] = None /\ k'.state[c] \notin Ended
      /\ \A x \in Threads \ {c} : k'.state[x] \in Ended <=> k.state[x] \in Ended
  BY CreateFits DEF ThreadsInv
<1>2. RegInsert(c) /\ MsgUnchanged /\ UNCHANGED waiting
  BY DEF CreateI, CreateStatic
<1>3. Still({"WTEXIT"}) /\ Still({"SNDMSGQ", "SNDMSG", "WTMSG"})
  BY <1>1 DEF Still, Special
<1>4. \A x \in Threads : k'.state[x] \in Ended => k.state[x] \in Ended
  BY <1>1
<1>5. WaitInv'
  BY <1>2, <1>3, <1>4, WaitStays DEF ThreadsInv
<1>6. MsgInv'
  BY <1>1, <1>2, <1>3, MsgStays DEF ThreadsInv, MsgUnchanged
<1>7. c \notin Live /\ Live' = Live \cup {c}
  BY <1>1 DEF Live, Ended
<1>8. RegInv'
  BY <1>2, <1>7, Inserts DEF ThreadsInv
<1>9. QED
  BY <1>1, <1>5, <1>6, <1>8 DEF ThreadsInv

LEMMA ExitKeeps ==
    ASSUME ThreadsInv, NEW t \in Threads, Exit(t)
    PROVE  ThreadsInv'
<1> DEFINE W == ToSet(waiting[t])
<1>1. Queue(waiting[t], Threads) /\ W \subseteq Threads
  BY QueueSet DEF ThreadsInv, WaitInv, Queues, Queue
<1>2. ASSUME NEW x \in W PROVE k.state[x] = "WTEXIT"
  <2>1. x \in Threads /\ t \in Joined(waiting, x)
    BY <1>1, <1>2 DEF Joined
  <2>2. QED
    BY <2>1 DEF ThreadsInv, WaitInv, Awaited
<1>3. ThreadsFit' /\ Moves(t, "FINAL", W) /\ UNCHANGED call
  BY <1>1, <1>2, ExitFits DEF ThreadsInv
<1>4. waiting' = [waiting EXCEPT ![t] = <<>>] /\ RegRemove(t) /\ MsgUnchanged
  BY DEF Exit
<1>5. WaitInv'
  BY <1>3, <1>4, ExitWaits DEF ThreadsInv
<1>6. ASSUME NEW x \in Threads
      PROVE  /\ \A state \in {"SNDMSGQ", "SNDMSG", "WTMSG"} : k'.state[x] = state <=> k.state[x] = state
             /\ x # t => (k'.state[x] \in Ended <=> k.state[x] \in Ended)
             /\ x \in W => k'.state[x] \in Runnable \/ x = t
  <2>1. Ended \subseteq States \ Runnable /\ "WTEXIT" \notin Ended /\ Runnable \cap Ended = {}
        /\ {"SNDMSGQ", "SNDMSG", "WTMSG"} \cap Runnable = {}
    BY DEF States, Runnable, Ended, None
  <2>2. CASE x = t
    BY <1>3, <2>2 DEF Moves
  <2>3. CASE x # t /\ x \in W
    BY <1>2, <1>3, <2>1, <2>3 DEF Moves
  <2>4. CASE x # t /\ x \notin W
    BY <1>3, <2>1, <2>4, MsgStates DEF Moves
  <2>5. QED
    BY <2>2, <2>3, <2>4
<1>7. Still({"SNDMSGQ", "SNDMSG", "WTMSG"})
  BY <1>6 DEF Still
<1>8. SameReceivers
  <2>1. ASSUME NEW x \in W PROVE call[x].op = "join"
    <3>1. AtRest(call[x], "WTEXIT")
      BY <1>1, <1>2, <2>1 DEF ThreadsInv, ThreadsFit, CallsFit, Runs, Runnable
    <3>2. QED
      BY <3>1 DEF AtRest, None
  <2>2. ASSUME NEW x \in Threads, call[x].op = "receive", Runs(k', x) PROVE Runs(k, x)
    <3>1. x \notin W
      BY <2>1, <2>2
    <3>2. x # t
      BY <1>3, <2>2 DEF Moves, Runs, Runnable
    <3>3. QED
      BY <1>3, <2>2, <3>1, <3>2 DEF Moves
  <2>3. QED
    BY <1>3, <2>2 DEF SameReceivers
<1>9. MsgInv'
  BY <1>4, <1>7, <1>8, MsgStays DEF ThreadsInv, MsgUnchanged
<1>10. t \in Live /\ Live' = Live \ {t}
  <2>1. k.state[t] = "CURRENT" /\ k'.state[t] = "FINAL"
    BY <1>3 DEF Moves
  <2>2. QED
    BY <1>6, <2>1 DEF Live, Ended, None
<1>11. RegInv'
  BY <1>4, <1>10, Removes DEF ThreadsInv
<1>12. QED
  BY <1>3, <1>5, <1>9, <1>11 DEF ThreadsInv

LEMMA WaitKeeps ==
    ASSUME ThreadsInv, NEW t \in Threads, NEW c \in Threads, Wait(t, c)
    PROVE  ThreadsInv'
<1>1. ThreadsFit' /\ Moves(t, "WTEXIT", {}) /\ call'[t].op = "join"
      /\ \A x \in Threads \ {t} : call'[x] = call[x]
  BY WaitFits DEF ThreadsInv
<1>2. /\ c # t /\ k.state[c] \notin Ended /\ waiting' = [waiting EXCEPT ![c] = <<t>> \o @]
      /\ RegUnchanged /\ MsgUnchanged
  BY DEF Wait, Ended
<1>3. WaitInv'
  BY <1>1, <1>2, JoinWaits DEF ThreadsInv
<1>4. \A x \in Threads \ {t} : /\ \A state \in States \ Runnable : k'.state[x] = state <=> k.state[x] = state
                               /\ Runs(k', x) => Runs(k, x)
  BY <1>1 DEF Moves
<1>5. Still({"SNDMSGQ", "SNDMSG", "WTMSG"})
  <2>1. k.state[t] = "CURRENT" /\ k'.state[t] = "WTEXIT"
    BY <1>1 DEF Moves
  <2>2. QED
    BY <1>4, <2>1, MsgStates DEF Still
<1>6. SameReceivers
  BY <1>1, <1>4 DEF SameReceivers
<1>7. MsgInv'
  BY <1>2, <1>5, <1>6, MsgStays DEF ThreadsInv, MsgUnchanged
<1>8. SameLives
  <2>1. "WTEXIT" \notin Ended
    BY DEF Ended, None
  <2>2. QED
    BY <1>1, <2>1, MovesLives
<1>9. RegInv'
  BY <1>2, <1>8, RegStays DEF ThreadsInv
<1>10. QED
  BY <1>1, <1>3, <1>7, <1>9 DEF ThreadsInv

\* A step in which no thread starts or ends to wait for another's end.
LEMMA NoJoins ==
    ASSUME WaitInv, UNCHANGED waiting, SameLives,
           \A x \in Threads : k'.state[x] = "WTEXIT" <=> k.state[x] = "WTEXIT"
    PROVE  WaitInv'
  BY WaitStays DEF Still, SameLives

LEMMA MovesAlone ==
    ASSUME NEW t, NEW new \in States \ Runnable, NEW W, Moves(t, new, W), new \notin Ended \cup {"WTEXIT"},
           \A x \in Threads : x \in W => k.state[x] \notin Ended \cup {"WTEXIT"}
    PROVE  SameLives /\ \A x \in Threads : k'.state[x] = "WTEXIT" <=> k.state[x] = "WTEXIT"
<1>1. SameLives
  BY MovesLives
<1>2. "WTEXIT" \in States \ Runnable
  BY DEF States, Runnable
<1>3. ASSUME NEW x \in Threads PROVE k'.state[x] = "WTEXIT" <=> k.state[x] = "WTEXIT"
  <2>1. CASE x = t
    BY <2>1 DEF Moves
  <2>2. CASE x # t /\ x \in W
    BY <1>2, <2>2 DEF Moves
  <2>3. CASE x # t /\ x \notin W
    BY <1>2, <2>3 DEF Moves
  <2>4. QED
    BY <2>1, <2>2, <2>3
<1>4. QED
  BY <1>1, <1>3

LEMMA SendsOn ==
    ASSUME ThreadsInv, NEW t \in Threads, NEW c \in Threads, MsgSend(t, c)
    PROVE  ThreadsInv'
<1> DEFINE W == IF k.state[c] = "WTMSG" THEN {c} ELSE {}
<1>1. ThreadsFit' /\ Moves(t, "SNDMSGQ", W) /\ call'[t].op = "send"
      /\ \A x \in Threads \ {t} : call'[x] = call[x]
  BY SendFits DEF ThreadsInv
<1>2. /\ c # t /\ msgqueue' = [msgqueue EXCEPT ![c] = Append(@, t)] /\ UNCHANGED <<serving, waiting>>
      /\ RegUnchanged
  BY DEF MsgSend
<1>3. MsgInv'
  BY <1>1, <1>2, SendKeeps DEF ThreadsInv
<1>4. SameLives /\ \A x \in Threads : k'.state[x] = "WTEXIT" <=> k.state[x] = "WTEXIT"
  <2>1. "SNDMSGQ" \in States \ Runnable /\ "SNDMSGQ" \notin Ended \cup {"WTEXIT"}
    BY DEF States, Runnable, Ended, None
  <2>2. \A x \in Threads : x \in W => k.state[x] \notin Ended \cup {"WTEXIT"}
    BY DEF Ended, None
  <2> HIDE DEF W
  <2>3. QED
    BY <1>1, <2>1, <2>2, MovesAlone
<1>5. WaitInv' /\ RegInv'
  BY <1>2, <1>4, NoJoins, RegStays DEF ThreadsInv
<1>6. QED
  BY <1>1, <1>3, <1>5 DEF ThreadsInv

LEMMA TakesOn ==
    ASSUME ThreadsInv, NEW t \in Threads, t = k.current, t # Idle, call[t].op # "sleep",
           serving[t] = None, msgqueue[t] # <<>>, TakeMsg(t), RegUnchanged, UNCHANGED waiting
    PROVE  ThreadsInv'
<1> DEFINE h == Head(msgqueue[t])
<1>1. k.state[t] = "CURRENT" /\ k.state \in [Threads -> States]
  BY SoundIs DEF ThreadsInv, ThreadsFit
<1>2. h \in Threads /\ h \in ToSet(msgqueue[t])
  BY TailQueue DEF ThreadsInv, MsgInv, Queues
<1>3. k.state[h] = "SNDMSGQ"
  <2>1. t \in Joined(msgqueue, h)
    BY <1>2 DEF Joined
  <2>2. QED
    BY <1>2, <2>1 DEF ThreadsInv, MsgInv, Awaited
<1>4. /\ serving' = [serving EXCEPT ![t] = h] /\ msgqueue' = [msgqueue EXCEPT ![t] = Tail(@)]
      /\ k' = [k EXCEPT !.state[h] = "SNDMSG"] /\ call' = [call EXCEPT ![t] = User]
  BY DEF TakeMsg, Sleeps
<1> HIDE DEF h
<1>5. /\ ThreadsFit' /\ k'.state = [k.state EXCEPT ![h] = "SNDMSG"] /\ t # h
      /\ call'[t].op = "user" /\ \A x \in Threads \ {t} : call'[x] = call[x]
  BY <1>2, <1>3, <1>4, TakeFits DEF ThreadsInv
<1>6. MsgInv'
  BY <1>1, <1>4, <1>5, TakeKeeps DEF ThreadsInv, h
<1>7. k'.state[h] = "SNDMSG" /\ \A x \in Threads \ {h} : k'.state[x] = k.state[x]
  BY <1>1, <1>2, <1>5
<1>8. SameLives /\ \A x \in Threads : k'.state[x] = "WTEXIT" <=> k.state[x] = "WTEXIT"
  BY <1>3, <1>7 DEF SameLives, Ended, None
<1>9. WaitInv' /\ RegInv'
  BY <1>8, NoJoins, RegStays DEF ThreadsInv
<1>10. QED
  BY <1>5, <1>6, <1>9 DEF ThreadsInv

LEMMA ReceivesOn ==
    ASSUME ThreadsInv, NEW t \in Threads, MsgWait(t) \/ MsgWaitBack(t)
    PROVE  ThreadsInv'
<1>1. CASE MsgWait(t) /\ msgqueue[t] # <<>>
  <2>1. Calls(t) /\ serving[t] = None /\ TakeMsg(t) /\ RegUnchanged /\ UNCHANGED waiting
    BY <1>1 DEF MsgWait
  <2>2. t = k.current /\ t # Idle /\ call[t].op # "sleep"
    BY <2>1, CallersAreNot DEF ThreadsInv
  <2>3. QED
    BY <1>1, <2>1, <2>2, TakesOn
<1>2. CASE MsgWait(t) /\ msgqueue[t] = <<>>
  <2>1. /\ Calls(t) /\ serving[t] = None /\ Sleeps(t, GoSleepS(k, "WTMSG"), [op |-> "receive"])
        /\ RegUnchanged /\ UNCHANGED <<waiting, msgqueue, serving>>
    BY <1>2 DEF MsgWait, MsgUnchanged
  <2>2. ThreadsFit' /\ Moves(t, "WTMSG", {}) /\ \A x \in Threads \ {t} : call'[x] = call[x]
    BY <2>1, ReceiveFits DEF ThreadsInv
  <2>3. MsgInv'
    BY <1>2, <2>1, <2>2, ReceiveKeeps DEF ThreadsInv
  <2>4. SameLives /\ \A x \in Threads : k'.state[x] = "WTEXIT" <=> k.state[x] = "WTEXIT"
    <3>1. "WTMSG" \in States \ Runnable /\ "WTMSG" \notin Ended \cup {"WTEXIT"}
      BY DEF States, Runnable, Ended, None
    <3>2. QED
      BY <2>2, <3>1, MovesAlone
  <2>5. WaitInv' /\ RegInv'
    BY <2>1, <2>4, NoJoins, RegStays DEF ThreadsInv
  <2>6. QED
    BY <2>2, <2>3, <2>5 DEF ThreadsInv
<1>3. CASE MsgWaitBack(t)
  <2>1. IsBack(t, "receive") /\ TakeMsg(t) /\ RegUnchanged /\ UNCHANGED waiting
    BY <1>3 DEF MsgWaitBack
  <2>2. t = k.current /\ t # Idle /\ call[t].op = "receive"
    BY <2>1, CallersAreNot DEF ThreadsInv, IsBack
  <2>3. Runs(k, t)
    BY <2>2, WhoCalls DEF ThreadsInv
  <2>4. serving[t] = None /\ msgqueue[t] # <<>>
    BY <2>2, <2>3 DEF ThreadsInv, MsgInv
  <2>5. QED
    BY <2>1, <2>2, <2>4, TakesOn
<1>4. QED
  BY <1>1, <1>2, <1>3

LEMMA AnswersOn ==
    ASSUME ThreadsInv, NEW t \in Threads, MsgRelease(t)
    PROVE  ThreadsInv'
<1> DEFINE c == serving[t]
<1>1. /\ c # None /\ Returns(WakeupS(k, c, "OK")) /\ serving' = [serving EXCEPT ![t] = None]
      /\ RegUnchanged /\ UNCHANGED <<waiting, msgqueue>>
  BY DEF MsgRelease
<1>2. c \in Threads /\ k.state[c] = "SNDMSG"
  <2>1. c \in Threads /\ t \in Served(c)
    BY <1>1 DEF ThreadsInv, MsgInv, Served
  <2>2. QED
    BY <2>1 DEF ThreadsInv, MsgInv
<1>3. serving[t] = c
  OBVIOUS
<1> HIDE DEF c
<1>4. ThreadsFit' /\ Lets(k, k', {c}) /\ UNCHANGED call
  BY <1>1, <1>2, AnswerFits DEF ThreadsInv
<1>5. MsgInv'
  BY <1>1, <1>2, <1>3, <1>4, AnswerKeeps DEF ThreadsInv
<1>6. k'.state[c] \in Runnable
      /\ \A x \in Threads \ {c} : \A state : state \notin Runnable => (k'.state[x] = state <=> k.state[x] = state)
  BY <1>2, <1>4, LetsStates
<1>7. SameLives /\ \A x \in Threads : k'.state[x] = "WTEXIT" <=> k.state[x] = "WTEXIT"
  <2>1. Ended \cap Runnable = {} /\ "WTEXIT" \notin Runnable /\ "SNDMSG" \notin Ended
    BY DEF Ended, Runnable, None
  <2>2. QED
    BY <1>2, <1>6, <2>1 DEF SameLives
<1>8. WaitInv' /\ RegInv'
  BY <1>1, <1>7, NoJoins, RegStays DEF ThreadsInv
<1>9. QED
  BY <1>4, <1>5, <1>8 DEF ThreadsInv

LEMMA ThreadsStep ==
    ASSUME ThreadsInv, [Next]_vars
    PROVE  ThreadsInv'
<1>1. CASE UNCHANGED vars
  <2>1. ThreadsFit'
    BY <1>1 DEF vars, ThreadsInv, ThreadsFit, Sound, Settled, TopRuns, CallsFit, Runs
  <2>2. Calm /\ RegUnchanged /\ MsgUnchanged /\ UNCHANGED waiting
    BY <1>1 DEF vars, Calm, Still, SameLives, SameReceivers, Runs, RegUnchanged, MsgUnchanged
  <2>3. QED
    BY <2>1, <2>2, CalmKeeps
<1>2. CASE TickStep
  <2>1. Tick /\ RegUnchanged /\ MsgUnchanged /\ UNCHANGED waiting
    BY <1>2 DEF TickStep
  <2>2. QED
    BY <2>1, TickFits, CalmKeeps DEF ThreadsInv
<1>3. ASSUME NEW c \in Threads, ResumeI(c) \/ \E t \in Threads : Resume(t, c) PROVE ThreadsInv'
  <2>1. RegUnchanged /\ MsgUnchanged /\ UNCHANGED waiting
    BY <1>3 DEF ResumeI, Resume
  <2>2. QED
    BY <1>3, <2>1, ResumeFits, CalmKeeps DEF ThreadsInv
<1>4. ASSUME NEW t \in Threads, Back(t) PROVE ThreadsInv'
  <2>1. CASE MsgWaitBack(t)
    BY <2>1, ReceivesOn
  <2>2. CASE SleepBack(t) \/ WaitBack(t) \/ MsgSendBack(t)
    <3>1. RegUnchanged /\ MsgUnchanged /\ UNCHANGED waiting
      BY <2>2 DEF SleepBack, WaitBack, MsgSendBack
    <3>2. QED
      BY <2>2, <3>1, BackFits, CalmKeeps DEF ThreadsInv
  <2>3. QED
    BY <1>4, <2>1, <2>2 DEF Back
<1>5. ASSUME NEW t \in Threads, Exit(t) PROVE ThreadsInv'
  BY <1>5, ExitKeeps
<1>6. ASSUME NEW t \in Threads, Yield(t) PROVE ThreadsInv'
  <2>1. RegUnchanged /\ MsgUnchanged /\ UNCHANGED waiting
    BY <1>6 DEF Yield
  <2>2. QED
    BY <1>6, <2>1, YieldFits, CalmKeeps DEF ThreadsInv
<1>7. ASSUME NEW t \in Threads, NEW p \in Prios, SetPriority(t, p) PROVE ThreadsInv'
  <2>1. RegUnchanged /\ MsgUnchanged /\ UNCHANGED waiting
    BY <1>7 DEF SetPriority
  <2>2. QED
    BY <1>7, <2>1, SetPriorityFits, CalmKeeps DEF ThreadsInv
<1>8. ASSUME NEW t \in Threads, NEW time \in Times, Sleep(t, time) PROVE ThreadsInv'
  <2>1. RegUnchanged /\ MsgUnchanged /\ UNCHANGED waiting
    BY <1>8 DEF Sleep
  <2>2. QED
    BY <1>8, <2>1, SleepFits, CalmKeeps DEF ThreadsInv
<1>9. ASSUME NEW t \in Threads, NEW c \in Threads \ {Idle}, NEW p \in Prios,
             CreateI(t, c, p) \/ CreateStatic(t, c, p)
      PROVE  ThreadsInv'
  BY <1>9, CreateKeeps
<1>10. ASSUME NEW t \in Threads, NEW c \in Threads, Wait(t, c) PROVE ThreadsInv'
  BY <1>10, WaitKeeps
<1>11. ASSUME NEW t \in Threads, NEW c \in Servers, MsgSend(t, c) PROVE ThreadsInv'
  BY <1>11, SendsOn, ThreadsAssumption
<1>12. ASSUME NEW t \in Threads, MsgWait(t) PROVE ThreadsInv'
  BY <1>12, ReceivesOn
<1>13. ASSUME NEW t \in Threads, MsgRelease(t) PROVE ThreadsInv'
  BY <1>13, AnswersOn
<1>14. QED
  BY <1>1, <1>2, <1>3, <1>4, <1>5, <1>6, <1>7, <1>8, <1>9, <1>10, <1>11, <1>12, <1>13 DEF Next

LEMMA ThreadsInitially ==
    ASSUME Init
    PROVE  ThreadsInv
<1> DEFINE prio(p) == [t \in Threads |-> IF t = Main THEN p ELSE 1]
           ready == <<Idle>>
<1>1. PICK p \in Prios : k = InitialState(prio(p), ready, Main, <<>>)
  BY DEF Init
<1>2. /\ call = [t \in Threads |-> User] /\ waiting = [t \in Threads |-> <<>>]
      /\ msgqueue = [t \in Threads |-> <<>>] /\ serving = [t \in Threads |-> None]
      /\ newer = Linking(Main, Idle) /\ older = Linking(Idle, Main)
  BY DEF Init
<1>3. Main \in Threads /\ Idle \in Threads /\ Main # Idle /\ p \in Nat \ {0}
  BY SchdAssumption, ThreadsAssumption
<1>4. Queue(ready, Threads) /\ ToSet(ready) = {Idle}
  <2>1. Queue(Append(<<>>, Idle), Threads) /\ ToSet(Append(<<>>, Idle)) = ToSet(<<>>) \cup {Idle}
    BY <1>3, NothingQueued, AppendedQueue
  <2>2. Append(<<>>, Idle) = <<Idle>>
    OBVIOUS
  <2>3. QED
    BY <2>1, <2>2, NothingQueued
<1>5. /\ prio(p) \in [Threads -> Nat \ {0}] /\ \A t \in ToSet(ready) : prio(p)[t] <= prio(p)[Main]
      /\ Falling(ready, prio(p)) /\ Main \notin ToSet(ready)
  BY <1>3, <1>4 DEF Falling
<1>6. <<>> \in [{} -> Int] /\ "OK" \in Notes
  BY DEF Notes
<1> HIDE DEF prio, ready
<1>7. /\ Sound(k) /\ TopRuns(k)
      /\ \A t \in Threads :
           /\ ~Armed(k, t)
           /\ k.state[t] = IF t = Main THEN "CURRENT" ELSE IF t = Idle THEN "READY" ELSE None
  <2>1. Started(Notes, {}, ready, Main, <<>>, InitialState(prio(p), ready, Main, <<>>))
    BY <1>3, <1>4, <1>5, <1>6, StartsSettled
  <2>2. QED
    BY <1>1, <1>4, <2>1 DEF Started, Sound
<1>8. ThreadsFit
  <2>1. call \in [Threads -> Doings] /\ call[Idle] = User
    BY <1>2, <1>3, DoingsAre
  <2>2. CallsFit(call, k)
    BY <1>2, <1>7 DEF CallsFit, AtRest, Runs, Runnable
  <2>3. Runs(k, Idle)
    BY <1>3, <1>7 DEF Runs, Runnable
  <2>4. QED
    BY <1>7, <2>1, <2>2, <2>3 DEF ThreadsFit
<1>9. ASSUME NEW w, w = [t \in Threads |-> <<>>]
      PROVE  Queues(w) /\ \A t \in Threads : Joined(w, t) = {}
  BY <1>9, NothingQueued DEF Queues, Joined
<1>10. \A t \in Threads : k.state[t] \notin Special
  BY <1>7 DEF Special, None
<1>11. WaitInv
  BY <1>2, <1>9, <1>10 DEF WaitInv, Awaited, Special
<1>12. MsgInv
  <2>1. \A t \in Threads : Served(t) = {}
    BY <1>2, ThreadsAssumption DEF Served
  <2>2. \A t \in Threads : call[t].op # "receive"
    BY <1>2, DoingsAre
  <2>3. Queues(msgqueue) /\ \A t \in Threads : Joined(msgqueue, t) = {}
    BY <1>2, <1>9
  <2>4. QED
    BY <1>2, <1>10, <2>1, <2>2, <2>3 DEF MsgInv, Awaited, Special
<1>13. RegInv
  <2> DEFINE q == <<Main, Idle>>
  <2>1. q \in Seq(Threads) /\ Len(q) = 2 /\ q[1] = Main /\ q[2] = Idle
    BY <1>3
  <2> HIDE DEF q
  <2>2. 1..2 = {1, 2} /\ 0..2 = {0, 1, 2}
    OBVIOUS
  <2>3. Queue(q, Threads) /\ ToSet(q) = {Main, Idle}
    BY <1>3, <2>1, <2>2, QueueSet DEF Queue, IsInjective
  <2>4. Live = {Main, Idle}
    BY <1>3, <1>7 DEF Live, None
  <2>5. Place(q, 0) = RList /\ Place(q, 1) = Main /\ Place(q, 2) = Idle /\ Place(q, 3) = RList
    BY <2>1, <2>2 DEF Place
  <2>6. RList \notin Threads
    BY ThreadsAssumption
  <2>7. ASSUME NEW a \in {Main, Idle}, NEW b \in {Main, Idle}, a # b
        PROVE  /\ Linking(a, b) \in [Ends -> Ends \cup {None}]
               /\ Linking(a, b)[RList] = a /\ Linking(a, b)[a] = b /\ Linking(a, b)[b] = RList
    BY <1>3, <2>6, <2>7 DEF Ends, Linking
  <2>8. /\ newer \in [Ends -> Ends \cup {None}] /\ older \in [Ends -> Ends \cup {None}]
        /\ newer[RList] = Main /\ newer[Main] = Idle /\ newer[Idle] = RList
        /\ older[RList] = Idle /\ older[Idle] = Main /\ older[Main] = RList
    BY <1>2, <1>3, <2>7
  <2>9. Linked(q, newer, older)
    BY <2>1, <2>2, <2>5, <2>8 DEF Linked
  <2>10. QED
    BY <2>3, <2>4, <2>9 DEF RegInv
<1>14. QED
  BY <1>8, <1>11, <1>12, <1>13 DEF ThreadsInv

\* In every behaviour of the threads: the kernel is sound and each thread is
\* where the rest of its call says, those that wait for an end or an answer are
\* in the one queue they wait in, and the registry is a ring of the living.
THEOREM ThreadsInvariant == Spec => []ThreadsInv
<1>1. Init => ThreadsInv
  BY ThreadsInitially
<1>2. ThreadsInv /\ [Next]_vars => ThreadsInv'
  BY ThreadsStep
<1>3. QED
  BY <1>1, <1>2, PTL DEF Spec

\* Each thread is in the one place its state says, the most urgent one runs,
\* and no sleep is cut short or overrun, whatever threads are made, end, join,
\* send, answer, yield and change their priority.
THEOREM SchedulerIsSound == Spec => [](TypeOK /\ HighestRuns /\ TimersOnTime)
<1>1. ThreadsInv => TypeOK /\ HighestRuns /\ TimersOnTime
  <2>1. ASSUME ThreadsInv PROVE PlacesOK /\ HighestRuns /\ TimersOnTime
    BY <2>1, SettledIsSound DEF ThreadsInv, ThreadsFit, Sound
  <2>2. QED
    BY <2>1 DEF TypeOK, ThreadsInv, WaitInv, MsgInv, Queues
<1>2. QED
  BY <1>1, ThreadsInvariant, PTL

\* Nobody waits for what has already happened: a thread in chThdWait() waits
\* for one that has not ended, a message has one holder, and a server does not
\* sleep while a message is queued.
THEOREM NobodyIsStranded == Spec => []NobodyStranded
<1>1. ThreadsInv => NobodyStranded
  <2> SUFFICES ASSUME ThreadsInv, NEW t \in Threads
               PROVE  /\ k.state[t] = "WTEXIT" =>
                           Cardinality({c \in Threads : k.state[c] # "FINAL" /\ t \in ToSet(waiting[c])}) = 1
                      /\ k.state[t] = "SNDMSGQ" => Cardinality({c \in Threads : t \in ToSet(msgqueue[c])}) = 1
                      /\ k.state[t] = "SNDMSG" => Cardinality({c \in Threads : serving[c] = t}) = 1
                      /\ k.state[t] = "WTMSG" => msgqueue[t] = <<>>
    BY DEF NobodyStranded
  <2>1. ASSUME NEW S, One(S) PROVE Cardinality(S) = 1
    BY <2>1, FS_Singleton DEF One
  <2>2. {c \in Threads : k.state[c] # "FINAL" /\ t \in ToSet(waiting[c])} = Joined(waiting, t)
    <3>1. \A c \in Threads : k.state[c] = "FINAL" => t \notin ToSet(waiting[c])
      BY NothingQueued DEF ThreadsInv, WaitInv, Ended
    <3>2. QED
      BY <3>1 DEF Joined
  <2>3. k.state[t] = "WTEXIT" => One(Joined(waiting, t))
    BY DEF ThreadsInv, WaitInv, Awaited
  <2>4. k.state[t] = "SNDMSGQ" => One({c \in Threads : t \in ToSet(msgqueue[c])})
    BY DEF ThreadsInv, MsgInv, Awaited, Joined
  <2>5. k.state[t] = "SNDMSG" => One({c \in Threads : serving[c] = t})
    BY DEF ThreadsInv, MsgInv, Served
  <2>6. k.state[t] = "WTMSG" => msgqueue[t] = <<>>
    BY DEF ThreadsInv, MsgInv
  <2>7. QED
    BY <2>1, <2>2, <2>3, <2>4, <2>5, <2>6
<1>2. QED
  BY <1>1, ThreadsInvariant, PTL

\* The registry lists exactly the threads that live, both ways.
THEOREM RegistryIsTrue == Spec => []RegistryIsLive
<1>1. ThreadsInv => RegistryIsLive
  BY RegistryLists DEF ThreadsInv
<1>2. QED
  BY <1>1, ThreadsInvariant, PTL
=============================================================================
