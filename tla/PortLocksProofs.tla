--------------------------- MODULE PortLocksProofs ---------------------------
(* Mutual exclusion of the locks of PortLocks, on the scheduler, the timers *)
(* and the semaphores of the kernel: the invariant relates the counter and  *)
(* the queue of each semaphore to the states, the calls and the locks of    *)
(* the threads, and each action keeps it by what KernelProofs says of the   *)
(* kernel functions the action calls.                                       *)
EXTENDS PortLocks, KernelProofs, FiniteSetTheorems

Notes == Objects \cup {"OK", "TIMEOUT"}
Asks(o) == [op |-> "lock", of |-> o]
Delayed == [op |-> "delay"]

KernelOK == k \in KernelStates(Notes, Objects) /\ Placed(k) /\ Queue(Pars(k.vt), Threads)

\* A thread that waits for a semaphore is locking it, one that sleeps or
\* has a timer is delaying, and the idle thread does neither.
CallsOK ==
    /\ call \in [Threads -> {User, Delayed} \cup {Asks(o) : o \in Objects}]
    /\ k.state[Idle] \in Runnable
    /\ \A t \in Threads :
         /\ k.state[t] \in Runnable \cup {"WTSEM", "SLEEPING"}
         /\ k.state[t] = "WTSEM" => k.u[t] \in Objects /\ call[t] = Asks(k.u[t])
         /\ k.state[t] = "SLEEPING" => call[t] = Delayed
         /\ Armed(k, t) => call[t] = Delayed

NestsOK ==
    /\ held \in [Threads -> Seq(Objects)]
    /\ \A t \in Threads :
         /\ held[t] \in Nests(t) \cup {<<>>}
         /\ call[t].op = "lock" => Append(held[t], call[t].of) \in Nests(t)

\* Thread t holds lock o, or has been handed it and has not run since.
Has(t, o) == o \in ToSet(held[t]) \/ Granted(t, o)

CountsOK ==
    \A o \in Objects :
        /\ k.cnt[o] <= 1
        /\ Len(k.queue[o]) = (IF k.cnt[o] < 0 THEN -k.cnt[o] ELSE 0)
        /\ k.cnt[o] > 0 <=> \A t \in Threads : ~Has(t, o)
        /\ \A t1, t2 \in Threads : Has(t1, o) /\ Has(t2, o) => t1 = t2

LocksInv == KernelOK /\ CallsOK /\ NestsOK /\ CountsOK

-----------------------------------------------------------------------------
(* The constants.                                                           *)

LEMMA ThreeAtMost ==
    ASSUME NEW a, NEW b, NEW c
    PROVE  IsFiniteSet({a, b, c}) /\ Cardinality({a, b, c}) \in Nat /\ Cardinality({a, b, c}) <= 3
<1>1. IsFiniteSet({a}) /\ Cardinality({a}) = 1
  BY FS_Singleton
<1>2. {a, b} = {a} \cup {b} /\ {a, b, c} = {a, b} \cup {c}
  OBVIOUS
<1>3. IsFiniteSet({a, b}) /\ Cardinality({a, b}) \in {1, 2}
  BY <1>1, <1>2, FS_AddElement
<1>4. IsFiniteSet({a, b, c}) /\ Cardinality({a, b, c}) \in {1, 2, 3}
  BY <1>2, <1>3, FS_AddElement
<1>5. QED
  BY <1>4

LEMMA FourAtMost ==
    ASSUME NEW a, NEW b, NEW c, NEW d
    PROVE  Cardinality({a, b, c, d}) \in Nat /\ Cardinality({a, b, c, d}) <= 4
<1>1. IsFiniteSet({a, b, c}) /\ Cardinality({a, b, c}) \in Nat /\ Cardinality({a, b, c}) <= 3
  BY ThreeAtMost
<1>2. {a, b, c, d} = {a, b, c} \cup {d}
  OBVIOUS
<1>3. \/ Cardinality({a, b, c, d}) = Cardinality({a, b, c})
      \/ Cardinality({a, b, c, d}) = Cardinality({a, b, c}) + 1
  BY <1>1, <1>2, FS_AddElement
<1>4. QED
  BY <1>1, <1>3

LEMMA FourObjects ==
    /\ Objects = {Buffer, IdePort, EnodePort, Spi}
    /\ Buffer # IdePort /\ Buffer # EnodePort /\ Buffer # Spi
    /\ IdePort # EnodePort /\ IdePort # Spi /\ EnodePort # Spi
<1>1. Objects = {Buffer, IdePort, EnodePort, Spi} /\ Cardinality(Objects) = 4
  BY LocksAssumption
<1>2. ASSUME NEW a, NEW b, NEW c PROVE Objects # {a, b, c}
  <2>1. Cardinality({a, b, c}) \in Nat /\ Cardinality({a, b, c}) <= 3
    BY ThreeAtMost
  <2>2. QED
    BY <1>1, <2>1
<1>3. Objects # {Buffer, EnodePort, Spi} /\ Objects # {Buffer, IdePort, Spi}
      /\ Objects # {Buffer, IdePort, EnodePort}
  BY <1>2
<1>4. QED
  BY <1>1, <1>3

LEMMA FiveThreads ==
    /\ Threads = {Lame, Ide, Prog, Sensor, Idle}
    /\ Lame # Ide /\ Lame # Prog /\ Lame # Sensor /\ Lame # Idle
    /\ Ide # Prog /\ Ide # Sensor /\ Ide # Idle
    /\ Prog # Sensor /\ Prog # Idle /\ Sensor # Idle
<1>1. Threads = {Lame, Ide, Prog, Sensor, Idle} /\ Cardinality(Threads) = 5
  BY LocksAssumption
<1>2. ASSUME NEW a, NEW b, NEW c, NEW d PROVE Threads # {a, b, c, d}
  <2>1. Cardinality({a, b, c, d}) \in Nat /\ Cardinality({a, b, c, d}) <= 4
    BY FourAtMost
  <2>2. QED
    BY <1>1, <2>1
<1>3. /\ Threads # {Lame, Prog, Sensor, Idle} /\ Threads # {Lame, Ide, Sensor, Idle}
      /\ Threads # {Lame, Ide, Prog, Idle} /\ Threads # {Lame, Ide, Prog, Sensor}
  BY <1>2
<1>4. QED
  BY <1>1, <1>3

LEMMA NestsOf ==
    /\ Nests(Ide) = {<<IdePort>>, <<IdePort, Buffer>>, <<IdePort, Buffer, Spi>>}
    /\ Nests(Prog) = {<<EnodePort>>, <<EnodePort, Spi>>, <<EnodePort, Buffer>>,
                      <<EnodePort, Buffer, Spi>>}
    /\ Nests(Sensor) = {<<Spi>>} /\ Nests(Lame) = {<<Buffer>>} /\ Nests(Idle) = {}
  BY FiveThreads DEF Nests

LEMMA Appended ==
    ASSUME NEW S, NEW q \in Seq(S), NEW e \in S
    PROVE  /\ Append(q, e) \in Seq(S) /\ Append(q, e) # <<>>
           /\ Front(Append(q, e)) = q /\ Last(Append(q, e)) = e
           /\ ToSet(Append(q, e)) = ToSet(q) \cup {e}
<1> DEFINE r == Append(q, e)
<1>1. /\ r \in Seq(S) /\ Len(q) \in Nat /\ Len(r) = Len(q) + 1 /\ r[Len(q) + 1] = e
      /\ \A i \in 1..Len(q) : r[i] = q[i]
  BY LenProperties, AppendProperties
<1> HIDE DEF r
<1>2. r # <<>> /\ Last(r) = e
  BY <1>1, EmptySeq DEF Last
<1>3. Front(r) = q
  <2>1. Front(r) = SubSeq(r, 1, Len(q))
    BY <1>1 DEF Front
  <2> DEFINE f == SubSeq(r, 1, Len(q))
  <2>2. f \in Seq(S) /\ Len(f) = Len(q) /\ \A i \in 1..Len(q) : f[i] = r[i]
    BY <1>1
  <2> HIDE DEF f
  <2>3. f = q
    BY <1>1, <2>2, SeqEqual
  <2>4. QED
    BY <2>1, <2>3 DEF f
<1>4. ASSUME NEW x PROVE x \in ToSet(r) <=> x \in ToSet(q) \cup {e}
  <2>1. /\ x \in ToSet(q) <=> \E i \in 1..Len(q) : q[i] = x
        /\ x \in ToSet(r) <=> \E i \in 1..(Len(q) + 1) : r[i] = x
    BY <1>1, QueueSet
  <2>2. \A i \in 1..(Len(q) + 1) : i \in 1..Len(q) \/ i = Len(q) + 1
    BY <1>1
  <2>3. \A i \in 1..Len(q) : i \in 1..(Len(q) + 1)
    BY <1>1
  <2>4. Len(q) + 1 \in 1..(Len(q) + 1)
    BY <1>1
  <2>5. QED
    BY <1>1, <2>1, <2>2, <2>3, <2>4
<1>5. QED
  BY <1>1, <1>2, <1>3, <1>4 DEF r

\* The nests are closed under giving back the last lock, and none takes a
\* lock twice.
Nested(q, N) ==
    /\ q \in Seq(Objects) /\ q # <<>> /\ Front(q) \in N \cup {<<>>}
    /\ ToSet(Front(q)) = ToSet(q) \ {Last(q)} /\ Last(q) \in ToSet(q)

LEMMA NestsUpToThree ==
    ASSUME NEW a \in Objects, NEW b \in Objects, NEW c \in Objects, a # b, a # c, b # c, NEW N
    PROVE  /\ Nested(<<a>>, N)
           /\ <<a>> \in N => Nested(<<a, b>>, N)
           /\ <<a, b>> \in N => Nested(<<a, b, c>>, N)
<1> DEFINE none == <<>>
           one == <<a>>
           two == <<a, b>>
           three == <<a, b, c>>
<1>1. none \in Seq(Objects) /\ none = <<>>
  OBVIOUS
<1>2. one = Append(none, a) /\ two = Append(one, b) /\ three = Append(two, c)
  OBVIOUS
<1> HIDE DEF none, one, two, three
<1>3. ToSet(none) = {}
  BY <1>1, QueueSet
<1>4. \A q \in Seq(Objects), e \in Objects :
        /\ Append(q, e) \in Seq(Objects) /\ Append(q, e) # <<>>
        /\ Front(Append(q, e)) = q /\ Last(Append(q, e)) = e
        /\ ToSet(Append(q, e)) = ToSet(q) \cup {e}
  BY Appended
<1>5. /\ one \in Seq(Objects) /\ one # <<>> /\ Front(one) = none /\ Last(one) = a
      /\ ToSet(one) = ToSet(none) \cup {a}
  BY <1>1, <1>2, <1>4
<1>6. /\ two \in Seq(Objects) /\ two # <<>> /\ Front(two) = one /\ Last(two) = b
      /\ ToSet(two) = ToSet(one) \cup {b}
  BY <1>2, <1>4, <1>5
<1>7. /\ three \in Seq(Objects) /\ three # <<>> /\ Front(three) = two /\ Last(three) = c
      /\ ToSet(three) = ToSet(two) \cup {c}
  BY <1>2, <1>4, <1>6
<1>8. Nested(one, N)
  BY <1>1, <1>3, <1>5 DEF Nested
<1>9. one \in N => Nested(two, N)
  BY <1>3, <1>5, <1>6 DEF Nested
<1>10. two \in N => Nested(three, N)
  BY <1>3, <1>5, <1>6, <1>7 DEF Nested
<1>11. QED
  BY <1>8, <1>9, <1>10 DEF one, two, three

LEMMA NestsAre ==
    ASSUME NEW t \in Threads, NEW q \in Nests(t)
    PROVE  t # Idle /\ Nested(q, Nests(t))
<1> DEFINE N == Nests(t)
           Closed(a, b, c) == /\ Nested(<<a>>, N)
                              /\ <<a>> \in N => Nested(<<a, b>>, N)
                              /\ <<a, b>> \in N => Nested(<<a, b, c>>, N)
<1>1. t # Idle
  BY NestsOf
<1>2. /\ Closed(IdePort, Buffer, Spi) /\ Closed(EnodePort, Buffer, Spi)
      /\ Closed(EnodePort, Spi, Buffer) /\ Closed(Spi, Buffer, IdePort)
      /\ Closed(Buffer, Spi, IdePort)
  <2>1. \A a, b, c \in Objects : a # b /\ a # c /\ b # c => Closed(a, b, c)
    BY NestsUpToThree
  <2> HIDE DEF Closed
  <2>2. QED
    BY <2>1, FourObjects
<1>3. CASE t = Ide
  <2>1. N = {<<IdePort>>, <<IdePort, Buffer>>, <<IdePort, Buffer, Spi>>}
    BY <1>3, NestsOf
  <2> HIDE DEF N
  <2>2. QED
    BY <1>1, <1>2, <2>1, Zenon DEF N
<1>4. CASE t = Prog
  <2>1. N = {<<EnodePort>>, <<EnodePort, Spi>>, <<EnodePort, Buffer>>,
             <<EnodePort, Buffer, Spi>>}
    BY <1>4, NestsOf
  <2>2. q \in N
    OBVIOUS
  <2> HIDE DEF N
  <2>3. <<EnodePort>> \in N /\ <<EnodePort, Buffer>> \in N
    BY <2>1
  <2>4. /\ Nested(<<EnodePort>>, N) /\ Nested(<<EnodePort, Buffer>>, N)
        /\ Nested(<<EnodePort, Spi>>, N) /\ Nested(<<EnodePort, Buffer, Spi>>, N)
    BY <1>2, <2>3, Zenon
  <2>5. Nested(q, N)
    BY <2>1, <2>2, <2>4, Zenon
  <2>6. QED
    BY <1>1, <2>5 DEF N
<1>5. CASE t \in {Sensor, Lame}
  <2>1. N = {<<Spi>>} \/ N = {<<Buffer>>}
    BY <1>5, NestsOf
  <2>2. q \in N
    OBVIOUS
  <2> HIDE DEF N
  <2>3. q = <<Spi>> \/ q = <<Buffer>>
    BY <2>1, <2>2
  <2>4. Nested(<<Spi>>, N) /\ Nested(<<Buffer>>, N)
    BY <1>2, Zenon
  <2>5. Nested(q, N)
    BY <2>3, <2>4, Zenon
  <2>6. QED
    BY <1>1, <2>5 DEF N
<1>6. QED
  BY <1>1, <1>3, <1>4, <1>5, FiveThreads

-----------------------------------------------------------------------------
(* The steps.                                                               *)

LEMMA CallKinds ==
    /\ User.op = "user" /\ Delayed.op = "delay"
    /\ \A o \in Objects : Asks(o).op = "lock" /\ Asks(o).of = o
    /\ User # Delayed /\ \A o \in Objects : Asks(o) # User /\ Asks(o) # Delayed
  BY DEF User, Delayed, Asks

\* A thread that runs its own code has no timer, and the idle thread can
\* run when another one does.
LEMMA WhoCalls ==
    ASSUME LocksInv
    PROVE  /\ k.current \in Threads /\ Runs(k, k.current) /\ k.state[k.current] = "CURRENT"
           /\ \A t \in Threads : t # k.current => k.state[t] # "CURRENT"
           /\ InUser => ~Armed(k, k.current)
           /\ InUser /\ k.current # Idle => k.ready # <<>>
<1>1. k.current \in Threads /\ k.state[k.current] = "CURRENT"
  BY DEF LocksInv, KernelOK, KernelStates, Placed, ThreadPlaced
<1>2. \A t \in Threads : t # k.current => k.state[t] # "CURRENT"
  BY DEF LocksInv, KernelOK, Placed, ThreadPlaced
<1>3. InUser => ~Armed(k, k.current)
  BY <1>1, CallKinds DEF LocksInv, CallsOK, InUser
<1>4. k.current # Idle => k.ready # <<>>
  <2>1. k.current # Idle => k.state[Idle] = "READY"
    BY <1>2, SchdAssumption DEF LocksInv, CallsOK, Runnable
  <2>2. k.state[Idle] = "READY" => Idle \in ToSet(k.ready)
    BY SchdAssumption DEF LocksInv, KernelOK, Placed, ThreadPlaced
  <2>3. k.ready \in Seq(Threads)
    BY DEF LocksInv, KernelOK, KernelStates
  <2>4. QED
    BY <2>1, <2>2, <2>3, QueueSet
<1>5. QED
  BY <1>1, <1>2, <1>3, <1>4 DEF Runs, Runnable

\* Nothing about the locks changes when nobody is handed one.
LEMMA CountsKept ==
    ASSUME CountsOK, k'.cnt = k.cnt, k'.queue = k.queue,
           \A t \in Threads, o \in Objects : Has(t, o)' <=> Has(t, o)
    PROVE  CountsOK'
<1> SUFFICES ASSUME NEW o \in Objects
    PROVE  /\ k'.cnt[o] <= 1
           /\ Len(k'.queue[o]) = (IF k'.cnt[o] < 0 THEN -k'.cnt[o] ELSE 0)
           /\ k'.cnt[o] > 0 <=> \A t \in Threads : ~Has(t, o)'
           /\ \A t1, t2 \in Threads : Has(t1, o)' /\ Has(t2, o)' => t1 = t2
  BY DEF CountsOK
<1>1. QED
  BY DEF CountsOK

LEMMA TickKeeps == ASSUME LocksInv, TickStep PROVE LocksInv'
<1>1. k' = Epilogue(SysTimerHandlerI(k)) /\ InUser /\ call' = call /\ held' = held
  BY DEF TickStep, Tick
<1>2. ASSUME NEW t \in Threads, Armed(k, t)
      PROVE  /\ t # k.current /\ k.state[t] \notin WaitStates
             /\ k.state[t] # "WTSEM" /\ call[t] = Delayed
  <2>1. call[t] = Delayed /\ (k.state[t] = "WTSEM" => k.u[t] \in Objects /\ call[t] = Asks(k.u[t]))
        /\ k.state[t] \in Runnable \cup {"WTSEM", "SLEEPING"}
    BY <1>2 DEF LocksInv, CallsOK
  <2>2. k.state[t] # "WTSEM"
    BY <2>1, CallKinds
  <2>3. k.state[t] \notin WaitStates
    BY <2>1, <2>2 DEF WaitStates, Runnable
  <2>4. QED
    BY <1>1, <1>2, <2>1, <2>2, <2>3, WhoCalls
<1>3. /\ k' \in KernelStates(Notes, Objects) /\ Placed(k') /\ Queue(Pars(k'.vt), Threads)
      /\ k'.queue = k.queue /\ k'.cnt = k.cnt
      /\ \A t \in Threads :
           /\ Armed(k', t) => Armed(k, t)
           /\ Runs(k, t) => Runs(k', t)
           /\ Runs(k', t) => Runs(k, t) \/ Armed(k, t)
           /\ ~Runs(k', t) => k'.state[t] = k.state[t] /\ k'.u[t] = k.u[t]
  <2> DEFINE r == Epilogue(SysTimerHandlerI(k))
  <2>1. "TIMEOUT" \in Notes
    BY DEF Notes
  <2>2. \A t \in Threads : Armed(k, t) => t # k.current /\ k.state[t] \notin WaitStates
    BY <1>2
  <2>3. /\ r \in KernelStates(Notes, Objects) /\ Placed(r) /\ Queue(Pars(r.vt), Threads)
        /\ r.queue = k.queue /\ r.cnt = k.cnt
        /\ \A t \in Threads :
             /\ Armed(r, t) => Armed(k, t)
             /\ Runs(k, t) => Runs(r, t)
             /\ Runs(r, t) => Runs(k, t) \/ Armed(k, t)
             /\ ~Runs(r, t) => r.state[t] = k.state[t] /\ r.u[t] = k.u[t]
    BY <2>1, <2>2, TickPlaces DEF LocksInv, KernelOK
  <2> HIDE DEF r
  <2>4. QED
    BY <1>1, <2>3 DEF r
<1>4. CallsOK'
  <2>1. ASSUME NEW t \in Threads
        PROVE  /\ k'.state[t] \in Runnable \cup {"WTSEM", "SLEEPING"}
               /\ k'.state[t] = "WTSEM" => k'.u[t] \in Objects /\ call[t] = Asks(k'.u[t])
               /\ k'.state[t] = "SLEEPING" => call[t] = Delayed
               /\ Armed(k', t) => call[t] = Delayed
    <3>1. /\ k.state[t] \in Runnable \cup {"WTSEM", "SLEEPING"}
          /\ k.state[t] = "WTSEM" => k.u[t] \in Objects /\ call[t] = Asks(k.u[t])
          /\ k.state[t] = "SLEEPING" => call[t] = Delayed
          /\ Armed(k, t) => call[t] = Delayed
      BY DEF LocksInv, CallsOK
    <3>2. CASE Runs(k', t)
      BY <1>3, <3>1, <3>2 DEF Runs, Runnable
    <3>3. CASE ~Runs(k', t)
      BY <1>3, <3>1, <3>3
    <3>4. QED
      BY <3>2, <3>3
  <2>2. k'.state[Idle] \in Runnable
    BY <1>3, SchdAssumption DEF LocksInv, CallsOK, Runs
  <2>3. QED
    BY <1>1, <2>1, <2>2 DEF LocksInv, CallsOK
<1>5. NestsOK'
  BY <1>1 DEF LocksInv, NestsOK
<1>6. CountsOK'
  <2>1. ASSUME NEW t \in Threads, NEW o \in Objects PROVE Has(t, o)' <=> Has(t, o)
    <3>1. Armed(k, t) => call[t].op # "lock"
      BY <1>2, CallKinds
    <3>2. QED
      BY <1>1, <1>3, <3>1 DEF Has, Granted, Runs, Runnable
  <2>2. QED
    BY <1>3, <2>1, CountsKept DEF LocksInv
<1>7. QED
  BY <1>3, <1>4, <1>5, <1>6 DEF LocksInv, KernelOK

\* What the invariant says of the thread that makes a call.
LEMMA WhoLocks ==
    ASSUME LocksInv, NEW t \in Threads, Calls(t)
    PROVE  /\ t = k.current /\ t # Idle /\ call[t] = User /\ Runs(k, t)
           /\ k.state[t] = "CURRENT" /\ ~Armed(k, t) /\ k.ready # <<>>
           /\ \A o \in Objects : ~Granted(t, o)
<1>1. t = k.current /\ t # Idle /\ call[t] = User /\ InUser
  BY DEF Calls, InUser
<1>2. Runs(k, t) /\ k.state[t] = "CURRENT" /\ ~Armed(k, t) /\ k.ready # <<>>
  BY <1>1, WhoCalls
<1>3. \A o \in Objects : ~Granted(t, o)
  BY <1>1, CallKinds DEF Granted
<1>4. QED
  BY <1>1, <1>2, <1>3

\* One more lock in the hands of the current thread.
LEMMA HeldMore ==
    ASSUME NestsOK, NEW t \in Threads, NEW o \in Objects, Append(held[t], o) \in Nests(t), Gets(t, o)
    PROVE  /\ held' \in [Threads -> Seq(Objects)]
           /\ held'[t] \in Nests(t) /\ \A x \in Threads \ {t} : held'[x] = held[x]
           /\ ToSet(held'[t]) = ToSet(held[t]) \cup {o}
<1>1. held \in [Threads -> Seq(Objects)] /\ held' = [held EXCEPT ![t] = Append(@, o)]
  BY DEF NestsOK, Gets
<1>2. Append(held[t], o) \in Seq(Objects) /\ ToSet(Append(held[t], o)) = ToSet(held[t]) \cup {o}
  BY <1>1, Appended
<1>3. QED
  BY <1>1, <1>2

LEMMA LockTakes ==
    ASSUME LocksInv, NEW t \in Threads, NEW o \in Objects, Calls(t),
           Append(held[t], o) \in Nests(t), SemFree(k, o), Returns(SemTake(k, o)), Gets(t, o)
    PROVE  LocksInv'
<1>1. /\ t = k.current /\ t # Idle /\ call[t] = User /\ Runs(k, t) /\ ~Armed(k, t)
      /\ \A x \in Objects : ~Granted(t, x)
  BY WhoLocks
<1>2. call' = call /\ k' = [k EXCEPT !.cnt[o] = k.cnt[o] - 1] /\ k.cnt[o] > 0
  BY DEF Returns, SemTake, SemFree
<1>3. k.cnt \in [Objects -> Int]
  BY DEF LocksInv, KernelOK, KernelStates
<1>4. /\ k' \in KernelStates(Notes, Objects) /\ Placed(k')
      /\ k'.cnt = [k.cnt EXCEPT ![o] = @ - 1]
      /\ k'.queue = k.queue /\ k'.vt = k.vt /\ k'.state = k.state /\ k'.u = k.u
  <2>1. k.cnt[o] - 1 \in Int
    BY <1>3
  <2>2. QED
    BY <1>2, <2>1, CountSet DEF LocksInv, KernelOK
<1>5. CallsOK'
  BY <1>2, <1>4 DEF LocksInv, CallsOK, Armed
<1>6. /\ held' \in [Threads -> Seq(Objects)]
      /\ held'[t] \in Nests(t) /\ \A x \in Threads \ {t} : held'[x] = held[x]
      /\ ToSet(held'[t]) = ToSet(held[t]) \cup {o}
  BY HeldMore DEF LocksInv
<1>7. NestsOK'
  BY <1>1, <1>2, <1>6, CallKinds DEF LocksInv, NestsOK
<1>8. CountsOK'
  <2>1. ASSUME NEW x \in Threads, NEW y \in Objects
        PROVE  Has(x, y)' <=> (Has(x, y) \/ (x = t /\ y = o))
    BY <1>2, <1>4, <1>6 DEF Has, Granted
  <2>2. ASSUME NEW y \in Objects
        PROVE  /\ k'.cnt[y] <= 1
               /\ Len(k'.queue[y]) = (IF k'.cnt[y] < 0 THEN -k'.cnt[y] ELSE 0)
               /\ k'.cnt[y] > 0 <=> \A x \in Threads : ~Has(x, y)'
               /\ \A t1, t2 \in Threads : Has(t1, y)' /\ Has(t2, y)' => t1 = t2
    <3>1. /\ k.cnt[y] <= 1 /\ k.cnt[y] \in Int
          /\ Len(k.queue[y]) = (IF k.cnt[y] < 0 THEN -k.cnt[y] ELSE 0)
          /\ k.cnt[y] > 0 <=> \A x \in Threads : ~Has(x, y)
          /\ \A t1, t2 \in Threads : Has(t1, y) /\ Has(t2, y) => t1 = t2
      BY <1>3 DEF LocksInv, CountsOK
    <3>2. CASE y = o
      <4>1. k.cnt[o] = 1 /\ k'.cnt[o] = 0 /\ k'.queue = k.queue
        BY <1>2, <1>3, <1>4, <3>1, <3>2
      <4>2. \A x \in Threads : Has(x, y)' <=> x = t
        BY <1>2, <2>1, <3>1, <3>2
      <4>3. QED
        BY <3>1, <3>2, <4>1, <4>2
    <3>3. CASE y # o
      <4>1. k'.cnt[y] = k.cnt[y] /\ k'.queue = k.queue
        BY <1>3, <1>4, <3>3
      <4>2. \A x \in Threads : Has(x, y)' <=> Has(x, y)
        BY <2>1, <3>3
      <4>3. QED
        BY <3>1, <4>1, <4>2
    <3>4. QED
      BY <3>2, <3>3
  <2>3. QED
    BY <2>2 DEF CountsOK
<1>9. QED
  BY <1>4, <1>5, <1>7, <1>8 DEF LocksInv, KernelOK

LEMMA LockWaits ==
    ASSUME LocksInv, NEW t \in Threads, NEW o \in Objects, Calls(t),
           Append(held[t], o) \in Nests(t), ~SemFree(k, o),
           Sleeps(t, SemSleep(k, o, Infinite), Asks(o)), UNCHANGED held
    PROVE  LocksInv'
<1>1. /\ t = k.current /\ t # Idle /\ call[t] = User /\ Runs(k, t) /\ ~Armed(k, t)
      /\ k.ready # <<>> /\ \A x \in Objects : ~Granted(t, x)
  BY WhoLocks
<1>2. call' = [call EXCEPT ![t] = Asks(o)] /\ k' = SemSleep(k, o, Infinite) /\ held' = held
  BY DEF Sleeps
<1>3. k.cnt \in [Objects -> Int] /\ k.queue \in [Objects -> Seq(Threads)] /\ ~(k.cnt[o] > 0)
  BY DEF LocksInv, KernelOK, KernelStates, SemFree
<1>4. /\ k' \in KernelStates(Notes, Objects) /\ Placed(k') /\ k'.vt = k.vt
      /\ k'.cnt = [k.cnt EXCEPT ![o] = @ - 1]
      /\ k'.queue = [k.queue EXCEPT ![o] = Append(@, t)]
      /\ Len(k'.queue[o]) = Len(k.queue[o]) + 1
      /\ \A x \in Threads : ~Runs(k, x) => k'.state[x] = k.state[x] /\ k'.u[x] = k.u[x]
      /\ k'.state[t] = "WTSEM" /\ k'.u[t] = o
      /\ \A x \in Threads : Runs(k', x) <=> (Runs(k, x) /\ x # t)
  <2> DEFINE r == SemSleep(k, o, Infinite)
  <2>1. o \in Notes /\ o \in Objects
    BY DEF Notes
  <2>2. /\ r \in KernelStates(Notes, Objects) /\ Placed(r) /\ r.vt = k.vt
        /\ r.cnt = [k.cnt EXCEPT ![o] = @ - 1]
        /\ r.queue = [k.queue EXCEPT ![o] = Append(@, k.current)]
        /\ Len(r.queue[o]) = Len(k.queue[o]) + 1
        /\ Sleepers(k, r, Threads)
        /\ r.state[k.current] = "WTSEM" /\ r.u[k.current] = o
        /\ \A x \in Threads : Runs(r, x) <=> (Runs(k, x) /\ x # k.current)
    BY <1>1, <2>1, SemSleeps DEF LocksInv, KernelOK
  <2> HIDE DEF r
  <2>3. QED
    BY <1>1, <1>2, <2>2 DEF r, Sleepers
<1>5. call \in [Threads -> {User, Delayed} \cup {Asks(x) : x \in Objects}]
  BY DEF LocksInv, CallsOK
<1>6. call'[t] = Asks(o) /\ \A x \in Threads \ {t} : call'[x] = call[x]
  BY <1>2, <1>5
<1>7. CallsOK'
  <2>1. ASSUME NEW x \in Threads
        PROVE  /\ k'.state[x] \in Runnable \cup {"WTSEM", "SLEEPING"}
               /\ k'.state[x] = "WTSEM" => k'.u[x] \in Objects /\ call'[x] = Asks(k'.u[x])
               /\ k'.state[x] = "SLEEPING" => call'[x] = Delayed
               /\ Armed(k', x) => call'[x] = Delayed
    <3>1. /\ k.state[x] \in Runnable \cup {"WTSEM", "SLEEPING"}
          /\ k.state[x] = "WTSEM" => k.u[x] \in Objects /\ call[x] = Asks(k.u[x])
          /\ k.state[x] = "SLEEPING" => call[x] = Delayed
          /\ Armed(k, x) => call[x] = Delayed
          /\ Armed(k', x) <=> Armed(k, x)
      BY <1>4 DEF LocksInv, CallsOK, Armed
    <3>2. CASE x = t
      BY <1>1, <1>4, <1>6, <3>1, <3>2
    <3>3. CASE x # t /\ Runs(k', x)
      BY <1>6, <3>1, <3>3 DEF Runs, Runnable
    <3>4. CASE x # t /\ ~Runs(k', x)
      BY <1>4, <1>6, <3>1, <3>4
    <3>5. QED
      BY <3>2, <3>3, <3>4
  <2>2. k'.state[Idle] \in Runnable
    BY <1>1, <1>4, SchdAssumption DEF LocksInv, CallsOK, Runs
  <2>3. call' \in [Threads -> {User, Delayed} \cup {Asks(x) : x \in Objects}]
    BY <1>2, <1>5
  <2>4. QED
    BY <2>1, <2>2, <2>3 DEF CallsOK
<1>8. NestsOK'
  BY <1>2, <1>6, CallKinds DEF LocksInv, NestsOK
<1>9. CountsOK'
  <2>1. ASSUME NEW x \in Threads, NEW y \in Objects PROVE Has(x, y)' <=> Has(x, y)
    <3>1. Granted(x, y) <=> Runs(k, x) /\ call[x].op = "lock" /\ call[x].of = y
      BY DEF Granted, Runs, Runnable
    <3>2. Granted(x, y)' <=> Runs(k', x) /\ call'[x].op = "lock" /\ call'[x].of = y
      BY DEF Granted, Runs, Runnable
    <3>3. Granted(x, y)' <=> Granted(x, y)
      BY <1>1, <1>4, <1>6, <3>1, <3>2
    <3>4. QED
      BY <1>2, <3>3 DEF Has
  <2>2. ASSUME NEW y \in Objects
        PROVE  /\ k'.cnt[y] <= 1
               /\ Len(k'.queue[y]) = (IF k'.cnt[y] < 0 THEN -k'.cnt[y] ELSE 0)
               /\ k'.cnt[y] > 0 <=> k.cnt[y] > 0
    <3>1. /\ k.cnt[y] <= 1 /\ k.cnt[y] \in Int
          /\ Len(k.queue[y]) = (IF k.cnt[y] < 0 THEN -k.cnt[y] ELSE 0)
      BY <1>3 DEF LocksInv, CountsOK
    <3>2. CASE y = o
      BY <1>3, <1>4, <3>1, <3>2
    <3>3. CASE y # o
      BY <1>3, <1>4, <3>1, <3>3
    <3>4. QED
      BY <3>2, <3>3
  <2>3. QED
    BY <2>1, <2>2 DEF LocksInv, CountsOK
<1>10. QED
  BY <1>4, <1>7, <1>8, <1>9 DEF LocksInv, KernelOK

\* The current thread is back from a call: it may have had a timer.
LEMMA Backs ==
    ASSUME LocksInv, NEW t \in Threads, t = k.current, Sleeps(t, AwakeS(k), User)
    PROVE  /\ KernelOK' /\ CallsOK' /\ k'.cnt = k.cnt /\ k'.queue = k.queue
           /\ \A x \in Threads : Runs(k', x) <=> Runs(k, x)
           /\ call'[t] = User /\ \A x \in Threads \ {t} : call'[x] = call[x]
<1>1. call' = [call EXCEPT ![t] = User] /\ k' = AwakeS(k)
  BY DEF Sleeps
<1>2. call \in [Threads -> {User, Delayed} \cup {Asks(x) : x \in Objects}]
  BY DEF LocksInv, CallsOK
<1>3. call'[t] = User /\ \A x \in Threads \ {t} : call'[x] = call[x]
  BY <1>1, <1>2
<1>4. /\ k' \in KernelStates(Notes, Objects) /\ Unmoved(k, k')
      /\ Queue(Pars(k'.vt), Threads)
      /\ \A x \in Threads : Armed(k', x) <=> (Armed(k, x) /\ x # t)
  <2> DEFINE r == AwakeS(k)
  <2>1. /\ r \in KernelStates(Notes, Objects) /\ Unmoved(k, r)
        /\ Queue(Pars(r.vt), Threads)
        /\ \A x \in Threads : Armed(r, x) <=> (Armed(k, x) /\ x # k.current)
    BY Awakes DEF LocksInv, KernelOK
  <2> HIDE DEF r
  <2>2. QED
    BY <1>1, <2>1 DEF r
<1>5. Placed(k') /\ \A x \in Threads : Runs(k', x) <=> Runs(k, x)
  BY <1>4, UnmovedPlaces DEF LocksInv, KernelOK
<1>6. k.state[t] = "CURRENT"
  BY WhoCalls
<1>7. CallsOK'
  <2>1. ASSUME NEW x \in Threads
        PROVE  /\ k'.state[x] \in Runnable \cup {"WTSEM", "SLEEPING"}
               /\ k'.state[x] = "WTSEM" => k'.u[x] \in Objects /\ call'[x] = Asks(k'.u[x])
               /\ k'.state[x] = "SLEEPING" => call'[x] = Delayed
               /\ Armed(k', x) => call'[x] = Delayed
    <3>1. /\ k.state[x] \in Runnable \cup {"WTSEM", "SLEEPING"}
          /\ k.state[x] = "WTSEM" => k.u[x] \in Objects /\ call[x] = Asks(k.u[x])
          /\ k.state[x] = "SLEEPING" => call[x] = Delayed
          /\ Armed(k, x) => call[x] = Delayed
          /\ k'.state = k.state /\ k'.u = k.u
      BY <1>4 DEF LocksInv, CallsOK, Unmoved
    <3>2. CASE x = t
      BY <1>4, <1>6, <3>1, <3>2
    <3>3. CASE x # t
      BY <1>3, <1>4, <3>1, <3>3
    <3>4. QED
      BY <3>2, <3>3
  <2>2. k'.state[Idle] \in Runnable
    BY <1>4 DEF LocksInv, CallsOK, Unmoved
  <2>3. call' \in [Threads -> {User, Delayed} \cup {Asks(x) : x \in Objects}]
    BY <1>1, <1>2
  <2>4. QED
    BY <2>1, <2>2, <2>3 DEF CallsOK
<1>8. QED
  BY <1>3, <1>4, <1>5, <1>7 DEF KernelOK, Unmoved

LEMMA LockBackKeeps == ASSUME LocksInv, NEW t \in Threads, LockBack(t) PROVE LocksInv'
<1> DEFINE o == call[t].of
<1>1. /\ t = k.current /\ call[t].op = "lock" /\ Sleeps(t, AwakeS(k), User) /\ Gets(t, o)
  BY DEF LockBack, IsBack
<1>2. o \in Objects
  BY <1>1, CallKinds DEF LocksInv, CallsOK
<1>3. Append(held[t], o) \in Nests(t)
  BY <1>1 DEF LocksInv, NestsOK
<1>4. Runs(k, t)
  BY <1>1, WhoCalls
<1> HIDE DEF o
<1>5. /\ KernelOK' /\ CallsOK' /\ k'.cnt = k.cnt /\ k'.queue = k.queue
      /\ \A x \in Threads : Runs(k', x) <=> Runs(k, x)
      /\ call'[t] = User /\ \A x \in Threads \ {t} : call'[x] = call[x]
  BY <1>1, Backs
<1>6. /\ held' \in [Threads -> Seq(Objects)]
      /\ held'[t] \in Nests(t) /\ \A x \in Threads \ {t} : held'[x] = held[x]
      /\ ToSet(held'[t]) = ToSet(held[t]) \cup {o}
  BY <1>1, <1>2, <1>3, HeldMore DEF LocksInv
<1>7. NestsOK'
  BY <1>5, <1>6, CallKinds DEF LocksInv, NestsOK
<1>8. ASSUME NEW x \in Threads, NEW y \in Objects PROVE Has(x, y)' <=> Has(x, y)
  <2>1. /\ Granted(x, y) <=> Runs(k, x) /\ call[x].op = "lock" /\ call[x].of = y
        /\ Granted(x, y)' <=> Runs(k', x) /\ call'[x].op = "lock" /\ call'[x].of = y
    BY DEF Granted, Runs, Runnable
  <2>2. CASE x = t
    <3>1. ~Granted(x, y)' /\ (Granted(x, y) <=> y = o)
      BY <1>1, <1>4, <1>5, <2>1, <2>2, CallKinds DEF o
    <3>2. QED
      BY <1>6, <2>2, <3>1 DEF Has
  <2>3. CASE x # t
    BY <1>5, <1>6, <2>1, <2>3 DEF Has
  <2>4. QED
    BY <2>2, <2>3
<1>9. CountsOK'
  BY <1>5, <1>8, CountsKept DEF LocksInv
<1>10. QED
  BY <1>5, <1>7, <1>9 DEF LocksInv

LEMMA DelayBackKeeps == ASSUME LocksInv, NEW t \in Threads, DelayBack(t) PROVE LocksInv'
<1>1. t = k.current /\ call[t].op = "delay" /\ Sleeps(t, AwakeS(k), User) /\ held' = held
  BY DEF DelayBack, IsBack
<1>2. /\ KernelOK' /\ CallsOK' /\ k'.cnt = k.cnt /\ k'.queue = k.queue
      /\ \A x \in Threads : Runs(k', x) <=> Runs(k, x)
      /\ call'[t] = User /\ \A x \in Threads \ {t} : call'[x] = call[x]
  BY <1>1, Backs
<1>3. NestsOK'
  BY <1>1, <1>2, CallKinds DEF LocksInv, NestsOK
<1>4. ASSUME NEW x \in Threads, NEW y \in Objects PROVE Has(x, y)' <=> Has(x, y)
  <2>1. /\ Granted(x, y) <=> Runs(k, x) /\ call[x].op = "lock" /\ call[x].of = y
        /\ Granted(x, y)' <=> Runs(k', x) /\ call'[x].op = "lock" /\ call'[x].of = y
    BY DEF Granted, Runs, Runnable
  <2>2. Granted(x, y)' <=> Granted(x, y)
    BY <1>1, <1>2, <2>1, CallKinds
  <2>3. QED
    BY <1>1, <2>2 DEF Has
<1>5. CountsOK'
  BY <1>2, <1>4, CountsKept DEF LocksInv
<1>6. QED
  BY <1>2, <1>3, <1>5 DEF LocksInv

LEMMA DelayKeeps ==
    ASSUME LocksInv, NEW t \in Threads, NEW time \in Delays, Delay(t, time) PROVE LocksInv'
<1>1. /\ t = k.current /\ t # Idle /\ call[t] = User /\ Runs(k, t) /\ ~Armed(k, t)
      /\ k.ready # <<>>
  BY WhoLocks DEF Delay
<1>2. /\ call' = [call EXCEPT ![t] = Delayed] /\ held' = held
      /\ k' = GoSleepTimeoutS(k, "SLEEPING", time)
  BY DEF Delay, Sleeps, Delayed
<1>3. time \in Nat
  BY LocksAssumption
<1>4. /\ KernelOK' /\ k'.queue = k.queue /\ k'.cnt = k.cnt
      /\ \A x \in Threads : ~Runs(k, x) => k'.state[x] = k.state[x] /\ k'.u[x] = k.u[x]
      /\ k'.state[t] = "SLEEPING"
      /\ \A x \in Threads : /\ Armed(k', x) <=> (Armed(k, x) \/ x = t)
                            /\ Runs(k', x) <=> (Runs(k, x) /\ x # t)
  <2> DEFINE r == GoSleepTimeoutS(k, "SLEEPING", time)
  <2>1. /\ r \in KernelStates(Notes, Objects) /\ Placed(r) /\ Queue(Pars(r.vt), Threads)
        /\ r.queue = k.queue /\ r.cnt = k.cnt /\ Sleepers(k, r, Threads)
        /\ r.state[k.current] = "SLEEPING"
        /\ \A x \in Threads : /\ Armed(r, x) <=> (Armed(k, x) \/ x = k.current)
                              /\ Runs(r, x) <=> (Runs(k, x) /\ x # k.current)
    BY <1>1, <1>3, DelaySleeps DEF LocksInv, KernelOK
  <2> HIDE DEF r
  <2>2. QED
    BY <1>1, <1>2, <2>1 DEF r, Sleepers, KernelOK
<1>5. call \in [Threads -> {User, Delayed} \cup {Asks(x) : x \in Objects}]
  BY DEF LocksInv, CallsOK
<1>6. call'[t] = Delayed /\ \A x \in Threads \ {t} : call'[x] = call[x]
  BY <1>2, <1>5
<1>7. CallsOK'
  <2>1. ASSUME NEW x \in Threads
        PROVE  /\ k'.state[x] \in Runnable \cup {"WTSEM", "SLEEPING"}
               /\ k'.state[x] = "WTSEM" => k'.u[x] \in Objects /\ call'[x] = Asks(k'.u[x])
               /\ k'.state[x] = "SLEEPING" => call'[x] = Delayed
               /\ Armed(k', x) => call'[x] = Delayed
    <3>1. /\ k.state[x] \in Runnable \cup {"WTSEM", "SLEEPING"}
          /\ k.state[x] = "WTSEM" => k.u[x] \in Objects /\ call[x] = Asks(k.u[x])
          /\ k.state[x] = "SLEEPING" => call[x] = Delayed
          /\ Armed(k, x) => call[x] = Delayed
      BY DEF LocksInv, CallsOK
    <3>2. CASE x = t
      BY <1>4, <1>6, <3>1, <3>2
    <3>3. CASE x # t /\ Runs(k', x)
      BY <1>4, <1>6, <3>1, <3>3 DEF Runs, Runnable
    <3>4. CASE x # t /\ ~Runs(k', x)
      BY <1>4, <1>6, <3>1, <3>4
    <3>5. QED
      BY <3>2, <3>3, <3>4
  <2>2. k'.state[Idle] \in Runnable
    BY <1>1, <1>4, SchdAssumption DEF LocksInv, CallsOK, Runs
  <2>3. call' \in [Threads -> {User, Delayed} \cup {Asks(x) : x \in Objects}]
    BY <1>2, <1>5
  <2>4. QED
    BY <2>1, <2>2, <2>3 DEF CallsOK
<1>8. NestsOK'
  BY <1>2, <1>6, CallKinds DEF LocksInv, NestsOK
<1>9. ASSUME NEW x \in Threads, NEW y \in Objects PROVE Has(x, y)' <=> Has(x, y)
  <2>1. /\ Granted(x, y) <=> Runs(k, x) /\ call[x].op = "lock" /\ call[x].of = y
        /\ Granted(x, y)' <=> Runs(k', x) /\ call'[x].op = "lock" /\ call'[x].of = y
    BY DEF Granted, Runs, Runnable
  <2>2. Granted(x, y)' <=> Granted(x, y)
    BY <1>1, <1>4, <1>6, <2>1, CallKinds
  <2>3. QED
    BY <1>2, <2>2 DEF Has
<1>10. CountsOK'
  BY <1>4, <1>9, CountsKept DEF LocksInv
<1>11. QED
  BY <1>4, <1>7, <1>8, <1>10 DEF LocksInv

LEMMA UnlockKeeps ==
    ASSUME LocksInv, NEW t \in Threads, NEW o \in Objects, Unlock(t, o)
    PROVE  LocksInv' /\ k'.vt = k.vt /\ k'.due = k.due /\ (Ordered(k) => Ordered(k'))
<1> DEFINE w == Head(k.queue[o])
<1>1. /\ t = k.current /\ t # Idle /\ call[t] = User /\ Runs(k, t) /\ ~Armed(k, t)
      /\ \A x \in Objects : ~Granted(t, x)
  BY WhoLocks DEF Unlock, MayUnlock
<1>2. /\ call' = call /\ k' = SemSignal(k, o) /\ held' = [held EXCEPT ![t] = Front(@)]
      /\ held[t] # <<>> /\ Last(held[t]) = o
  BY DEF Unlock, MayUnlock, Returns
<1>3. /\ k.cnt \in [Objects -> Int] /\ k.queue \in [Objects -> Seq(Threads)]
      /\ held \in [Threads -> Seq(Objects)]
  BY DEF LocksInv, KernelOK, KernelStates, NestsOK
<1>4. /\ held[t] \in Nests(t) /\ Front(held[t]) \in Nests(t) \cup {<<>>}
      /\ ToSet(Front(held[t])) = ToSet(held[t]) \ {o} /\ o \in ToSet(held[t])
  <2>1. held[t] \in Nests(t)
    BY <1>2 DEF LocksInv, NestsOK
  <2>2. Nested(held[t], Nests(t))
    BY <2>1, NestsAre
  <2>3. QED
    BY <1>2, <2>1, <2>2 DEF Nested
<1>5. Front(held[t]) \in Seq(Objects)
  <2>1. \A q \in Nests(t) : q \in Seq(Objects)
    BY NestsAre DEF Nested
  <2>2. <<>> \in Seq(Objects)
    OBVIOUS
  <2>3. QED
    BY <1>4, <2>1, <2>2
<1>6. /\ held' \in [Threads -> Seq(Objects)] /\ held'[t] = Front(held[t])
      /\ \A x \in Threads \ {t} : held'[x] = held[x]
  BY <1>2, <1>3, <1>5
<1>7. NestsOK'
  BY <1>1, <1>2, <1>4, <1>6, CallKinds DEF LocksInv, NestsOK
<1>8. /\ k.cnt[o] \in Int /\ k.cnt[o] <= 0
      /\ Len(k.queue[o]) = (IF k.cnt[o] < 0 THEN -k.cnt[o] ELSE 0)
      /\ k.cnt[o] < 0 => k.queue[o] # <<>>
  <2>1. k.cnt[o] \in Int /\ Len(k.queue[o]) = (IF k.cnt[o] < 0 THEN -k.cnt[o] ELSE 0)
        /\ (k.cnt[o] > 0 <=> \A x \in Threads : ~Has(x, o))
    BY <1>3 DEF LocksInv, CountsOK
  <2>2. Has(t, o)
    BY <1>4 DEF Has
  <2>3. k.cnt[o] < 0 => Len(k.queue[o]) > 0
    BY <2>1
  <2>4. k.cnt[o] < 0 => k.queue[o] # <<>>
    BY <1>3, <2>3, EmptySeq
  <2>5. QED
    BY <2>1, <2>2, <2>4
<1>9. /\ k' \in KernelStates(Notes, Objects) /\ Placed(k') /\ k'.vt = k.vt /\ k'.due = k.due
      /\ Ordered(k) => Ordered(k')
      /\ k'.cnt = [k.cnt EXCEPT ![o] = @ + 1]
      /\ k.cnt[o] >= 0 => /\ k'.queue = k.queue /\ Sleepers(k, k', Threads)
                          /\ \A x \in Threads : Runs(k', x) <=> Runs(k, x)
      /\ k.cnt[o] < 0 => /\ w \in Threads /\ k.state[w] \in WaitStates /\ k.u[w] = o
                         /\ k'.queue = [k.queue EXCEPT ![o] = Tail(@)]
                         /\ Len(k'.queue[o]) = Len(k.queue[o]) - 1
                         /\ Sleepers(k, k', Threads \ {w})
                         /\ \A x \in Threads : Runs(k', x) <=> (Runs(k, x) \/ x = w)
  <2> DEFINE r == SemSignal(k, o)
  <2>1. "OK" \in Notes
    BY DEF Notes
  <2>2. /\ r \in KernelStates(Notes, Objects) /\ Placed(r) /\ r.vt = k.vt /\ r.due = k.due
        /\ Ordered(k) => Ordered(r)
        /\ r.cnt = [k.cnt EXCEPT ![o] = @ + 1]
        /\ k.cnt[o] >= 0 => /\ r.queue = k.queue /\ Sleepers(k, r, Threads)
                            /\ \A x \in Threads : Runs(r, x) <=> Runs(k, x)
        /\ k.cnt[o] < 0 => /\ w \in Threads /\ k.state[w] \in WaitStates /\ k.u[w] = o
                           /\ r.queue = [k.queue EXCEPT ![o] = Tail(@)]
                           /\ Len(r.queue[o]) = Len(k.queue[o]) - 1
                           /\ Sleepers(k, r, Threads \ {w})
                           /\ \A x \in Threads : Runs(r, x) <=> (Runs(k, x) \/ x = w)
    BY <1>8, <2>1, SemSignals DEF LocksInv, KernelOK
  <2> HIDE DEF r, w
  <2>3. QED
    BY <1>2, <2>2 DEF r
<1> HIDE DEF w
\* The one that is handed the lock, if any, was locking it.
<1>10. k.cnt[o] < 0 => /\ w \in Threads /\ call[w] = Asks(o) /\ ~Runs(k, w) /\ w # t
                       /\ ~Armed(k, w)
  <2> SUFFICES ASSUME k.cnt[o] < 0
      PROVE w \in Threads /\ call[w] = Asks(o) /\ ~Runs(k, w) /\ w # t /\ ~Armed(k, w)
    OBVIOUS
  <2>1. /\ w \in Threads /\ k.state[w] \in WaitStates /\ k.u[w] = o
        /\ k.state[w] \in Runnable \cup {"WTSEM", "SLEEPING"}
        /\ k.state[w] = "WTSEM" => call[w] = Asks(k.u[w])
        /\ Armed(k, w) => call[w] = Delayed
    BY <1>9 DEF LocksInv, CallsOK
  <2>2. k.state[w] = "WTSEM" /\ ~Runs(k, w)
    BY <2>1 DEF Runs, Runnable, WaitStates
  <2>3. QED
    BY <1>1, <2>1, <2>2, CallKinds
<1>11. ASSUME NEW x \in Threads
       PROVE  /\ Runs(k', x) <=> (Runs(k, x) \/ (k.cnt[o] < 0 /\ x = w))
              /\ ~Runs(k', x) => k'.state[x] = k.state[x] /\ k'.u[x] = k.u[x]
  BY <1>8, <1>9, <1>10 DEF Sleepers
<1>12. CallsOK'
  <2>1. ASSUME NEW x \in Threads
        PROVE  /\ k'.state[x] \in Runnable \cup {"WTSEM", "SLEEPING"}
               /\ k'.state[x] = "WTSEM" => k'.u[x] \in Objects /\ call[x] = Asks(k'.u[x])
               /\ k'.state[x] = "SLEEPING" => call[x] = Delayed
               /\ Armed(k', x) => call[x] = Delayed
    <3>1. /\ k.state[x] \in Runnable \cup {"WTSEM", "SLEEPING"}
          /\ k.state[x] = "WTSEM" => k.u[x] \in Objects /\ call[x] = Asks(k.u[x])
          /\ k.state[x] = "SLEEPING" => call[x] = Delayed
          /\ Armed(k, x) => call[x] = Delayed
          /\ Armed(k', x) <=> Armed(k, x)
      BY <1>9 DEF LocksInv, CallsOK, Armed
    <3>2. CASE Runs(k', x)
      BY <3>1, <3>2 DEF Runs, Runnable
    <3>3. CASE ~Runs(k', x)
      BY <1>11, <3>1, <3>3
    <3>4. QED
      BY <3>2, <3>3
  <2>2. k'.state[Idle] \in Runnable
    BY <1>11, SchdAssumption DEF LocksInv, CallsOK, Runs
  <2>3. QED
    BY <1>2, <2>1, <2>2 DEF LocksInv, CallsOK
<1>13. ASSUME NEW x \in Threads, NEW y \in Objects
       PROVE  Has(x, y)' <=> \/ Has(x, y) /\ ~(x = t /\ y = o)
                             \/ k.cnt[o] < 0 /\ x = w /\ y = o
  <2>1. /\ Granted(x, y) <=> Runs(k, x) /\ call[x].op = "lock" /\ call[x].of = y
        /\ Granted(x, y)' <=> Runs(k', x) /\ call[x].op = "lock" /\ call[x].of = y
    BY <1>2 DEF Granted, Runs, Runnable
  <2>2. Granted(x, y)' <=> Granted(x, y) \/ (k.cnt[o] < 0 /\ x = w /\ y = o)
    <3>1. k.cnt[o] < 0 /\ x = w => call[x].op = "lock" /\ call[x].of = o
      BY <1>10, CallKinds
    <3>2. QED
      BY <1>11, <2>1, <3>1
  <2>3. CASE x = t
    BY <1>1, <1>4, <1>6, <1>10, <2>2, <2>3 DEF Has
  <2>4. CASE x # t
    BY <1>6, <2>2, <2>4 DEF Has
  <2>5. QED
    BY <2>3, <2>4
<1>14. CountsOK'
  <2>1. ASSUME NEW y \in Objects
        PROVE  /\ k'.cnt[y] <= 1
               /\ Len(k'.queue[y]) = (IF k'.cnt[y] < 0 THEN -k'.cnt[y] ELSE 0)
               /\ k'.cnt[y] > 0 <=> \A x \in Threads : ~Has(x, y)'
               /\ \A t1, t2 \in Threads : Has(t1, y)' /\ Has(t2, y)' => t1 = t2
    <3>1. /\ k.cnt[y] <= 1 /\ k.cnt[y] \in Int
          /\ Len(k.queue[y]) = (IF k.cnt[y] < 0 THEN -k.cnt[y] ELSE 0)
          /\ k.cnt[y] > 0 <=> \A x \in Threads : ~Has(x, y)
          /\ \A t1, t2 \in Threads : Has(t1, y) /\ Has(t2, y) => t1 = t2
      BY <1>3 DEF LocksInv, CountsOK
    <3>2. CASE y = o
      <4>1. \A x \in Threads : Has(x, o) <=> x = t
        BY <1>4, <3>1, <3>2 DEF Has
      <4>2. \A x \in Threads : Has(x, o)' <=> (k.cnt[o] < 0 /\ x = w)
        BY <1>13, <4>1
      <4>3. k'.cnt[o] = k.cnt[o] + 1
        BY <1>3, <1>9
      <4>4. CASE k.cnt[o] < 0
        BY <1>8, <1>9, <1>10, <3>2, <4>2, <4>3, <4>4
      <4>5. CASE ~(k.cnt[o] < 0)
        <5>1. k.cnt[o] = 0 /\ k'.cnt[o] = 1 /\ k'.queue = k.queue
          BY <1>8, <1>9, <4>3, <4>5
        <5>2. QED
          BY <1>8, <3>2, <4>2, <4>5, <5>1
      <4>6. QED
        BY <4>4, <4>5
    <3>3. CASE y # o
      <4>1. \A x \in Threads : Has(x, y)' <=> Has(x, y)
        BY <1>13, <3>3
      <4>2. k'.cnt[y] = k.cnt[y] /\ k'.queue[y] = k.queue[y]
        BY <1>3, <1>8, <1>9, <3>3
      <4>3. QED
        BY <3>1, <4>1, <4>2
    <3>4. QED
      BY <3>2, <3>3
  <2>2. QED
    BY <2>1 DEF CountsOK
<1>15. Queue(Pars(k'.vt), Threads)
  BY <1>9 DEF LocksInv, KernelOK
<1>16. QED
  BY <1>7, <1>9, <1>12, <1>14, <1>15 DEF LocksInv, KernelOK

-----------------------------------------------------------------------------

LEMMA LocksInit == Init => LocksInv
<1> SUFFICES ASSUME Init PROVE LocksInv
  OBVIOUS
<1> DEFINE prio == [t \in Threads |-> IF t = Idle THEN 1 ELSE 64]
           ready == <<Ide, Prog, Sensor, Idle>>
           cnt == [o \in Objects |-> 1]
           state == [t \in Threads |-> IF t = Lame THEN "CURRENT"
                                       ELSE IF t \in ToSet(ready) THEN "READY" ELSE None]
<1>1. /\ k = InitialState(prio, ready, Lame, cnt)
      /\ call = [t \in Threads |-> User] /\ held = [t \in Threads |-> <<>>]
  BY DEF Init
<1>2. /\ ready \in Seq(Threads) /\ Len(ready) = 4 /\ ready[1] = Ide /\ ready[2] = Prog
      /\ ready[3] = Sensor /\ ready[4] = Idle
  BY FiveThreads
<1>3. prio \in [Threads -> Nat \ {0}] /\ cnt \in [Objects -> Int]
  OBVIOUS
<1> HIDE DEF ready, prio, cnt
<1>4. DOMAIN ready = 1..4 /\ \A x : x \in ToSet(ready) <=> \E i \in 1..4 : ready[i] = x
  BY <1>2, QueueSet
<1>5. ToSet(ready) = {Ide, Prog, Sensor, Idle}
  BY <1>2, <1>4
<1>6. Queue(ready, Threads)
  <2>1. \A i, j \in 1..4 : ready[i] = ready[j] => i = j
    BY <1>2, FiveThreads
  <2>2. QED
    BY <1>2, <1>4, <2>1 DEF Queue, IsInjective
<1>7. /\ state \in [Threads -> States] /\ state[Lame] = "CURRENT"
      /\ \A t \in Threads \ {Lame} : state[t] = "READY"
  BY <1>5, FiveThreads DEF States, WaitStates
<1>8. /\ k.current = Lame /\ k.ready = ready /\ k.state = state /\ k.prio = prio
      /\ k.preempt = [t \in Threads |-> Quantum] /\ k.u = [t \in Threads |-> "OK"]
      /\ k.queue = [o \in Objects |-> <<>>] /\ k.cnt = cnt /\ k.vt = <<>>
      /\ k.due = [t \in Threads |-> 0]
      /\ k = [current |-> Lame, ready |-> ready, state |-> state, prio |-> prio,
              preempt |-> [t \in Threads |-> Quantum], u |-> [t \in Threads |-> "OK"],
              queue |-> [o \in Objects |-> <<>>], cnt |-> cnt, vt |-> <<>>,
              due |-> [t \in Threads |-> 0]]
  BY <1>1 DEF InitialState
<1> HIDE DEF state
<1>9. k \in KernelStates(Notes, Objects)
  <2>1. /\ [t \in Threads |-> Quantum] \in [Threads -> Nat]
        /\ [t \in Threads |-> "OK"] \in [Threads -> Notes]
        /\ [t \in Threads |-> 0] \in [Threads -> Int]
    BY SchdAssumption DEF Notes
  <2>2. [o \in Objects |-> <<>>] \in [Objects -> Seq(Threads)]
    OBVIOUS
  <2>3. <<>> \in Seq([par : Threads, time : Int])
    OBVIOUS
  <2>4. Lame \in Threads
    BY FiveThreads
  <2>5. QED
    BY <1>2, <1>3, <1>7, <1>8, <2>1, <2>2, <2>3, <2>4 DEF KernelStates
<1>10. Queue(<<>>, Threads) /\ ToSet(<<>>) = {} /\ Len(<<>>) = 0
  <2>1. <<>> \in Seq(Threads) /\ DOMAIN <<>> = {} /\ Len(<<>>) = 0
    OBVIOUS
  <2>2. IsInjective(<<>>)
    BY <2>1 DEF IsInjective
  <2>3. QED
    BY <2>1, <2>2, QueueSet DEF Queue
<1>11. Placed(k)
  <2>1. QueuesSound(k)
    BY <1>6, <1>8, <1>10 DEF QueuesSound
  <2>2. ASSUME NEW t \in Threads PROVE ThreadPlaced(k, t)
    <3>1. k.state[t] = IF t = Lame THEN "CURRENT" ELSE "READY"
      BY <1>7, <1>8
    <3>2. t \in ToSet(k.ready) <=> t # Lame
      BY <1>5, <1>8, FiveThreads
    <3>3. QED
      BY <1>8, <1>10, <3>1, <3>2 DEF ThreadPlaced, WaitStates
  <2>3. QED
    BY <2>1, <2>2 DEF Placed
<1>12. Queue(Pars(k.vt), Threads) /\ \A t \in Threads : ~Armed(k, t)
  <2>1. k.vt = <<>> /\ DOMAIN <<>> = {}
    BY <1>8
  <2>2. Pars(<<>>) \in Seq(Threads) /\ Len(Pars(<<>>)) = 0
    <3>1. <<>> \in Seq(Timers)
      OBVIOUS
    <3>2. QED
      BY <1>10, <3>1, ParsOfTimers
  <2>3. Pars(<<>>) = <<>>
    BY <2>2, EmptySeq
  <2>4. QED
    BY <1>10, <2>1, <2>3 DEF Armed
<1>13. CallsOK
  <2>1. \A t \in Threads : call[t] = User /\ k.state[t] \in Runnable
                           /\ k.state[t] # "WTSEM" /\ k.state[t] # "SLEEPING"
    BY <1>1, <1>7, <1>8 DEF Runnable
  <2>2. call \in [Threads -> {User, Delayed} \cup {Asks(o) : o \in Objects}]
    BY <1>1
  <2>3. QED
    BY <1>12, <2>1, <2>2, SchdAssumption DEF CallsOK
<1>14. NestsOK
  BY <1>1, CallKinds DEF NestsOK
<1>15. CountsOK
  <2>1. \A t \in Threads, o \in Objects : ~Has(t, o)
    BY <1>1, <1>10, CallKinds DEF Has, Granted
  <2>2. \A o \in Objects : k.cnt[o] = 1 /\ k.queue[o] = <<>>
    BY <1>8 DEF cnt
  <2>3. QED
    BY <1>10, <2>1, <2>2 DEF CountsOK
<1>16. QED
  BY <1>9, <1>11, <1>12, <1>13, <1>14, <1>15 DEF LocksInv, KernelOK

LEMMA LocksStep == LocksInv /\ [Next]_vars => LocksInv'
<1> SUFFICES ASSUME LocksInv, [Next]_vars PROVE LocksInv'
  OBVIOUS
<1>1. CASE UNCHANGED vars
  BY <1>1 DEF LocksInv, KernelOK, CallsOK, NestsOK, CountsOK, Has, Granted, vars
<1>2. CASE TickStep
  BY <1>2, TickKeeps
<1>3. ASSUME NEW t \in Threads, NEW o \in Objects, Lock(t, o) PROVE LocksInv'
  BY <1>3, LockTakes, LockWaits DEF Lock, Asks
<1>4. ASSUME NEW t \in Threads, NEW o \in Objects, Unlock(t, o) PROVE LocksInv'
  BY <1>4, UnlockKeeps
<1>5. ASSUME NEW t \in Threads, LockBack(t) PROVE LocksInv'
  BY <1>5, LockBackKeeps
<1>6. ASSUME NEW t \in Threads, NEW time \in Delays, Delay(t, time) PROVE LocksInv'
  BY <1>6, DelayKeeps
<1>7. ASSUME NEW t \in Threads, DelayBack(t) PROVE LocksInv'
  BY <1>7, DelayBackKeeps
<1>8. QED
  BY <1>1, <1>2, <1>3, <1>4, <1>5, <1>6, <1>7 DEF Next

\* The counters, the queues, the calls and the locks held agree in every
\* state the sketch and its kernel reach.
THEOREM LocksInvariant == Spec => []LocksInv
  BY LocksInit, LocksStep, PTL DEF Spec

LEMMA OneHolderHolds == LocksInv => OneHolder
<1> SUFFICES ASSUME LocksInv, NEW o \in Objects
    PROVE Cardinality({t \in Threads : o \in ToSet(held[t]) \/ Granted(t, o)})
            = (IF k.cnt[o] > 0 THEN 0 ELSE 1)
  BY DEF OneHolder
<1> DEFINE T == {t \in Threads : o \in ToSet(held[t]) \/ Granted(t, o)}
<1>1. /\ k.cnt[o] > 0 <=> \A t \in Threads : ~Has(t, o)
      /\ \A t1, t2 \in Threads : Has(t1, o) /\ Has(t2, o) => t1 = t2
  BY DEF LocksInv, CountsOK
<1>2. CASE k.cnt[o] > 0
  <2>1. T = {}
    BY <1>1, <1>2 DEF Has
  <2> HIDE DEF T
  <2>2. Cardinality(T) = 0
    BY <2>1, FS_EmptySet
  <2>3. QED
    BY <1>2, <2>2 DEF T
<1>3. CASE ~(k.cnt[o] > 0)
  <2>1. PICK t \in Threads : Has(t, o)
    BY <1>1, <1>3
  <2>2. T = {t}
    BY <1>1, <2>1 DEF Has
  <2> HIDE DEF T
  <2>3. Cardinality(T) = 1
    BY <2>2, FS_Singleton
  <2>4. QED
    BY <1>3, <2>3 DEF T
<1>4. QED
  BY <1>2, <1>3

\* A lock has one holder at most, and one that is not free has exactly one:
\* the thread that took it, or the one chSemSignal() has handed it to, for
\* any delays, quantum and order of the timers and of the lock operations.
THEOREM LocksAreExclusive == Spec => []OneHolder
  BY LocksInvariant, OneHolderHolds, PTL

-----------------------------------------------------------------------------
(* The scheduler and the timers under the locks: who runs, and when those   *)
(* that delay are due.                                                      *)

OrderInv == Ordered(k) /\ OnTime(k)

LEMMA SameOrder ==
    ASSUME NEW s, NEW r, Ordered(s), OnTime(s), r.ready = s.ready, r.prio = s.prio,
           r.current = s.current, r.vt = s.vt, r.due = s.due
    PROVE  Ordered(r) /\ OnTime(r)
  BY DEF Ordered, Sorted, TopRuns, OnTime, Due

LEMMA SameTimers ==
    ASSUME NEW s, NEW r, OnTime(s), r.vt = s.vt, r.due = s.due
    PROVE  OnTime(r)
  BY DEF OnTime, Due

LEMMA TickOrders == ASSUME LocksInv, OrderInv, TickStep PROVE OrderInv'
<1> DEFINE r == Epilogue(SysTimerHandlerI(k))
<1>1. k' = r /\ InUser
  BY DEF TickStep, Tick
<1>2. "TIMEOUT" \in Notes
  BY DEF Notes
<1>3. ASSUME NEW t \in Threads, Armed(k, t) PROVE t # k.current /\ k.state[t] \notin WaitStates
  <2>1. call[t] = Delayed /\ (k.state[t] = "WTSEM" => k.u[t] \in Objects /\ call[t] = Asks(k.u[t]))
        /\ k.state[t] \in Runnable \cup {"WTSEM", "SLEEPING"}
    BY <1>3 DEF LocksInv, CallsOK
  <2>2. k.state[t] # "WTSEM"
    BY <2>1, CallKinds
  <2>3. k.state[t] \notin WaitStates
    BY <2>1, <2>2 DEF WaitStates, Runnable
  <2>4. QED
    BY <1>1, <1>3, <2>3, WhoCalls
<1>4. (Sorted(k) => Ordered(r)) /\ (OnTime(k) => OnTime(r))
  BY <1>2, <1>3, TickPlaces DEF LocksInv, KernelOK
<1> HIDE DEF r
<1>5. QED
  BY <1>1, <1>4 DEF OrderInv, Ordered

LEMMA LockOrders ==
    ASSUME LocksInv, OrderInv, NEW t \in Threads, NEW o \in Objects, Lock(t, o) PROVE OrderInv'
<1>1. /\ Calls(t)
      /\ \/ k' = SemTake(k, o)
         \/ k' = SemSleep(k, o, Infinite)
  BY DEF Lock, Returns, Sleeps
<1>2. CASE k' = SemTake(k, o)
  <2> DEFINE r == [k EXCEPT !.cnt[o] = k.cnt[o] - 1]
  <2>1. k' = r
    BY <1>2 DEF SemTake
  <2>2. k.cnt[o] - 1 \in Int
    BY DEF LocksInv, KernelOK, KernelStates
  <2>3. /\ r.ready = k.ready /\ r.prio = k.prio /\ r.current = k.current /\ r.vt = k.vt
        /\ r.due = k.due
    BY <2>2, CountSet DEF LocksInv, KernelOK
  <2> HIDE DEF r
  <2>4. QED
    BY <2>1, <2>3, SameOrder DEF OrderInv
<1>3. CASE k' = SemSleep(k, o, Infinite)
  <2> DEFINE r == SemSleep(k, o, Infinite)
  <2>1. o \in Notes /\ k.ready # <<>>
    BY <1>1, WhoLocks DEF Notes
  <2>2. r.vt = k.vt /\ r.due = k.due /\ (Sorted(k) => Ordered(r))
    BY <2>1, SemSleeps DEF LocksInv, KernelOK
  <2> HIDE DEF r
  <2>3. QED
    BY <1>3, <2>2, SameTimers DEF OrderInv, Ordered, r
<1>4. QED
  BY <1>1, <1>2, <1>3

LEMMA UnlockOrders ==
    ASSUME LocksInv, OrderInv, NEW t \in Threads, NEW o \in Objects, Unlock(t, o) PROVE OrderInv'
<1>1. k'.vt = k.vt /\ k'.due = k.due /\ Ordered(k')
  BY UnlockKeeps DEF OrderInv
<1>2. QED
  BY <1>1, SameTimers DEF OrderInv

LEMMA BackOrders == ASSUME LocksInv, OrderInv, k' = AwakeS(k) PROVE OrderInv'
<1> DEFINE r == AwakeS(k)
<1>1. Unmoved(k, r) /\ OnTime(r)
  BY Awakes DEF LocksInv, KernelOK, OrderInv
<1> HIDE DEF r
<1>2. Ordered(r)
  BY <1>1 DEF Unmoved, OrderInv, Ordered, Sorted, TopRuns
<1>3. QED
  BY <1>1, <1>2 DEF OrderInv, r

LEMMA DelayOrders ==
    ASSUME LocksInv, OrderInv, NEW t \in Threads, NEW time \in Delays, Delay(t, time)
    PROVE  OrderInv'
<1> DEFINE r == GoSleepTimeoutS(k, "SLEEPING", time)
<1>1. k' = r /\ Calls(t)
  BY DEF Delay, Sleeps
<1>2. time \in Nat /\ time > 0
  BY LocksAssumption
<1>3. k.ready # <<>> /\ ~Armed(k, k.current)
  BY <1>1, WhoLocks
<1>4. (Sorted(k) => Ordered(r)) /\ (OnTime(k) /\ time > 0 => OnTime(r))
  BY <1>2, <1>3, DelaySleeps DEF LocksInv, KernelOK
<1> HIDE DEF r
<1>5. QED
  BY <1>1, <1>2, <1>4 DEF OrderInv, Ordered

LEMMA OrderInit == Init => OrderInv
<1> SUFFICES ASSUME Init PROVE OrderInv
  OBVIOUS
<1> DEFINE prio == [t \in Threads |-> IF t = Idle THEN 1 ELSE 64]
           ready == <<Ide, Prog, Sensor, Idle>>
<1>1. k.ready = ready /\ k.current = Lame /\ k.prio = prio /\ k.vt = <<>>
  BY DEF Init, InitialState
<1>2. /\ ready \in Seq(Threads) /\ Len(ready) = 4 /\ ready[4] = Idle
      /\ \A i \in 1..3 : prio[ready[i]] = 64
      /\ prio[Idle] = 1 /\ prio[Lame] = 64
  BY FiveThreads
<1>3. \A t \in Threads : prio[t] \in Int /\ prio[t] <= 64 /\ prio[t] >= 1
  OBVIOUS
<1> HIDE DEF ready, prio
<1>4. Falling(ready, prio)
  <2>1. ASSUME NEW i \in 1..4, NEW j \in 1..4, i < j PROVE prio[ready[i]] >= prio[ready[j]]
    <3>1. i \in 1..3
      BY <2>1
    <3>2. ready[j] \in Threads
      BY <1>2, ElementOfSeq
    <3>3. QED
      BY <1>2, <1>3, <3>1, <3>2
  <2>2. QED
    BY <1>2, <2>1 DEF Falling
<1>5. \A x \in ToSet(ready) : prio[x] <= prio[Lame]
  BY <1>2, <1>3, QueueSet
<1>6. Len(<<>>) = 0
  OBVIOUS
<1>7. OnTime(k)
  <2>1. Len(k.vt) = 0 /\ 1..0 = {}
    BY <1>1, <1>6
  <2>2. QED
    BY <2>1 DEF OnTime
<1>8. QED
  BY <1>1, <1>4, <1>5, <1>7 DEF OrderInv, Ordered, Sorted, TopRuns

LEMMA OrderStep == LocksInv /\ OrderInv /\ [Next]_vars => OrderInv'
<1> SUFFICES ASSUME LocksInv, OrderInv, [Next]_vars PROVE OrderInv'
  OBVIOUS
<1>1. CASE UNCHANGED vars
  BY <1>1 DEF OrderInv, vars
<1>2. CASE TickStep
  BY <1>2, TickOrders
<1>3. ASSUME NEW t \in Threads, NEW o \in Objects, Lock(t, o) PROVE OrderInv'
  BY <1>3, LockOrders
<1>4. ASSUME NEW t \in Threads, NEW o \in Objects, Unlock(t, o) PROVE OrderInv'
  BY <1>4, UnlockOrders
<1>5. ASSUME NEW t \in Threads, LockBack(t) PROVE OrderInv'
  BY <1>5, BackOrders DEF LockBack, Sleeps
<1>6. ASSUME NEW t \in Threads, NEW time \in Delays, Delay(t, time) PROVE OrderInv'
  BY <1>6, DelayOrders
<1>7. ASSUME NEW t \in Threads, DelayBack(t) PROVE OrderInv'
  BY <1>7, BackOrders DEF DelayBack, Sleeps
<1>8. QED
  BY <1>1, <1>2, <1>3, <1>4, <1>5, <1>6, <1>7 DEF Next

LEMMA OrderInvariant == Spec => [](LocksInv /\ OrderInv)
  BY LocksInit, LocksStep, OrderInit, OrderStep, PTL DEF Spec

\* In every state of the sketch the thread that runs its own code is as
\* urgent as any that could run, however many threads a tick, a signal or
\* the end of a delay has made ready, and whatever quantum they have.
THEOREM TheMostUrgentRuns == Spec => []HighestRuns
<1>1. LocksInv /\ OrderInv => HighestRuns
  <2> SUFFICES ASSUME LocksInv, OrderInv, NEW i \in DOMAIN k.ready
               PROVE  k.prio[k.ready[i]] <= k.prio[k.current]
    BY DEF HighestRuns
  <2>1. k.ready \in Seq(Threads)
    BY DEF LocksInv, KernelOK, KernelStates
  <2>2. k.ready[i] \in ToSet(k.ready)
    BY <2>1, QueueSet
  <2>3. QED
    BY <2>2 DEF OrderInv, Ordered, TopRuns
<1>2. QED
  BY <1>1, OrderInvariant, PTL

\* The deltas of the timer list add up to the ticks really left to each
\* delaying thread, whichever timers came before or behind it, fired or were
\* taken back: no ASIF_DELAY() is cut short by another thread's.
THEOREM DelaysAreOnTime == Spec => []TimersOnTime
<1>1. LocksInv /\ OrderInv => TimersOnTime
  <2> SUFFICES ASSUME LocksInv, OrderInv PROVE TimersOnTime
    OBVIOUS
  <2>1. k.vt \in Seq(Timers) /\ TimerState(k) /\ OnTime(k)
    BY DEF LocksInv, KernelOK, KernelStates, Timers, TimerState, OrderInv
  <2>2. /\ DOMAIN k.vt = 1..Len(k.vt) /\ Len(k.vt) \in Nat
        /\ k.vt # <<>> => Len(k.vt) > 0
    BY <2>1, QueueSet
  <2>3. ASSUME NEW i \in 1..Len(k.vt)
        PROVE  k.vt[i].time >= 0 /\ k.due[k.vt[i].par] = TicksBefore(k.vt, i + 1)
    <3>1. i \in 0..Len(k.vt) /\ Due(k, i) = k.due[k.vt[i].par]
      BY <2>1, <2>2, TimerFacts
    <3>2. Due(k, i) = TicksBefore(k.vt, i + 1)
      BY <2>1, <3>1, OnTimeAddsUp
    <3>3. QED
      BY <2>1, <3>1, <3>2 DEF OnTime
  <2>4. IsInjective([i \in DOMAIN k.vt |-> k.vt[i].par])
    BY DEF LocksInv, KernelOK, Queue, Pars
  <2>5. QED
    BY <2>1, <2>2, <2>3, <2>4 DEF TimersOnTime, OnTime
<1>2. QED
  BY <1>1, OrderInvariant, PTL

\* Each thread is in the queue its state says, once, and in no other one,
\* and holds locks only.
THEOREM TypeCorrect == Spec => []TypeOK
<1>1. LocksInv => TypeOK
  <2> SUFFICES ASSUME LocksInv PROVE TypeOK
    OBVIOUS
  <2>1. k.state \in [Threads -> States] /\ held \in [Threads -> Seq(Objects)]
    BY DEF LocksInv, KernelOK, KernelStates, NestsOK
  <2>2. QED
    BY <2>1 DEF TypeOK, PlacesOK, LocksInv, KernelOK, Placed, QueuesSound, ThreadPlaced, Queue
<1>2. QED
  BY <1>1, LocksInvariant, PTL
=============================================================================
