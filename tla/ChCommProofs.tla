---------------------------- MODULE ChCommProofs ----------------------------
(* What threads and interrupt handlers exchange through semaphores,        *)
(* mailboxes, I/O queues and events, on any number of threads.             *)
EXTENDS ChComm, KernelProofs, FiniteSetTheorems

\* The calls of a behaviour are those of its kind of object.
SemCall == [op |-> "sem"]
QueueCall == [op |-> "queue"]
EventCalls == [op : {"event"}, way : {"one", "any", "all"}, mask : SUBSET Events]
CallsOf(kd) ==
    IF kd \in {"semaphore", "binary"} THEN {User, SemCall}
    ELSE IF kd = "mailbox" THEN {User} \cup BoxOps
    ELSE IF kd \in Queues THEN {User, QueueCall}
    ELSE {User} \cup EventCalls

\* A thread that waits on an I/O queue is in the middle of a transfer.
Jobs == [of : Queues, left : Nat \ {0}, time : Times]
CallInv ==
    /\ kind \in Kinds
    /\ call \in [Threads -> CallsOf(kind)]
    /\ job \in [Threads -> {NoJob} \cup Jobs]
    /\ \A t \in Threads : /\ job[t] # NoJob => job[t].of = kind
                          /\ call[t].op = "queue" => job[t] # NoJob

LEMMA JobIsNone == \A j \in Jobs : j # NoJob
  BY DEF Jobs, NoJob

LEMMA CallNames ==
    /\ User.op = "user" /\ SemCall.op = "sem" /\ QueueCall.op = "queue"
    /\ \A c \in BoxOps : c.op \in {"post", "ahead", "fetch"}
    /\ \A c \in EventCalls : c.op = "event" /\ c.way \in {"one", "any", "all"} /\ c.mask \subseteq Events
    /\ User \notin BoxOps \cup EventCalls \cup {SemCall, QueueCall}
  BY DEF User, SemCall, QueueCall, BoxOps, EventCalls

LEMMA KindsOfCalls ==
    ASSUME NEW kd \in Kinds
    PROVE  /\ User \in CallsOf(kd)
           /\ kd \in {"semaphore", "binary"} => CallsOf(kd) = {User, SemCall}
           /\ kd = "mailbox" => CallsOf(kd) = {User} \cup BoxOps
           /\ kd \in Queues => CallsOf(kd) = {User, QueueCall}
           /\ kd \in {"event", "source"} => CallsOf(kd) = {User} \cup EventCalls
           /\ kd \notin Queues => \A c \in CallsOf(kd) : c.op # "queue"
<1>1. kd \in Others \cup Queues /\ Others \cap Queues = {}
  BY CommAssumption
<1>2. QED
  BY <1>1, CallNames DEF CallsOf, Others

\* What a step does to the calls: nothing, or thread t's is another.
LEMMA CallChanges ==
    ASSUME CallInv, UNCHANGED kind, NEW t \in Threads, NEW rest \in CallsOf(kind),
           \/ UNCHANGED call
           \/ call' = [call EXCEPT ![t] = rest],
           \/ UNCHANGED job
           \/ kind \in Queues /\ job' = [job EXCEPT ![t] = NoJob] /\ call'[t] # QueueCall
           \/ \E j \in Jobs : kind \in Queues /\ j.of = kind /\ job' = [job EXCEPT ![t] = j],
           call' # call /\ UNCHANGED job => (rest.op = "queue" => job[t] # NoJob)
    PROVE  CallInv'
<1>1. call' \in [Threads -> CallsOf(kind)]
  BY DEF CallInv
<1>2. job' \in [Threads -> {NoJob} \cup Jobs]
  BY DEF CallInv
<1>3. ASSUME NEW x \in Threads PROVE job'[x] # NoJob => job'[x].of = kind
  BY <1>3 DEF CallInv
<1>4. ASSUME NEW x \in Threads, call'[x].op = "queue" PROVE job'[x] # NoJob
  <2>1. CASE x # t
    BY <1>4, <2>1 DEF CallInv
  <2>2. CASE x = t
    <3>1. CASE UNCHANGED job
      BY <1>4, <2>2, <3>1 DEF CallInv
    <3>2. CASE kind \in Queues /\ call'[t] # QueueCall
      BY <1>1, <1>4, <2>2, <3>2, KindsOfCalls, CallNames DEF CallInv
    <3>3. CASE \E j \in Jobs : job' = [job EXCEPT ![t] = j]
      BY <2>2, <3>3, JobIsNone DEF CallInv
    <3>4. QED
      BY <3>1, <3>2, <3>3
  <2>3. QED
    BY <2>1, <2>2
<1>5. QED
  BY <1>1, <1>2, <1>3, <1>4 DEF CallInv

-----------------------------------------------------------------------------
(* Rings.                                                                  *)

Around(n, i) == IF i < n THEN i ELSE i - n

\* The elements of a ring of n places, from place rd on.
Holds(n, buffer, rd, wr, content) ==
    /\ DOMAIN buffer = 0..(n - 1) /\ rd \in 0..(n - 1) /\ wr \in 0..(n - 1)
    /\ Len(content) <= n /\ Around(n, rd + Len(content)) = wr
    /\ \A i \in 1..Len(content) : buffer[Around(n, rd + i - 1)] = content[i]

\* Places are counted modulo n.
LEMMA Wraps ==
    ASSUME NEW n \in Nat \ {0}, NEW i \in Nat, i < 2 * n
    PROVE  i % n = Around(n, i)
  BY DEF Around

LEMMA RingIsEmpty ==
    ASSUME NEW n \in Nat \ {0}, NEW buffer, DOMAIN buffer = 0..(n - 1)
    PROVE  Holds(n, buffer, 0, 0, <<>>)
<1>1. Around(n, 0 + 0) = 0
  BY DEF Around
<1>2. <<>> \in Seq({}) /\ Len(<<>>) = 0 /\ 1..0 = {}
  OBVIOUS
<1>3. QED
  BY <1>1, <1>2 DEF Holds

\* Writing behind the last element, and reading the first.
LEMMA RingPuts ==
    ASSUME NEW n \in Nat \ {0}, NEW buffer, NEW rd, NEW wr, NEW S, NEW content \in Seq(S),
           Holds(n, buffer, rd, wr, content), Len(content) < n, NEW e \in S
    PROVE  Holds(n, [buffer EXCEPT ![wr] = e], rd, IF wr + 1 >= n THEN 0 ELSE wr + 1,
                 Append(content, e))
<1> DEFINE m == Len(content)
           next == IF wr + 1 >= n THEN 0 ELSE wr + 1
           b == [buffer EXCEPT ![wr] = e]
           c == Append(content, e)
<1>1. /\ m \in Nat /\ rd \in 0..(n - 1) /\ wr \in 0..(n - 1) /\ DOMAIN buffer = 0..(n - 1)
      /\ Around(n, rd + m) = wr
      /\ \A i \in 1..m : buffer[Around(n, rd + i - 1)] = content[i]
  BY DEF Holds
<1>2. /\ c \in Seq(S) /\ Len(c) = m + 1 /\ c[m + 1] = e
      /\ \A i \in 1..m : c[i] = content[i]
  OBVIOUS
<1> HIDE DEF m, c
<1>3. next \in 0..(n - 1) /\ Around(n, rd + (m + 1)) = next
  <2>1. m < n
    BY DEF m
  <2>2. QED
    BY <1>1, <2>1 DEF Around
<1>4. \A i \in 1..m : Around(n, rd + i - 1) # wr /\ Around(n, rd + i - 1) \in 0..(n - 1)
  BY <1>1 DEF Around, m
<1>5. DOMAIN b = 0..(n - 1) /\ b[wr] = e /\ \A i \in 0..(n - 1) : i # wr => b[i] = buffer[i]
  BY <1>1
<1> HIDE DEF b, next
<1>6. ASSUME NEW i \in 1..(m + 1) PROVE b[Around(n, rd + i - 1)] = c[i]
  <2>1. CASE i = m + 1
    <3>1. Around(n, rd + i - 1) = wr
      BY <1>1, <2>1 DEF Around
    <3>2. QED
      BY <1>2, <1>5, <2>1, <3>1
  <2>2. CASE i # m + 1
    <3>1. i \in 1..m
      BY <1>1, <2>2
    <3>2. QED
      BY <1>1, <1>2, <1>4, <1>5, <3>1
  <2>3. QED
    BY <2>1, <2>2
<1>7. m + 1 <= n
  BY <1>1 DEF m
<1>8. QED
  BY <1>1, <1>2, <1>3, <1>5, <1>6, <1>7 DEF Holds, b, c, next

LEMMA RingGets ==
    ASSUME NEW n \in Nat \ {0}, NEW buffer, NEW rd, NEW wr, NEW S, NEW content \in Seq(S),
           Holds(n, buffer, rd, wr, content), Len(content) > 0
    PROVE  Holds(n, buffer, IF rd + 1 >= n THEN 0 ELSE rd + 1, wr, Tail(content))
<1> DEFINE m == Len(content)
           next == IF rd + 1 >= n THEN 0 ELSE rd + 1
           c == Tail(content)
<1>1. /\ m \in Nat /\ rd \in 0..(n - 1) /\ wr \in 0..(n - 1) /\ DOMAIN buffer = 0..(n - 1)
      /\ Around(n, rd + m) = wr /\ m <= n
      /\ \A i \in 1..m : buffer[Around(n, rd + i - 1)] = content[i]
  BY DEF Holds
<1>2. c \in Seq(S) /\ Len(c) = m - 1 /\ \A i \in 1..(m - 1) : c[i] = content[i + 1]
  OBVIOUS
<1> HIDE DEF m, c
<1>3. m > 0
  BY DEF m
<1>4. next \in 0..(n - 1) /\ Around(n, next + (m - 1)) = wr
  BY <1>1, <1>3 DEF Around
<1>5. ASSUME NEW i \in 1..(m - 1) PROVE buffer[Around(n, next + i - 1)] = c[i]
  <2>1. i + 1 \in 1..m /\ Around(n, rd + (i + 1) - 1) = Around(n, next + i - 1)
    BY <1>1 DEF Around
  <2>2. QED
    BY <1>1, <1>2, <2>1
<1> HIDE DEF next
<1>6. QED
  BY <1>1, <1>2, <1>3, <1>4, <1>5 DEF Holds, c, next

\* Writing before the first one.
LEMMA RingPutsAhead ==
    ASSUME NEW n \in Nat \ {0}, NEW buffer, NEW rd, NEW wr, NEW S, NEW content \in Seq(S),
           Holds(n, buffer, rd, wr, content), Len(content) < n, NEW e \in S
    PROVE  LET last == IF rd - 1 < 0 THEN n - 1 ELSE rd - 1
           IN  Holds(n, [buffer EXCEPT ![last] = e], last, wr, <<e>> \o content)
<1> DEFINE m == Len(content)
           last == IF rd - 1 < 0 THEN n - 1 ELSE rd - 1
           b == [buffer EXCEPT ![last] = e]
           c == <<e>> \o content
<1>1. /\ m \in Nat /\ rd \in 0..(n - 1) /\ wr \in 0..(n - 1) /\ DOMAIN buffer = 0..(n - 1)
      /\ Around(n, rd + m) = wr
      /\ \A i \in 1..m : buffer[Around(n, rd + i - 1)] = content[i]
  BY DEF Holds
<1>2. /\ c \in Seq(S) /\ Len(c) = m + 1 /\ c[1] = e
      /\ \A i \in 2..(m + 1) : c[i] = content[i - 1]
  OBVIOUS
<1> HIDE DEF m, c
<1>3. last \in 0..(n - 1) /\ Around(n, last + (m + 1)) = wr /\ Around(n, last + 1 - 1) = last
  BY <1>1, SMTT(30) DEF Around, m
<1>4. \A i \in 1..m : Around(n, rd + i - 1) # last /\ Around(n, rd + i - 1) \in 0..(n - 1)
  BY <1>1 DEF Around, m
<1>5. DOMAIN b = 0..(n - 1) /\ b[last] = e /\ \A i \in 0..(n - 1) : i # last => b[i] = buffer[i]
  BY <1>1, <1>3
<1>6. ASSUME NEW i \in 1..(m + 1) PROVE b[Around(n, last + i - 1)] = c[i]
  <2> HIDE DEF b
  <2>1. CASE i = 1
    BY <1>2, <1>3, <1>5, <2>1
  <2>2. CASE i # 1
    <3>1. i \in 2..(m + 1) /\ i - 1 \in 1..m
      BY <1>1, <2>2
    <3>2. Around(n, last + i - 1) = Around(n, rd + (i - 1) - 1)
      BY <1>1, <3>1 DEF Around, m
    <3>3. QED
      BY <1>1, <1>2, <1>4, <1>5, <3>1, <3>2
  <2>3. QED
    BY <2>1, <2>2
<1> HIDE DEF b, last
<1>7. m + 1 <= n
  BY <1>1 DEF m
<1>8. QED
  BY <1>1, <1>2, <1>3, <1>5, <1>6, <1>7 DEF Holds, b, c, last

-----------------------------------------------------------------------------
(* Calls.                                                                  *)

\* Steps of a thread or an interrupt handler that start no transfer.
CallsOnly(t) ==
    /\ UNCHANGED <<kind, job>>
    /\ \/ UNCHANGED call
       \/ \E rest \in CallsOf(kind) : rest.op # "queue" /\ call' = [call EXCEPT ![t] = rest]

LEMMA CallsOnlyKeep ==
    ASSUME CallInv, NEW t \in Threads, CallsOnly(t)
    PROVE  CallInv'
<1>1. kind \in Kinds
  BY DEF CallInv
<1>2. CASE UNCHANGED call
  BY <1>1, <1>2, CallChanges, KindsOfCalls DEF CallsOnly
<1>3. CASE \E rest \in CallsOf(kind) : rest.op # "queue" /\ call' = [call EXCEPT ![t] = rest]
  BY <1>3, CallChanges DEF CallsOnly
<1>4. QED
  BY <1>2, <1>3 DEF CallsOnly

LEMMA SemCalls ==
    ASSUME CallInv, UNCHANGED <<kind, queueVars>>, NEW t \in Threads,
           \/ kind = "semaphore" /\ SemNext(t)
           \/ kind = "binary" /\ BSemNext(t)
    PROVE  CallsOnly(t)
<1>1. User \in CallsOf(kind) /\ SemCall \in CallsOf(kind)
  BY KindsOfCalls DEF CallInv
<1>2. UNCHANGED <<kind, job>> /\ User.op # "queue" /\ SemCall.op # "queue"
  BY CallNames DEF queueVars
<1>3. ASSUME NEW o, NEW time, SemWait(t, o, time) PROVE CallsOnly(t)
  BY <1>1, <1>2, <1>3 DEF SemWait, Returns, Sleeps, CallsOnly, SemCall
<1>4. ASSUME SemWaitBack(t) PROVE CallsOnly(t)
  BY <1>1, <1>2, <1>4 DEF SemWaitBack, Sleeps, CallsOnly
<1>5. ASSUME NEW o, NEW o2, SemSignalWait(t, o, o2) PROVE CallsOnly(t)
  BY <1>1, <1>2, <1>5 DEF SemSignalWait, Sleeps, CallsOnly, SemCall
<1>6. ASSUME UNCHANGED call PROVE CallsOnly(t)
  BY <1>2, <1>6 DEF CallsOnly
<1>7. CASE SemNext(t)
  BY <1>3, <1>4, <1>5, <1>6, <1>7
     DEF SemNext, SemSignalCall, SemReset, SemSignalIsr, SemAddCounterIsr, SemResetIsr, Returns
<1>8. CASE BSemNext(t)
  BY <1>3, <1>4, <1>6, <1>8
     DEF BSemNext, BSemWait, BSemWaitTimeout, BSemReset, BSemSignal, BSemResetIsr, BSemSignalIsr,
         SemReset, SemResetIsr, Returns
<1>9. QED
  BY <1>7, <1>8

LEMMA BoxOpsAre ==
    /\ Fetching \in BoxOps
    /\ \A m \in Msgs : [op |-> "post", msg |-> m] \in BoxOps /\ [op |-> "ahead", msg |-> m] \in BoxOps
  BY DEF Fetching, BoxOps

LEMMA BoxCalls ==
    ASSUME CallInv, UNCHANGED <<kind, queueVars>>, NEW t \in Threads,
           kind = "mailbox", BoxNext(t, Times)
    PROVE  CallsOnly(t)
<1>1. User \in CallsOf(kind) /\ BoxOps \subseteq CallsOf(kind)
  BY KindsOfCalls DEF CallInv
<1>2. UNCHANGED <<kind, job>> /\ User.op # "queue" /\ \A b \in BoxOps : b.op # "queue"
  BY CallNames DEF queueVars
<1>3. ASSUME NEW b \in BoxOps, NEW time, BoxCall(t, b, time) PROVE CallsOnly(t)
  BY <1>1, <1>2, <1>3 DEF BoxCall, Returns, Sleeps, CallsOnly
<1>4. ASSUME BoxBack(t) PROVE CallsOnly(t)
  BY <1>1, <1>2, <1>4 DEF BoxBack, Sleeps, CallsOnly
<1>5. ASSUME UNCHANGED call PROVE CallsOnly(t)
  BY <1>2, <1>5 DEF CallsOnly
<1>6. QED
  BY <1>3, <1>4, <1>5, BoxOpsAre
     DEF BoxNext, MBPostI, MBPostAheadI, MBFetchI, BoxInterrupt, MBFetch, MBPost, MBPostAhead,
         MBReset, Returns

LEMMA EventCallsKeep ==
    ASSUME CallInv, UNCHANGED <<kind, queueVars>>, NEW t \in Threads,
           \/ kind = "event" /\ EventNext(t, Times)
           \/ kind = "source" /\ SourceNext(t, Times)
    PROVE  CallsOnly(t)
<1>1. User \in CallsOf(kind) /\ EventCalls \subseteq CallsOf(kind)
  BY KindsOfCalls DEF CallInv
<1>2. UNCHANGED <<kind, job>> /\ User.op # "queue" /\ \A b \in EventCalls : b.op # "queue"
  BY CallNames DEF queueVars
<1>3. ASSUME NEW way \in {"one", "any", "all"}, NEW mask \in SUBSET Events, NEW time,
             EvtWait(t, way, mask, time)
      PROVE  CallsOnly(t)
  <2>1. [op |-> "event", way |-> way, mask |-> mask] \in EventCalls
    BY DEF EventCalls
  <2>2. QED
    BY <1>1, <1>2, <1>3, <2>1 DEF EvtWait, Returns, Sleeps, CallsOnly
<1>4. ASSUME EvtWaitBack(t) PROVE CallsOnly(t)
  BY <1>1, <1>2, <1>4 DEF EvtWaitBack, Sleeps, CallsOnly
<1>5. ASSUME UNCHANGED call PROVE CallsOnly(t)
  BY <1>2, <1>5 DEF CallsOnly
<1>6. CASE EventNext(t, Times)
  <2>1. ASSUME NEW mask \in Masks, Waits(t, mask, Times) PROVE CallsOnly(t)
    BY <1>3, <2>1
       DEF Waits, EvtWaitOne, EvtWaitAny, EvtWaitAll, EvtWaitOneTimeout, EvtWaitAnyTimeout,
           EvtWaitAllTimeout, Masks
  <2>2. QED
    BY <1>4, <1>5, <1>6, <2>1
       DEF EventNext, EvtSignal, EvtSignalIsr, AddEvents, GetAndClearEvents, Returns
<1>7. CASE SourceNext(t, Times)
  BY <1>3, <1>4, <1>5, <1>7
     DEF SourceNext, RegisterMask, Unregister, GetAndClearFlags, GetAndClearFlagsI,
         BroadcastFlags, BroadcastFlagsIsr, Returns, EvtWaitAny, EvtWaitAllTimeout
<1>8. QED
  BY <1>6, <1>7

-----------------------------------------------------------------------------
(* The bytes of the queues.                                                *)

Rings == [counter : Int, rd : Nat, wr : Nat, buffer : [0..(RingSize - 1) -> Bytes \cup {None}]]
RingHolds(q, r, content) ==
    /\ r.counter = (IF q \in Inputs THEN Len(content) ELSE RingSize - Len(content))
    /\ Holds(RingSize, r.buffer, r.rd, r.wr, content)
RingsOK ==
    /\ ring \in [Queues -> Rings] /\ inside \in [Queues -> Seq(Bytes)]
    /\ \A q \in Queues : RingHolds(q, ring[q], inside[q])

LEMMA RingChanges ==
    ASSUME RingsOK, NEW q \in Queues, NEW r \in Rings, NEW content \in Seq(Bytes),
           RingHolds(q, r, content),
           ring' = [ring EXCEPT ![q] = r], inside' = [inside EXCEPT ![q] = content]
    PROVE  RingsOK'
<1>1. ring' \in [Queues -> Rings] /\ inside' \in [Queues -> Seq(Bytes)]
  BY DEF RingsOK
<1>2. ASSUME NEW x \in Queues PROVE RingHolds(x, ring'[x], inside'[x])
  <2>1. CASE x = q
    BY <2>1 DEF RingsOK
  <2>2. CASE x # q
    BY <2>2 DEF RingsOK
  <2>3. QED
    BY <2>1, <2>2
<1>3. QED
  BY <1>1, <1>2 DEF RingsOK

LEMMA EmptyRingHolds ==
    ASSUME NEW q \in Queues, NEW buffer \in [0..(RingSize - 1) -> Bytes \cup {None}]
    PROVE  /\ EmptyRing(q, buffer) \in Rings /\ RingHolds(q, EmptyRing(q, buffer), <<>>)
           /\ <<>> \in Seq(Bytes)
<1>1. RingSize \in Nat \ {0}
  BY QueuesAssumption
<1>2. Holds(RingSize, buffer, 0, 0, <<>>)
  BY <1>1, RingIsEmpty
<1>3. Len(<<>>) = 0 /\ <<>> \in Seq(Bytes)
  OBVIOUS
<1>4. QED
  BY <1>1, <1>2, <1>3 DEF EmptyRing, Rings, RingHolds

LEMMA PutKeeps ==
    ASSUME RingsOK, NEW q \in Queues, NEW b \in Bytes, NEW count, Put(q, b, count),
           Len(inside[q]) < RingSize, count = IF q \in Inputs THEN 1 ELSE -1
    PROVE  RingsOK'
<1> DEFINE R == ring[q]
           c == inside[q]
           n == R.counter + count
           p == NextPlace(R.wr)
           r == [R EXCEPT !.counter = n, !.wr = p, !.buffer[R.wr] = b]
<1>1. /\ RingSize \in Nat \ {0} /\ R \in Rings /\ c \in Seq(Bytes) /\ RingHolds(q, R, c)
      /\ Len(c) < RingSize
  BY QueuesAssumption DEF RingsOK
<1>2. ring' = [ring EXCEPT ![q] = r] /\ inside' = [inside EXCEPT ![q] = Append(c, b)]
  BY DEF Put
<1> HIDE DEF R, c
<1>3. Append(c, b) \in Seq(Bytes) /\ Len(Append(c, b)) = Len(c) + 1 /\ Len(c) \in Nat
  BY <1>1
<1>4. n \in Int /\ p \in Nat
  BY <1>1 DEF Rings, NextPlace
<1> HIDE DEF n, p
<1>5. /\ r \in Rings /\ r.counter = n /\ r.rd = R.rd /\ r.wr = p
      /\ r.buffer = [R.buffer EXCEPT ![R.wr] = b]
  <2> DEFINE d == [R.buffer EXCEPT ![R.wr] = b]
  <2>1. d \in [0..(RingSize - 1) -> Bytes \cup {None}]
    BY <1>1 DEF Rings
  <2>2. r = [R EXCEPT !.counter = n, !.wr = p, !.buffer = d]
    BY <1>1 DEF Rings
  <2> HIDE DEF d, r
  <2>3. /\ r \in Rings /\ r.counter = n /\ r.rd = R.rd /\ r.wr = p /\ r.buffer = d
    BY <1>1, <1>4, <2>1, <2>2 DEF Rings
  <2>4. QED
    BY <2>3 DEF d
<1> HIDE DEF r
<1>6. Holds(RingSize, r.buffer, r.rd, r.wr, Append(c, b))
  BY <1>1, <1>5, RingPuts DEF RingHolds, NextPlace, p
<1>7. RingHolds(q, r, Append(c, b))
  BY <1>1, <1>3, <1>5, <1>6 DEF RingHolds, n
<1>8. QED
  BY <1>2, <1>3, <1>5, <1>7, RingChanges

LEMMA GetKeeps ==
    ASSUME RingsOK, NEW q \in Queues, NEW count, Get(q, count),
           Len(inside[q]) > 0, count = IF q \in Inputs THEN -1 ELSE 1
    PROVE  RingsOK'
<1> DEFINE R == ring[q]
           c == inside[q]
           r == [R EXCEPT !.counter = R.counter + count, !.rd = NextPlace(R.rd)]
<1>1. /\ RingSize \in Nat \ {0} /\ R \in Rings /\ c \in Seq(Bytes) /\ RingHolds(q, R, c)
      /\ Len(c) > 0
  BY QueuesAssumption DEF RingsOK
<1>2. ring' = [ring EXCEPT ![q] = r] /\ inside' = [inside EXCEPT ![q] = Tail(c)]
  BY DEF Get
<1> HIDE DEF R, c
<1>3. Tail(c) \in Seq(Bytes) /\ Len(Tail(c)) = Len(c) - 1 /\ Len(c) \in Nat
  BY <1>1
<1>4. R.counter + count \in Int /\ NextPlace(R.rd) \in Nat
  BY <1>1 DEF Rings, NextPlace
<1>5. /\ r \in Rings /\ r.counter = R.counter + count /\ r.rd = NextPlace(R.rd) /\ r.wr = R.wr
      /\ r.buffer = R.buffer
  BY <1>1, <1>4 DEF Rings
<1> HIDE DEF r
<1>6. Holds(RingSize, r.buffer, r.rd, r.wr, Tail(c))
  BY <1>1, <1>5, RingGets DEF RingHolds, NextPlace
<1>7. RingHolds(q, r, Tail(c))
  BY <1>1, <1>3, <1>5, <1>6 DEF RingHolds
<1>8. QED
  BY <1>2, <1>3, <1>5, <1>7, RingChanges

\* A ring is full or empty where the two pointers meet.
LEMMA RingFull ==
    ASSUME RingsOK, NEW q \in Queues
    PROVE  /\ ring[q].counter \in Int /\ Len(inside[q]) \in 0..RingSize
           /\ q \in Inputs /\ ~QueueFull(q) => Len(inside[q]) < RingSize
           /\ q \notin Inputs /\ ~QueueFull(q) => Len(inside[q]) > 0
           /\ q \in Inputs /\ ring[q].counter > 0 => Len(inside[q]) > 0
           /\ q \notin Inputs /\ ring[q].counter > 0 => Len(inside[q]) < RingSize
<1> DEFINE n == Len(inside[q])
<1>1. RingSize \in Nat \ {0} /\ n \in Nat /\ n <= RingSize
  BY QueuesAssumption DEF RingsOK, RingHolds, Holds
<1>2. /\ ring[q].rd \in 0..(RingSize - 1) /\ Around(RingSize, ring[q].rd + n) = ring[q].wr
      /\ ring[q].counter = IF q \in Inputs THEN n ELSE RingSize - n
  BY DEF RingsOK, RingHolds, Holds
<1> HIDE DEF n
<1>3. n = RingSize => ring[q].wr = ring[q].rd
  BY <1>1, <1>2 DEF Around
<1>4. n = 0 => ring[q].wr = ring[q].rd
  BY <1>1, <1>2 DEF Around
<1>5. QED
  BY <1>1, <1>2, <1>3, <1>4 DEF QueueFull, n

\* A thread that moves a byte has found that it can.
LEMMA MoveKeeps ==
    ASSUME CallInv, RingsOK, NEW t \in Threads, job[t] # NoJob, Available(t), Move(t)
    PROVE  RingsOK'
<1> DEFINE q == job[t].of
<1>1. q \in Queues
  BY DEF CallInv, Jobs
<1>2. ring[q].counter > 0
  BY DEF Available
<1>3. CASE q \in Inputs
  <2>1. Get(q, -1)
    BY <1>3 DEF Move
  <2> HIDE DEF q
  <2>2. QED
    BY <1>1, <1>2, <1>3, <2>1, RingFull, GetKeeps
<1>4. CASE q \notin Inputs
  <2>1. \E b \in Bytes : Put(q, b, -1)
    BY <1>4 DEF Move
  <2> HIDE DEF q
  <2>2. QED
    BY <1>1, <1>2, <1>4, <2>1, RingFull, PutKeeps
<1>5. QED
  BY <1>3, <1>4

LEMMA Unmodified ==
    ASSUME RingsOK, UNCHANGED <<ring, inside>>
    PROVE  RingsOK'
  BY DEF RingsOK

\* A transfer of one byte less, or the end of it.
LEMMA TransferGoesOn ==
    ASSUME CallInv, NEW t \in Threads, job[t] # NoJob, Move(t)
    PROVE  \/ job' = [job EXCEPT ![t] = NoJob]
           \/ \E j \in Jobs : j.of = kind /\ job' = [job EXCEPT ![t] = j]
<1> DEFINE j == job[t]
           less == [j EXCEPT !.left = @ - 1]
<1>1. j \in Jobs /\ j.of = kind
  BY DEF CallInv
<1>2. job' = [job EXCEPT ![t] = IF j.left = 1 THEN NoJob ELSE less]
  BY DEF Move
<1> HIDE DEF j
<1>3. ASSUME j.left # 1 PROVE less \in Jobs /\ less.of = kind
  BY <1>1, <1>3 DEF Jobs
<1>4. QED
  BY <1>2, <1>3

LEMMA TransferKeeps ==
    ASSUME CallInv, RingsOK, UNCHANGED kind, kind \in Queues, NEW t \in Threads,
           Transfer(t) \/ TransferBack(t)
    PROVE  CallInv' /\ RingsOK'
<1>1. kind \in Kinds /\ User \in CallsOf(kind) /\ QueueCall \in CallsOf(kind) /\ User # QueueCall
  BY KindsOfCalls, CallNames DEF CallInv
<1>2. QueueCall.op = "queue" /\ User.op # "queue"
  BY CallNames
<1>3. ASSUME job[t] # NoJob, Available(t), Move(t),
             UNCHANGED call \/ call' = [call EXCEPT ![t] = User],
             call[t] = User \/ call' = [call EXCEPT ![t] = User]
      PROVE  CallInv' /\ RingsOK'
  <2>1. RingsOK'
    BY <1>3, MoveKeeps
  <2>2. call'[t] = User
    BY <1>3 DEF CallInv
  <2>3. CASE job' = [job EXCEPT ![t] = NoJob]
    BY <1>1, <1>2, <1>3, <2>1, <2>2, <2>3, CallChanges
  <2>4. CASE \E j \in Jobs : j.of = kind /\ job' = [job EXCEPT ![t] = j]
    BY <1>1, <1>2, <1>3, <2>1, <2>4, CallChanges
  <2>5. QED
    BY <1>3, <2>3, <2>4, TransferGoesOn
<1>4. ASSUME GivesUp(t), UNCHANGED call \/ call' = [call EXCEPT ![t] = User],
             call[t] = User \/ call' = [call EXCEPT ![t] = User]
      PROVE  CallInv' /\ RingsOK'
  <2>1. call'[t] = User /\ RingsOK' /\ job' = [job EXCEPT ![t] = NoJob]
    BY <1>4, Unmodified DEF CallInv, GivesUp
  <2>2. QED
    BY <1>1, <1>2, <1>4, <2>1, CallChanges
<1>5. ASSUME job[t] # NoJob, UNCHANGED queueVars, call' = [call EXCEPT ![t] = QueueCall]
      PROVE  CallInv' /\ RingsOK'
  <2>1. RingsOK' /\ UNCHANGED job
    BY <1>5, Unmodified DEF queueVars
  <2>2. QED
    BY <1>1, <1>2, <1>5, <2>1, CallChanges
<1>6. CASE Transfer(t)
  <2>1. call[t] = User /\ job[t] # NoJob
    BY <1>6 DEF Transfer, Calls, InUser
  <2>2. CASE Available(t) /\ Move(t) /\ Returns(k)
    BY <1>3, <2>1, <2>2 DEF Returns
  <2>3. CASE GivesUp(t) /\ Returns(k)
    BY <1>4, <2>1, <2>3 DEF Returns
  <2>4. CASE UNCHANGED queueVars /\ call' = [call EXCEPT ![t] = QueueCall]
    BY <1>5, <2>1, <2>4
  <2>5. QED
    BY <1>6, <2>2, <2>3, <2>4 DEF Transfer, Sleeps, QueueCall
<1>7. CASE TransferBack(t)
  <2>1. job[t] # NoJob
    BY <1>7 DEF TransferBack, IsBack, CallInv
  <2>2. CASE GivesUp(t) /\ call' = [call EXCEPT ![t] = User]
    BY <1>4, <2>2
  <2>3. CASE Available(t) /\ Move(t) /\ call' = [call EXCEPT ![t] = User]
    BY <1>3, <2>1, <2>3
  <2>4. CASE UNCHANGED queueVars /\ call' = [call EXCEPT ![t] = QueueCall]
    BY <1>5, <2>1, <2>4
  <2>5. QED
    BY <1>7, <2>2, <2>3, <2>4 DEF TransferBack, Sleeps, QueueCall
<1>8. QED
  BY <1>6, <1>7

LEMMA QueueStepKeeps ==
    ASSUME CallInv, RingsOK, UNCHANGED kind, kind \in Queues, NEW t \in Threads,
           QueueNext(t, kind, Times, Lengths)
    PROVE  CallInv' /\ RingsOK'
<1>1. ASSUME UNCHANGED <<call, job>> PROVE CallInv'
  BY <1>1 DEF CallInv
<1>2. ASSUME NEW n \in Nat \ {0}, NEW time \in Times, TransferStart(t, kind, n, time)
      PROVE  CallInv' /\ RingsOK'
  <2> DEFINE j == [of |-> kind, left |-> n, time |-> time]
  <2>1. j \in Jobs /\ j.of = kind
    BY DEF Jobs
  <2>2. /\ UNCHANGED call /\ job' = [job EXCEPT ![t] = j] /\ RingsOK'
        /\ User \in CallsOf(kind)
    BY <1>2, Unmodified, KindsOfCalls DEF TransferStart, CallInv
  <2>3. QED
    BY <2>1, <2>2, CallChanges
<1>3. ASSUME Serve(kind) PROVE CallInv' /\ RingsOK'
  <2>1. CallInv'
    BY <1>1, <1>3 DEF Serve, Returns
  <2>2. CASE QueueFull(kind)
    BY <1>3, <2>1, <2>2, Unmodified DEF Serve
  <2>3. CASE ~QueueFull(kind) /\ kind \in Inputs
    <3>1. \E b \in Bytes : Put(kind, b, 1)
      BY <1>3, <2>3 DEF Serve
    <3>2. QED
      BY <2>1, <2>3, <3>1, RingFull, PutKeeps
  <2>4. CASE ~QueueFull(kind) /\ kind \notin Inputs
    <3>1. Get(kind, 1)
      BY <1>3, <2>4 DEF Serve
    <3>2. QED
      BY <2>1, <2>4, <3>1, RingFull, GetKeeps
  <2>5. QED
    BY <2>2, <2>3, <2>4
<1>4. ASSUME QueueReset(kind) PROVE CallInv' /\ RingsOK'
  <2>1. CallInv'
    BY <1>1, <1>4 DEF QueueReset, Returns
  <2>2. ring[kind].buffer \in [0..(RingSize - 1) -> Bytes \cup {None}]
    BY DEF RingsOK, Rings
  <2>3. /\ ring' = [ring EXCEPT ![kind] = EmptyRing(kind, ring[kind].buffer)]
        /\ inside' = [inside EXCEPT ![kind] = <<>>]
    BY <1>4 DEF QueueReset
  <2>4. QED
    BY <2>1, <2>2, <2>3, EmptyRingHolds, RingChanges
<1>5. Lengths \subseteq Nat \ {0} /\ 1 \in Nat \ {0}
  BY CommAssumption
<1>6. QED
  BY <1>2, <1>3, <1>4, <1>5, TransferKeeps
     DEF QueueNext, IQPutI, OQGetI, IQResetI, OQResetI, IQGetTimeout, OQPutTimeout,
         IQReadTimeout, OQWriteTimeout

RingInv == CallInv /\ RingsOK

LEMMA RingInitially == Init => RingInv
<1> SUFFICES ASSUME Init PROVE RingInv
  OBVIOUS
<1>1. /\ kind \in Kinds /\ call = [t \in Threads |-> User] /\ job = [t \in Threads |-> NoJob]
      /\ User \in CallsOf(kind) /\ User.op # "queue"
  BY KindsOfCalls, CallNames DEF Init, QueuesInit
<1>2. CallInv
  BY <1>1 DEF CallInv
<1> DEFINE buffer == [i \in 0..(RingSize - 1) |-> None]
<1>3. /\ ring = [q \in Queues |-> EmptyRing(q, buffer)] /\ inside = [q \in Queues |-> <<>>]
      /\ buffer \in [0..(RingSize - 1) -> Bytes \cup {None}]
  BY DEF Init, QueuesInit
<1> HIDE DEF buffer
<1>4. RingsOK
  BY <1>3, EmptyRingHolds DEF RingsOK
<1>5. QED
  BY <1>2, <1>4 DEF RingInv

LEMMA RingStep ==
    ASSUME RingInv, [Next]_vars
    PROVE  RingInv'
<1>1. CASE UNCHANGED vars
  <2>1. UNCHANGED <<kind, call, job, ring, inside>>
    BY <1>1 DEF vars, queueVars
  <2>2. QED
    BY <2>1 DEF RingInv, CallInv, RingsOK
<1>2. ASSUME NEW t \in Threads, CallsOnly(t), UNCHANGED queueVars PROVE RingInv'
  BY <1>2, CallsOnlyKeep, Unmodified DEF RingInv, queueVars
<1>3. CASE Next
  <2>1. UNCHANGED kind
    BY <1>3 DEF Next
  <2>2. CASE TickStep
    <3>1. UNCHANGED <<call, job, ring, inside>>
      BY <2>2 DEF TickStep, Tick, queueVars
    <3>2. QED
      BY <2>1, <3>1 DEF RingInv, CallInv, RingsOK
  <2>3. ASSUME NEW t \in Threads, UNCHANGED queueVars,
               \/ kind = "semaphore" /\ SemNext(t)
               \/ kind = "binary" /\ BSemNext(t)
               \/ kind = "mailbox" /\ BoxNext(t, Times)
               \/ kind = "event" /\ EventNext(t, Times)
               \/ kind = "source" /\ SourceNext(t, Times)
        PROVE  RingInv'
    BY <1>2, <2>1, <2>3, SemCalls, BoxCalls, EventCallsKeep DEF RingInv
  <2>4. ASSUME NEW t \in Threads, kind \in Queues, QueueNext(t, kind, Times, Lengths)
        PROVE  RingInv'
    BY <2>1, <2>4, QueueStepKeeps DEF RingInv
  <2>5. QED
    BY <1>3, <2>2, <2>3, <2>4 DEF Next
<1>4. QED
  BY <1>1, <1>3

LEMMA RingsHold == RingInv => RingHoldsBytes
<1> SUFFICES ASSUME RingInv, NEW q \in Queues
             PROVE  LET r == ring[q]
                        n == Len(inside[q])
                    IN  /\ r.counter = (IF q \in Inputs THEN n ELSE RingSize - n)
                        /\ (r.rd + n) % RingSize = r.wr
                        /\ \A i \in 1..n : r.buffer[(r.rd + i - 1) % RingSize] = inside[q][i]
  BY DEF RingHoldsBytes
<1> DEFINE r == ring[q]
           n == Len(inside[q])
<1>1. /\ RingSize \in Nat \ {0} /\ n \in Nat /\ r.rd \in 0..(RingSize - 1) /\ n <= RingSize
      /\ r.counter = (IF q \in Inputs THEN n ELSE RingSize - n)
      /\ Around(RingSize, r.rd + n) = r.wr
      /\ \A i \in 1..n : r.buffer[Around(RingSize, r.rd + i - 1)] = inside[q][i]
  BY QueuesAssumption DEF RingInv, RingsOK, RingHolds, Holds
<1> HIDE DEF r, n
<1>2. \A i \in 0..n : r.rd + i \in Nat /\ r.rd + i < 2 * RingSize
  BY <1>1
<1>3. \A i \in 0..n : (r.rd + i) % RingSize = Around(RingSize, r.rd + i)
  BY <1>1, <1>2, Wraps
<1>4. \A i \in 1..n : r.rd + i - 1 = r.rd + (i - 1) /\ i - 1 \in 0..n
  BY <1>1
<1>5. (r.rd + n) % RingSize = r.wr
  BY <1>1, <1>3
<1>6. \A i \in 1..n : r.buffer[(r.rd + i - 1) % RingSize] = inside[q][i]
  BY <1>1, <1>3, <1>4
<1>7. QED
  BY <1>1, <1>5, <1>6 DEF r, n

(* The two ends of an I/O queue agree on one byte stream: the counter, the *)
(* pointers and the buffer describe exactly the bytes put and not yet got, *)
(* through every wrap, time-out and reset, on any number of threads.       *)
THEOREM RingHolding == Spec => []RingHoldsBytes
<1>1. RingInv /\ [Next]_vars => RingInv'
  BY RingStep
<1>2. QED
  BY RingInitially, <1>1, RingsHold, PTL DEF Spec

-----------------------------------------------------------------------------
(* The kernel under the calls.                                             *)

Sems == {Full, Empty}
Notes == {"OK", "TIMEOUT", "RESET"} \cup Objects \cup SUBSET Events

\* What a thread that sleeps in call c waits for.
WaitsFor(kd, c, state, u) ==
    \/ c = SemCall /\ state = "WTSEM" /\ u \in Sems
    \/ c \in BoxOps /\ state = "WTSEM" /\ u = Takes(c)
    \/ c = QueueCall /\ state = "WTQUEUE" /\ u = kd /\ kd \in Queues
    \/ c \in EventCalls /\ state = WaitState(c.way) /\ u = c.mask

\* A thread runs its own code, or sleeps as its call says, or is about to
\* go on with its call.
CallsFit(kd, calls, s) ==
    \A t \in Threads : /\ calls[t] = User => Runs(s, t) /\ ~Armed(s, t)
                       /\ ~Runs(s, t) => WaitsFor(kd, calls[t], s.state[t], s.u[t])

SemsFit(s) == \A o \in Sems : Counted(s, o)

KernelFits ==
    /\ Settled(Notes, Sems, k) /\ TopRuns(k) /\ SemsFit(k)
    /\ call[Idle] = User
    /\ CallsFit(kind, call, k)
    /\ kind = "binary" => \A o \in Sems : k.cnt[o] <= 1

LEMMA SemsAreObjects ==
    /\ Sems \subseteq Objects /\ Sems \subseteq Notes /\ Queues \subseteq Objects /\ Queues \subseteq Notes
    /\ "OK" \in Notes /\ "TIMEOUT" \in Notes /\ "RESET" \in Notes
    /\ Full \in Sems /\ Empty \in Sems /\ Sems \cap Queues = {}
  BY MBoxesAssumption, QueuesAssumption, CommAssumption DEF Sems, Notes

LEMMA FitsReleased ==
    ASSUME NEW kd, NEW calls, NEW s, NEW r, CallsFit(kd, calls, s), Released(s, r)
    PROVE  CallsFit(kd, calls, r)
<1> SUFFICES ASSUME NEW t \in Threads
             PROVE  /\ calls[t] = User => Runs(r, t) /\ ~Armed(r, t)
                    /\ ~Runs(r, t) => WaitsFor(kd, calls[t], r.state[t], r.u[t])
  BY DEF CallsFit
<1>1. /\ calls[t] = User => Runs(s, t) /\ ~Armed(s, t)
      /\ ~Runs(s, t) => WaitsFor(kd, calls[t], s.state[t], s.u[t])
  BY DEF CallsFit
<1>2. /\ Runs(s, t) => Runs(r, t) /\ r.u[t] = s.u[t]
      /\ ~Runs(r, t) => r.state[t] = s.state[t] /\ r.u[t] = s.u[t]
      /\ Armed(r, t) => Armed(s, t)
  BY DEF Released
<1>3. QED
  BY <1>1, <1>2

\* Back in its own code.
LEMMA FitsBack ==
    ASSUME NEW kd, NEW S, NEW calls \in [Threads -> S], NEW s, CallsFit(kd, calls, s),
           NEW t \in Threads, Runs(s, t), ~Armed(s, t)
    PROVE  CallsFit(kd, [calls EXCEPT ![t] = User], s)
  BY DEF CallsFit

\* Asleep in call c.
LEMMA FitsAsleep ==
    ASSUME NEW kd, NEW S, NEW calls \in [Threads -> S], NEW U, NEW C, NEW s \in KernelStates(U, C),
           CallsFit(kd, calls, s),
           NEW r, NEW new \in States \ Runnable, NEW v, Asleep(s, r, new, v),
           NEW c, c # User, WaitsFor(kd, c, new, v)
    PROVE  CallsFit(kd, [calls EXCEPT ![s.current] = c], r)
<1> DEFINE cs == [calls EXCEPT ![s.current] = c]
<1> SUFFICES ASSUME NEW t \in Threads
             PROVE  /\ cs[t] = User => Runs(r, t) /\ ~Armed(r, t)
                    /\ ~Runs(r, t) => WaitsFor(kd, cs[t], r.state[t], r.u[t])
  BY DEF CallsFit
<1>1. s.current \in Threads /\ s.u \in [Threads -> U]
  BY DEF KernelStates
<1>2. CASE t = s.current
  <2>1. cs[t] = c /\ r.state[t] = new /\ r.u[t] = v
    BY <1>1, <1>2 DEF Asleep
  <2>2. QED
    BY <2>1
<1>3. CASE t # s.current
  <2>1. /\ cs[t] = calls[t] /\ r.u[t] = s.u[t] /\ (Runs(r, t) <=> Runs(s, t))
        /\ ~Runs(r, t) => r.state[t] = s.state[t]
        /\ Armed(r, t) => Armed(s, t)
    BY <1>1, <1>3 DEF Asleep
  <2>2. /\ calls[t] = User => Runs(s, t) /\ ~Armed(s, t)
        /\ ~Runs(s, t) => WaitsFor(kd, calls[t], s.state[t], s.u[t])
    BY DEF CallsFit
  <2> HIDE DEF cs
  <2>3. QED
    BY <2>1, <2>2
<1>4. QED
  BY <1>2, <1>3

LEMMA CallOfCurrent ==
    ASSUME CallInv, KernelFits
    PROVE  /\ k \in KernelStates(Notes, Sems) /\ k.current \in Threads /\ Runs(k, k.current)
           /\ k.state[k.current] = "CURRENT" /\ Placed(k)
           /\ InUser => ~Armed(k, k.current)
           /\ k.current # Idle => k.ready # <<>>
           /\ call[k.current] # User => k.current # Idle
<1>1. k \in KernelStates(Notes, Sems) /\ k.current \in Threads /\ Placed(k)
  BY DEF KernelFits, Settled, KernelStates
<1>2. Runs(k, k.current) /\ k.state[k.current] = "CURRENT"
  BY <1>1 DEF Placed, ThreadPlaced, Runs, Runnable
<1>3. InUser => ~Armed(k, k.current)
  BY <1>1 DEF KernelFits, CallsFit, InUser
<1>4. ASSUME k.current # Idle PROVE k.ready # <<>>
  <2>1. Idle \in Threads /\ Runs(k, Idle)
    BY SchdAssumption DEF KernelFits, CallsFit
  <2>2. Idle \in ToSet(k.ready)
    BY <1>1, <1>4, <2>1 DEF Placed, ThreadPlaced, Runs, Runnable
  <2>3. QED
    BY <1>1, <2>2, QueueSet DEF KernelStates
<1>5. QED
  BY <1>1, <1>2, <1>3, <1>4 DEF KernelFits

\* The steps that only let threads go: the current one goes on, or is back
\* in its own code.
LEMMA StepReleases ==
    ASSUME CallInv, KernelFits, UNCHANGED kind,
           Settled(Notes, Sems, k'), TopRuns(k'), SemsFit(k'), Released(k, k'),
           \/ UNCHANGED call
           \/ ~Armed(k', k.current) /\ call' = [call EXCEPT ![k.current] = User],
           kind = "binary" => \A o \in Sems : k'.cnt[o] <= 1
    PROVE  KernelFits'
<1>1. CallsFit(kind, call, k')
  BY FitsReleased DEF KernelFits
<1>2. call \in [Threads -> CallsOf(kind)] /\ k.current \in Threads /\ Runs(k', k.current)
  BY CallOfCurrent DEF CallInv, Released
<1>3. CallsFit(kind', call', k')
  <2>1. CASE UNCHANGED call
    BY <1>1, <2>1
  <2>2. CASE ~Armed(k', k.current) /\ call' = [call EXCEPT ![k.current] = User]
    <3>1. CallsFit(kind, [call EXCEPT ![k.current] = User], k')
      BY <1>1, <1>2, <2>2, FitsBack
    <3>2. QED
      BY <2>2, <3>1
  <2>3. QED
    BY <2>1, <2>2
<1>4. call'[Idle] = User
  BY <1>2, SchdAssumption DEF KernelFits
<1>5. QED
  BY <1>3, <1>4 DEF KernelFits, TopRuns, SemsFit, Counted, Settled, Runs

\* And those at whose end the current thread sleeps.
LEMMA StepSleeps ==
    ASSUME CallInv, KernelFits, UNCHANGED kind, k.current # Idle,
           NEW s \in KernelStates(Notes, Sems), Released(k, s), s.current = k.current,
           NEW new \in States \ Runnable, NEW v, Asleep(s, k', new, v),
           NEW c, c # User, WaitsFor(kind, c, new, v), call' = [call EXCEPT ![k.current] = c],
           Settled(Notes, Sems, k'), TopRuns(k'), SemsFit(k'),
           kind = "binary" => \A o \in Sems : k'.cnt[o] <= 1
    PROVE  KernelFits'
<1>1. CallsFit(kind, call, s)
  BY FitsReleased DEF KernelFits
<1>2. call \in [Threads -> CallsOf(kind)] /\ k.current \in Threads
  BY CallOfCurrent DEF CallInv
<1>3. CallsFit(kind', call', k')
  BY <1>1, <1>2, FitsAsleep
<1>4. call'[Idle] = User
  BY <1>2, SchdAssumption DEF KernelFits
<1>5. QED
  BY <1>3, <1>4 DEF KernelFits, TopRuns, SemsFit, Counted, Settled, Runs

\* A kernel state on the way from k to the end of a step.
Between(s) ==
    /\ Settled(Notes, Sems, s) /\ SemsFit(s) /\ Released(k, s) /\ s.current = k.current

\* After rescheduling it is the end.
LEMMA Rescheduled ==
    ASSUME NEW s, Between(s), NEW r, r = RescheduleS(s) \/ r = Epilogue(s)
    PROVE  /\ Settled(Notes, Sems, r) /\ TopRuns(r) /\ SemsFit(r) /\ Released(k, r)
           /\ SameThreads(s, r) /\ r.cnt = s.cnt /\ r.queue = s.queue
<1>1. Settled(Notes, Sems, s) /\ SemsFit(s) /\ Released(k, s)
  BY DEF Between
<1>2. Settled(Notes, Sems, r) /\ TopRuns(r) /\ SameThreads(s, r)
  BY <1>1, Resumes
<1>3. r.cnt = s.cnt /\ r.queue = s.queue
  BY <1>2 DEF SameThreads, Kept
<1>4. SemsFit(r)
  BY <1>1, <1>3 DEF SemsFit, Counted
<1>5. Released(k, r)
  BY <1>1, <1>2, Releases
<1>6. QED
  BY <1>2, <1>3, <1>4, <1>5

LEMMA StepReschedules ==
    ASSUME CallInv, KernelFits, UNCHANGED <<kind, call>>, NEW s, Between(s),
           k' = RescheduleS(s) \/ k' = Epilogue(s),
           kind = "binary" => \A o \in Sems : s.cnt[o] <= 1
    PROVE  KernelFits'
  BY Rescheduled, StepReleases

LEMMA KernelIsBetween ==
    ASSUME KernelFits
    PROVE  Between(k)
<1>1. Released(k, k)
  BY DEF Released
<1>2. QED
  BY <1>1 DEF Between, KernelFits

LEMMA SemsStillFit ==
    ASSUME NEW s, NEW r, s.cnt \in [Sems -> Int], SemsFit(s), NEW o, OnlyAt(s, r, o), Counted(r, o)
    PROVE  SemsFit(r)
<1> SUFFICES ASSUME NEW x \in Sems, x # o PROVE Counted(r, x)
  BY DEF SemsFit
<1>1. x \in Objects /\ Counted(s, x)
  BY SemsAreObjects DEF SemsFit
<1>2. r.queue[x] = s.queue[x] /\ r.cnt[x] = s.cnt[x]
  BY <1>1 DEF OnlyAt
<1>3. QED
  BY <1>1, <1>2 DEF Counted

LEMMA BetweenIs ==
    ASSUME KernelFits, NEW s, Between(s)
    PROVE  /\ s \in KernelStates(Notes, Sems) /\ s.cnt \in [Sems -> Int]
           /\ s.queue \in [Objects -> Seq(Threads)] /\ s.current \in Threads
           /\ \A o \in Sems : Counted(s, o) /\ s.cnt[o] \in Int
           /\ k.current # Idle => s.ready # <<>>
<1>1. /\ s \in KernelStates(Notes, Sems) /\ Placed(s) /\ s.cnt \in [Sems -> Int]
      /\ s.queue \in [Objects -> Seq(Threads)] /\ s.current \in Threads /\ s.ready \in Seq(Threads)
  BY DEF Between, Settled, KernelStates
<1>2. \A o \in Sems : Counted(s, o) /\ s.cnt[o] \in Int
  BY <1>1 DEF Between, SemsFit
<1>3. ASSUME k.current # Idle PROVE s.ready # <<>>
  <2>1. Idle \in Threads /\ Runs(s, Idle) /\ s.current # Idle
    BY <1>3, SchdAssumption DEF KernelFits, CallsFit, Between, Released
  <2>2. Idle \in ToSet(s.ready)
    BY <1>1, <2>1 DEF Placed, ThreadPlaced, Runs, Runnable
  <2>3. QED
    BY <1>1, <2>2, QueueSet
<1>4. QED
  BY <1>1, <1>2, <1>3

LEMMA BetweenOn ==
    ASSUME NEW s, Between(s), NEW r, Settled(Notes, Sems, r), SemsFit(r), Released(s, r),
           r.current = s.current
    PROVE  Between(r)
<1>1. Released(k, r)
  BY Releases DEF Between
<1>2. QED
  BY <1>1 DEF Between

LEMMA TakeBetween ==
    ASSUME KernelFits, NEW s, Between(s), NEW o \in Sems, s.cnt[o] > 0
    PROVE  LET r == SemTake(s, o) IN
           /\ Between(r) /\ Apart(s, r) /\ (TopRuns(s) => TopRuns(r))
           /\ r.cnt = [s.cnt EXCEPT ![o] = @ - 1] /\ r.queue = s.queue
<1> DEFINE c == [s.cnt EXCEPT ![o] = @ - 1]
           r == SemTake(s, o)
<1>1. /\ s \in KernelStates(Notes, Sems) /\ s.cnt \in [Sems -> Int] /\ Counted(s, o)
      /\ s.cnt[o] \in Int /\ Settled(Notes, Sems, s) /\ SemsFit(s)
  BY BetweenIs DEF Between
<1>2. c \in [Sems -> Int] /\ c[o] = s.cnt[o] - 1 /\ \A x \in Sems \ {o} : c[x] = s.cnt[x]
  BY <1>1
<1>3. r = Recounted(s, c)
  BY DEF SemTake, Recounted
<1> HIDE DEF r, c
<1>4. /\ Settled(Notes, Sems, r) /\ Apart(s, r) /\ r.cnt = c /\ r.queue = s.queue
      /\ TopRuns(s) => TopRuns(r)
  BY <1>1, <1>2, <1>3, CountsChange
<1>5. OnlyAt(s, r, o)
  BY <1>1, <1>2, <1>4 DEF OnlyAt
<1>6. Counted(r, o)
  BY <1>1, <1>2, <1>4 DEF Counted
<1>7. Released(s, r) /\ r.current = s.current
  BY <1>4 DEF Released, Apart, Runs, Armed
<1>8. Between(r)
  BY <1>1, <1>4, <1>5, <1>6, <1>7, SemsStillFit, BetweenOn
<1>9. QED
  BY <1>4, <1>8 DEF r, c

LEMMA SignalBetween ==
    ASSUME KernelFits, NEW s, Between(s), NEW o \in Sems
    PROVE  LET r == SemSignalI(s, o) IN
           /\ Between(r) /\ Signalled(s, o, r) /\ OnlyAt(s, r, o) /\ r.cnt[o] = s.cnt[o] + 1
<1> DEFINE r == SemSignalI(s, o)
<1>1. /\ s.cnt \in [Sems -> Int] /\ Counted(s, o) /\ Settled(Notes, Sems, s) /\ SemsFit(s)
      /\ o \in Objects /\ "OK" \in Notes
  BY BetweenIs, SemsAreObjects DEF Between
<1>2. Settled(Notes, Sems, r) /\ Signalled(s, o, r) /\ r.current = s.current
  BY <1>1, Signals
<1> HIDE DEF r
<1>3. Released(s, r) /\ OnlyAt(s, r, o) /\ Counted(r, o) /\ r.cnt[o] = s.cnt[o] + 1
  BY <1>1, <1>2, SignalledReleases
<1>4. Between(r)
  BY <1>1, <1>2, <1>3, SemsStillFit, BetweenOn
<1>5. QED
  BY <1>2, <1>3, <1>4 DEF r

LEMMA ResetBetween ==
    ASSUME KernelFits, NEW s, Between(s), NEW o \in Sems, NEW n \in Nat
    PROVE  LET r == SemResetI(s, o, n) IN
           /\ Between(r) /\ Reset(s, o, n, r) /\ OnlyAt(s, r, o) /\ r.cnt[o] = n
<1> DEFINE r == SemResetI(s, o, n)
<1>1. /\ s.cnt \in [Sems -> Int] /\ Counted(s, o) /\ Settled(Notes, Sems, s) /\ SemsFit(s)
      /\ o \in Objects /\ "RESET" \in Notes
  BY BetweenIs, SemsAreObjects DEF Between
<1>2. Settled(Notes, Sems, r) /\ Reset(s, o, n, r) /\ Counted(r, o)
  BY <1>1, SemResets
<1> HIDE DEF r
<1>3. Released(s, r) /\ OnlyAt(s, r, o) /\ r.cnt[o] = n /\ r.current = s.current
  BY <1>1, <1>2, ResetReleases DEF Reset
<1>4. Between(r)
  BY <1>1, <1>2, <1>3, SemsStillFit, BetweenOn
<1>5. QED
  BY <1>2, <1>3, <1>4 DEF r

LEMMA AddBetween ==
    ASSUME KernelFits, NEW s, Between(s), NEW o \in Sems, NEW n \in Nat
    PROVE  Between(SemAddCounterI(s, o, n))
<1> DEFINE r == SemAddCounterI(s, o, n)
<1>1. /\ s.cnt \in [Sems -> Int] /\ Counted(s, o) /\ Settled(Notes, Sems, s) /\ SemsFit(s)
      /\ o \in Objects /\ "OK" \in Notes
  BY BetweenIs, SemsAreObjects DEF Between
<1>2. /\ Settled(Notes, Sems, r) /\ r.current = s.current
      /\ Released(s, r) /\ OnlyAt(s, r, o) /\ Counted(r, o)
  BY <1>1, SemAdds
<1> HIDE DEF r
<1>3. Between(r)
  BY <1>1, <1>2, SemsStillFit, BetweenOn
<1>4. QED
  BY <1>3 DEF r

\* The current thread goes to sleep on semaphore o.
SleptOn(s, o, r) ==
    /\ Settled(Notes, Sems, r) /\ TopRuns(r) /\ SemsFit(r)
    /\ Asleep(s, r, "WTSEM", o)
    /\ r.cnt = [s.cnt EXCEPT ![o] = @ - 1]
    /\ r.queue = [s.queue EXCEPT ![o] = Append(@, s.current)]

LEMMA SleepBetween ==
    ASSUME KernelFits, NEW s, Between(s), NEW o \in Sems, s.cnt[o] <= 0, k.current # Idle,
           ~Armed(s, s.current), NEW time \in Times \cup {Infinite}, time # Immediate
    PROVE  SleptOn(s, o, SemSleep(s, o, time))
<1> DEFINE r == SemSleep(s, o, time)
<1>1. /\ s.cnt \in [Sems -> Int] /\ Counted(s, o) /\ Settled(Notes, Sems, s) /\ SemsFit(s)
      /\ o \in Objects /\ o \in Notes /\ s.ready # <<>> /\ s.queue \in [Objects -> Seq(Threads)]
  BY BetweenIs, SemsAreObjects DEF Between
<1>2. time = Infinite \/ time \in Nat \ {0}
  BY CommAssumption DEF Infinite, Immediate
<1>3. SleepsOn(Notes, Sems, s, o, r)
  BY <1>1, <1>2, SemSleepsOn
<1> HIDE DEF r
<1>4. OnlyAt(s, r, o)
  BY <1>1, <1>3 DEF OnlyAt, SleepsOn
<1>5. SemsFit(r)
  BY <1>1, <1>3, <1>4, SemsStillFit DEF SleepsOn
<1>6. QED
  BY <1>3, <1>5 DEF r, SleepsOn, SleptOn

\* A binary semaphore is at most free.
Binary(s) == kind = "binary" => \A o \in Sems : s.cnt[o] <= 1

LEMMA WaitingIs ==
    ASSUME NEW kd, NEW c, NEW state, NEW u, WaitsFor(kd, c, state, u)
    PROVE  /\ state \in {"WTSEM", "WTQUEUE", "WTOREVT", "WTANDEVT"}
           /\ state = "WTSEM" => u \in Sems
           /\ state = "WTQUEUE" => u \in Queues /\ u = kd
           /\ c # User
  BY CallNames DEF WaitsFor, WaitState, Takes, Sems

LEMMA TickFits ==
    ASSUME CallInv, KernelFits, UNCHANGED kind, Tick
    PROVE  KernelFits' /\ TimesOut(Sems, k, k')
<1>1. /\ Settled(Notes, Sems, k) /\ k \in KernelStates(Notes, Sems) /\ Placed(k)
      /\ Queue(Pars(k.vt), Threads) /\ "TIMEOUT" \in Notes /\ Sorted(k) /\ OnTime(k)
  BY SemsAreObjects DEF KernelFits, Settled
<1>2. ASSUME NEW t \in Threads, Armed(k, t)
      PROVE  t # k.current /\ (Runs(k, t) \/ FiresIn(Sems, k, t))
  <2>1. t # k.current
    BY <1>2, CallOfCurrent DEF Tick
  <2>2. ASSUME ~Runs(k, t) PROVE FiresIn(Sems, k, t)
    <3>1. WaitsFor(kind, call[t], k.state[t], k.u[t])
      BY <2>2 DEF KernelFits, CallsFit
    <3>2. /\ k.state[t] \in {"WTSEM", "WTQUEUE", "WTOREVT", "WTANDEVT"}
          /\ k.state[t] = "WTSEM" => k.u[t] \in Sems
          /\ k.state[t] = "WTQUEUE" => k.u[t] \in Queues
      BY <3>1, WaitingIs
    <3>3. QED
      BY <2>1, <3>2, SemsAreObjects DEF FiresIn
  <2>3. QED
    BY <2>1, <2>2
<1> DEFINE r == Epilogue(SysTimerHandlerI(k))
<1>3. /\ r \in KernelStates(Notes, Sems) /\ Placed(r) /\ Queue(Pars(r.vt), Threads)
      /\ TimesOut(Sems, k, r) /\ Ordered(r) /\ OnTime(r)
  BY <1>1, <1>2, TickTimesOut
<1>4. k' = r
  BY DEF Tick
<1> HIDE DEF r
<1>5. Settled(Notes, Sems, r) /\ TopRuns(r)
  BY <1>3 DEF Settled, Ordered
<1>6. Released(k, r)
  BY <1>3, Releases
<1>7. ASSUME NEW o \in Sems
      PROVE  Counted(r, o) /\ Above(r.cnt[o]) = Above(k.cnt[o])
             /\ r.cnt[o] \in Int /\ k.cnt[o] \in Int
  <2>1. Counted(k, o) /\ o \in Sems \cap Objects
    BY SemsAreObjects DEF KernelFits, SemsFit
  <2>2. r.cnt \in [Sems -> Int] /\ k.cnt \in [Sems -> Int]
    BY <1>1, <1>3 DEF KernelStates
  <2>3. QED
    BY <2>1, <2>2, <1>3 DEF TimesOut
<1>8. SemsFit(r)
  BY <1>7 DEF SemsFit
<1>9. kind = "binary" => \A o \in Sems : r.cnt[o] <= 1
  BY <1>7 DEF KernelFits, Above
<1>10. UNCHANGED call
  BY DEF Tick
<1>11. QED
  BY <1>3, <1>4, <1>5, <1>6, <1>8, <1>9, <1>10, StepReleases

-----------------------------------------------------------------------------
(* The steps with semaphores.                                              *)

\* A call that only reschedules, if that.
LEMMA StepReturns ==
    ASSUME CallInv, KernelFits, UNCHANGED <<kind, call>>, Between(k'), TopRuns(k'), Binary(k')
    PROVE  KernelFits'
<1>1. Settled(Notes, Sems, k') /\ SemsFit(k') /\ Released(k, k')
  BY DEF Between
<1>2. QED
  BY <1>1, StepReleases DEF Binary

\* A call that ends with the current thread asleep on a semaphore.
LEMMA StepWaits ==
    ASSUME CallInv, KernelFits, UNCHANGED kind, NEW s, Between(s), Binary(s), NEW o \in Sems,
           s.cnt[o] <= 0, k.current # Idle, ~Armed(k, k.current),
           NEW time \in Times \cup {Infinite}, time # Immediate, k' = SemSleep(s, o, time),
           NEW c, c # User, WaitsFor(kind, c, "WTSEM", o), call' = [call EXCEPT ![k.current] = c]
    PROVE  KernelFits'
<1> DEFINE r == SemSleep(s, o, time)
<1>1. /\ s \in KernelStates(Notes, Sems) /\ s.cnt \in [Sems -> Int] /\ Released(k, s)
      /\ s.current = k.current /\ k.current \in Threads
  BY BetweenIs, CallOfCurrent DEF Between
<1>2. ~Armed(s, s.current)
  BY <1>1 DEF Released
<1>3. SleptOn(s, o, r)
  BY <1>2, SleepBetween
<1>4. k' = r
  OBVIOUS
<1> HIDE DEF r
<1>5. \A x \in Sems : r.cnt[x] <= s.cnt[x]
  BY <1>1, <1>3 DEF SleptOn
<1>6. \A x \in Sems : r.cnt[x] \in Int
  BY <1>1, <1>3 DEF SleptOn
<1>7. kind = "binary" => \A x \in Sems : k'.cnt[x] <= 1
  BY <1>1, <1>4, <1>5, <1>6 DEF Binary
<1>8. "WTSEM" \in States \ Runnable
  BY DEF States, WaitStates, Runnable
<1>9. Settled(Notes, Sems, k') /\ TopRuns(k') /\ SemsFit(k') /\ Asleep(s, k', "WTSEM", o)
  BY <1>3, <1>4 DEF SleptOn
<1>10. QED
  BY <1>1, <1>7, <1>8, <1>9, StepSleeps

LEMMA SemWaitFits ==
    ASSUME CallInv, KernelFits, UNCHANGED kind, kind \in {"semaphore", "binary"},
           NEW t, NEW o \in Sems, NEW time \in Times \cup {Infinite}, SemWait(t, o, time)
    PROVE  KernelFits'
<1>1. t = k.current /\ k.current # Idle /\ InUser /\ ~Armed(k, k.current)
  BY CallOfCurrent DEF SemWait, Calls
<1>2. Between(k)
  BY KernelIsBetween
<1>3. k.cnt \in [Sems -> Int] /\ k \in KernelStates(Notes, Sems) /\ TopRuns(k) /\ Binary(k)
  BY <1>2, BetweenIs DEF KernelFits, Binary
<1>4. CASE SemFree(k, o) /\ Returns(SemTake(k, o))
  <2> DEFINE r == SemTake(k, o)
  <2>1. Between(r) /\ TopRuns(r) /\ r.cnt = [k.cnt EXCEPT ![o] = @ - 1]
    BY <1>2, <1>3, <1>4, TakeBetween DEF SemFree
  <2>2. k' = r /\ UNCHANGED call
    BY <1>4 DEF Returns
  <2> HIDE DEF r
  <2>3. Binary(r)
    BY <2>1, <1>3 DEF Binary
  <2>4. QED
    BY <2>1, <2>2, <2>3, StepReturns DEF Binary
<1>5. CASE Returns(k)
  BY <1>2, <1>3, <1>5, StepReturns DEF Returns
<1>6. CASE ~SemFree(k, o) /\ time # Immediate /\ Sleeps(t, SemSleep(k, o, time), SemCall)
  <2>1. k.cnt[o] <= 0 /\ time # Immediate
    BY <1>3, <1>6 DEF SemFree
  <2>2. k' = SemSleep(k, o, time) /\ call' = [call EXCEPT ![k.current] = SemCall]
    BY <1>1, <1>6 DEF Sleeps
  <2>3. WaitsFor(kind, SemCall, "WTSEM", o) /\ SemCall # User
    BY CallNames DEF WaitsFor
  <2>4. QED
    BY <1>1, <1>2, <1>3, <2>1, <2>2, <2>3, StepWaits
<1>7. QED
  BY <1>4, <1>5, <1>6 DEF SemWait, SemCall

\* The current thread is back in its own code.
LEMMA StepAwakes ==
    ASSUME CallInv, KernelFits, UNCHANGED kind, k' = AwakeS(k),
           call' = [call EXCEPT ![k.current] = User]
    PROVE  KernelFits'
<1> DEFINE r == AwakeS(k)
<1>1. /\ Settled(Notes, Sems, r) /\ Unmoved(k, r) /\ TopRuns(r)
      /\ \A x \in Threads : Armed(r, x) <=> (Armed(k, x) /\ x # k.current)
  BY Awakens DEF KernelFits
<1>2. k' = r
  OBVIOUS
<1> HIDE DEF r
<1>3. Released(k, r)
  BY <1>1, Releases
<1>4. SemsFit(r) /\ Binary(r)
  BY <1>1 DEF KernelFits, SemsFit, Counted, Unmoved, Binary
<1>5. ~Armed(k', k.current)
  BY <1>1, <1>2, CallOfCurrent
<1>6. QED
  BY <1>1, <1>2, <1>3, <1>4, <1>5, StepReleases DEF Binary

LEMMA SemSignalFits ==
    ASSUME CallInv, KernelFits, UNCHANGED kind, kind # "binary", NEW t, NEW o \in Sems,
           SemSignalCall(t, o)
    PROVE  KernelFits'
<1> DEFINE r == SemSignal(k, o)
<1>1. /\ Settled(Notes, Sems, k) /\ Counted(k, o) /\ TopRuns(k) /\ o \in Objects /\ "OK" \in Notes
      /\ SemsFit(k) /\ k.cnt \in [Sems -> Int]
  BY KernelIsBetween, BetweenIs, SemsAreObjects DEF KernelFits
<1>2. Settled(Notes, Sems, r) /\ TopRuns(r) /\ Signalled(k, o, r)
  BY <1>1, Signals
<1>3. k' = r /\ UNCHANGED call
  BY DEF SemSignalCall, Returns
<1> HIDE DEF r
<1>4. Released(k, r) /\ OnlyAt(k, r, o) /\ Counted(r, o)
  BY <1>1, <1>2, SignalledReleases
<1>5. SemsFit(r)
  BY <1>1, <1>4, SemsStillFit
<1>6. QED
  BY <1>2, <1>3, <1>4, <1>5, StepReleases

LEMMA SemResetFits ==
    ASSUME CallInv, KernelFits, UNCHANGED kind, NEW t, NEW o \in Sems, NEW n \in Nat,
           kind = "binary" => n <= 1,
           SemReset(t, o, n) \/ SemResetIsr(o, n)
    PROVE  KernelFits'
<1> DEFINE r == SemResetI(k, o, n)
<1>1. Between(k) /\ k.cnt \in [Sems -> Int] /\ Binary(k)
  BY KernelIsBetween, BetweenIs DEF KernelFits, Binary
<1>2. Between(r) /\ OnlyAt(k, r, o) /\ r.cnt[o] = n
  BY <1>1, ResetBetween
<1>3. UNCHANGED call /\ (k' = RescheduleS(r) \/ k' = Epilogue(r))
  BY DEF SemReset, SemResetIsr, Returns
<1> HIDE DEF r
<1>4. kind = "binary" => \A x \in Sems : r.cnt[x] <= 1
  BY <1>1, <1>2 DEF OnlyAt, Binary
<1>5. QED
  BY <1>2, <1>3, <1>4, StepReschedules

LEMMA SemIsrFits ==
    ASSUME CallInv, KernelFits, UNCHANGED kind, kind # "binary", NEW o \in Sems, NEW n \in Nat,
           SemSignalIsr(o) \/ SemAddCounterIsr(o, n)
    PROVE  KernelFits'
<1>1. Between(k)
  BY KernelIsBetween
<1>2. CASE SemSignalIsr(o)
  <2>1. Between(SemSignalI(k, o))
    BY <1>1, SignalBetween
  <2>2. UNCHANGED call /\ k' = Epilogue(SemSignalI(k, o))
    BY <1>2 DEF SemSignalIsr, Returns
  <2>3. QED
    BY <2>1, <2>2, StepReschedules
<1>3. CASE SemAddCounterIsr(o, n)
  <2>1. Between(SemAddCounterI(k, o, n))
    BY <1>1, AddBetween
  <2>2. UNCHANGED call /\ k' = Epilogue(SemAddCounterI(k, o, n))
    BY <1>3 DEF SemAddCounterIsr, Returns
  <2>3. QED
    BY <2>1, <2>2, StepReschedules
<1>4. QED
  BY <1>2, <1>3

LEMMA BSemSignalFits ==
    ASSUME CallInv, KernelFits, UNCHANGED kind, NEW t, NEW o \in Sems,
           BSemSignal(t, o) \/ BSemSignalIsr(o)
    PROVE  KernelFits'
<1> DEFINE r == BSemSignalI(k, o)
<1>1. Between(k) /\ k.cnt \in [Sems -> Int] /\ Binary(k)
  BY KernelIsBetween, BetweenIs DEF KernelFits, Binary
<1>2. Between(r) /\ Binary(r)
  <2>1. CASE k.cnt[o] < 1
    <3> DEFINE z == SemSignalI(k, o)
    <3>1. Between(z) /\ OnlyAt(k, z, o) /\ z.cnt[o] = k.cnt[o] + 1
      BY <1>1, SignalBetween
    <3> HIDE DEF z
    <3>2. Binary(z)
      BY <1>1, <2>1, <3>1 DEF Binary, OnlyAt
    <3>3. r = z
      BY <2>1 DEF BSemSignalI, z
    <3>4. QED
      BY <3>1, <3>2, <3>3
  <2>2. CASE ~(k.cnt[o] < 1)
    BY <1>1, <2>2 DEF BSemSignalI
  <2>3. QED
    BY <2>1, <2>2
<1>3. UNCHANGED call /\ (k' = RescheduleS(r) \/ k' = Epilogue(r))
  BY DEF BSemSignal, BSemSignalIsr, Returns
<1> HIDE DEF r
<1>4. QED
  BY <1>2, <1>3, StepReschedules DEF Binary

LEMMA SemSignalWaitFits ==
    ASSUME CallInv, KernelFits, UNCHANGED kind, kind = "semaphore", NEW t,
           NEW o \in Sems, NEW o2 \in Sems, SemSignalWait(t, o, o2)
    PROVE  KernelFits'
<1> DEFINE up == SemSignalI(k, o)
<1>1. t = k.current /\ k.current # Idle /\ InUser /\ ~Armed(k, k.current)
  BY CallOfCurrent DEF SemSignalWait, Calls
<1>2. Between(up)
  BY KernelIsBetween, SignalBetween
<1>3. k' = (IF SemFree(up, o2) THEN RescheduleS(SemTake(up, o2)) ELSE SemSleep(up, o2, Infinite))
      /\ call' = [call EXCEPT ![t] = IF SemFree(up, o2) THEN User ELSE SemCall]
  BY DEF SemSignalWait, SemSignalThenWait, Sleeps, SemCall
<1> HIDE DEF up
<1>4. up.cnt \in [Sems -> Int]
  BY <1>2, BetweenIs
<1>5. CASE SemFree(up, o2)
  <2> DEFINE r == SemTake(up, o2)
  <2>1. Between(r)
    BY <1>2, <1>5, TakeBetween DEF SemFree
  <2>2. k' = RescheduleS(r)
    BY <1>3, <1>5
  <2>3. UNCHANGED call
    <3>1. call[t] = User /\ call \in [Threads -> CallsOf(kind)]
      BY <1>1 DEF InUser, CallInv
    <3>2. call' = [call EXCEPT ![t] = User]
      BY <1>3, <1>5
    <3>3. QED
      BY <3>1, <3>2
  <2> HIDE DEF r
  <2>4. QED
    BY <2>1, <2>2, <2>3, StepReschedules
<1>6. CASE ~SemFree(up, o2)
  <2>1. k' = SemSleep(up, o2, Infinite) /\ call' = [call EXCEPT ![k.current] = SemCall]
    BY <1>1, <1>3, <1>6
  <2>2. up.cnt[o2] <= 0 /\ Infinite # Immediate /\ Infinite \in Times \cup {Infinite} /\ Binary(up)
    BY <1>4, <1>6 DEF SemFree, Infinite, Immediate, Binary
  <2>3. WaitsFor(kind, SemCall, "WTSEM", o2) /\ SemCall # User
    BY CallNames DEF WaitsFor
  <2>4. QED
    BY <1>1, <1>2, <2>1, <2>2, <2>3, StepWaits
<1>7. QED
  BY <1>5, <1>6

LEMMA SemsNextFits ==
    ASSUME CallInv, KernelFits, UNCHANGED kind, NEW t \in Threads,
           \/ kind = "semaphore" /\ SemNext(t)
           \/ kind = "binary" /\ BSemNext(t)
    PROVE  KernelFits'
<1>1. ASSUME SemWaitBack(t) PROVE KernelFits'
  BY <1>1, StepAwakes DEF SemWaitBack, IsBack, Sleeps
<1>2. Times \subseteq Times \cup {Infinite} /\ Counts \subseteq Nat
  BY CommAssumption
<1>3. CASE kind = "semaphore" /\ SemNext(t)
  <2>1. PICK o \in Sems, o2 \in Sems, n \in Counts, time \in Times :
         \/ SemWait(t, o, time) \/ SemSignalWait(t, o, o2) \/ SemWaitBack(t)
         \/ SemSignalCall(t, o) \/ SemReset(t, o, n)
         \/ SemSignalIsr(o) \/ SemAddCounterIsr(o, n) \/ SemResetIsr(o, n)
    BY <1>3 DEF SemNext, Sems
  <2>2. n \in Nat /\ time \in Times \cup {Infinite}
    BY <1>2
  <2>3. QED
    BY <1>1, <1>3, <2>1, <2>2, SemWaitFits, SemSignalWaitFits, SemSignalFits, SemResetFits, SemIsrFits
<1>4. CASE kind = "binary" /\ BSemNext(t)
  <2>1. PICK o \in Sems, taken \in BOOLEAN, time \in Times :
         \/ BSemWait(t, o) \/ BSemWaitTimeout(t, o, time) \/ SemWaitBack(t)
         \/ BSemReset(t, o, taken) \/ BSemSignal(t, o)
         \/ BSemResetIsr(o, taken) \/ BSemSignalIsr(o)
    BY <1>4 DEF BSemNext, Sems
  <2>2. BSemCount(taken) \in Nat /\ BSemCount(taken) <= 1
    BY DEF BSemCount
  <2>3. CASE BSemReset(t, o, taken) \/ BSemResetIsr(o, taken)
    BY <2>2, <2>3, SemResetFits DEF BSemReset, BSemResetIsr
  <2>4. CASE BSemWait(t, o) \/ BSemWaitTimeout(t, o, time)
    BY <1>2, <1>4, <2>4, SemWaitFits DEF BSemWait, BSemWaitTimeout
  <2>5. QED
    BY <1>1, <2>1, <2>3, <2>4, BSemSignalFits
<1>5. QED
  BY <1>3, <1>4

LEMMA AwakeBetween ==
    ASSUME CallInv, KernelFits
    PROVE  LET s == AwakeS(k) IN
           /\ Between(s) /\ TopRuns(s) /\ Unmoved(k, s) /\ ~Armed(s, s.current)
<1> DEFINE r == AwakeS(k)
<1>1. /\ Settled(Notes, Sems, r) /\ Unmoved(k, r) /\ TopRuns(r)
      /\ \A x \in Threads : Armed(r, x) <=> (Armed(k, x) /\ x # k.current)
  BY Awakens DEF KernelFits
<1> HIDE DEF r
<1>2. Released(k, r)
  BY <1>1, Releases
<1>3. SemsFit(r) /\ r.current = k.current
  BY <1>1 DEF KernelFits, SemsFit, Counted, Unmoved
<1>4. Between(r)
  BY <1>1, <1>2, <1>3 DEF Between
<1>5. ~Armed(r, r.current)
  BY <1>1, <1>3, CallOfCurrent
<1>6. QED
  BY <1>1, <1>4, <1>5 DEF r

LEMMA BoxUnits ==
    ASSUME NEW b \in BoxOps
    PROVE  /\ Takes(b) \in Sems /\ Gives(b) \in Sems /\ b # User
           /\ Takes(b) # Gives(b) /\ Takes(b) \in {Full, Empty} /\ Gives(b) \in {Full, Empty}
  BY CallNames, SemsAreObjects, MBoxesAssumption DEF Takes, Gives

LEMMA BoxCallFits ==
    ASSUME CallInv, KernelFits, UNCHANGED kind, kind = "mailbox",
           NEW t, NEW b \in BoxOps, NEW time \in Times, BoxCall(t, b, time)
    PROVE  KernelFits'
<1> DEFINE o == Takes(b)
           g == Gives(b)
<1>1. t = k.current /\ k.current # Idle /\ InUser /\ ~Armed(k, k.current)
  BY CallOfCurrent DEF BoxCall, Calls
<1>2. Between(k) /\ k.cnt \in [Sems -> Int] /\ TopRuns(k) /\ Binary(k)
  BY KernelIsBetween, BetweenIs DEF KernelFits, Binary
<1>3. o \in Sems /\ g \in Sems /\ b # User
  BY BoxUnits
<1> HIDE DEF o, g
<1>4. CASE SemFree(k, o) /\ Returns(RescheduleS(SemSignalI(SemTake(k, o), g)))
  <2> DEFINE r == SemTake(k, o)
             z == SemSignalI(r, g)
  <2>1. Between(r)
    BY <1>2, <1>3, <1>4, TakeBetween DEF SemFree
  <2> HIDE DEF r
  <2>2. Between(z)
    BY <1>3, <2>1, SignalBetween
  <2>3. k' = RescheduleS(z) /\ UNCHANGED call
    BY <1>4 DEF Returns, r
  <2> HIDE DEF z
  <2>4. QED
    BY <2>2, <2>3, StepReschedules
<1>5. CASE Returns(k)
  BY <1>2, <1>5, StepReturns DEF Returns
<1>6. CASE ~SemFree(k, o) /\ time # Immediate /\ Sleeps(t, SemSleep(k, o, time), b)
  <2>1. k.cnt[o] <= 0 /\ time # Immediate /\ time \in Times \cup {Infinite}
    BY <1>2, <1>3, <1>6 DEF SemFree
  <2>2. k' = SemSleep(k, o, time) /\ call' = [call EXCEPT ![k.current] = b]
    BY <1>1, <1>6 DEF Sleeps
  <2>3. WaitsFor(kind, b, "WTSEM", o)
    BY DEF WaitsFor, o
  <2>4. QED
    BY <1>1, <1>2, <1>3, <2>1, <2>2, <2>3, StepWaits
<1>7. QED
  BY <1>4, <1>5, <1>6 DEF BoxCall, o, g

LEMMA BoxBackFits ==
    ASSUME CallInv, KernelFits, UNCHANGED kind, kind = "mailbox", NEW t, BoxBack(t)
    PROVE  KernelFits'
<1> DEFINE s == AwakeS(k)
           g == Gives(call[t])
<1>1. t = k.current /\ g \in Sems
  BY BoxUnits DEF BoxBack
<1>2. /\ Between(s) /\ ~Armed(s, s.current) /\ s.current = k.current /\ k.current \in Threads
  BY AwakeBetween, CallOfCurrent DEF Unmoved
<1>3. CASE Sleeps(t, s, User)
  BY <1>1, <1>3, StepAwakes DEF Sleeps
<1> HIDE DEF s, g
<1>4. CASE Sleeps(t, RescheduleS(SemSignalI(s, g)), User)
  <2> DEFINE z == SemSignalI(s, g)
             r == RescheduleS(z)
  <2>1. Between(z) /\ Signalled(s, g, z) /\ Settled(Notes, Sems, s) /\ g \in Objects
    BY <1>1, <1>2, SignalBetween, SemsAreObjects DEF Between
  <2> HIDE DEF z
  <2>2. Released(s, z)
    BY <1>1, <2>1, SignalledReleases
  <2>3. /\ Settled(Notes, Sems, r) /\ TopRuns(r) /\ SemsFit(r) /\ Released(k, r)
        /\ SameThreads(z, r)
    BY <2>1, Rescheduled
  <2> HIDE DEF r
  <2>4. Released(z, r)
    BY <2>3, Releases
  <2>5. ~Armed(r, k.current)
    BY <1>2, <2>2, <2>4 DEF Released
  <2>6. k' = r /\ call' = [call EXCEPT ![k.current] = User]
    BY <1>1, <1>4 DEF Sleeps, r, z
  <2>7. QED
    BY <2>3, <2>5, <2>6, StepReleases
<1>5. QED
  BY <1>3, <1>4 DEF BoxBack, s, g

LEMMA BoxInterruptFits ==
    ASSUME CallInv, KernelFits, UNCHANGED kind, kind = "mailbox",
           NEW b \in BoxOps, BoxInterrupt(b)
    PROVE  KernelFits'
<1> DEFINE o == Takes(b)
           g == Gives(b)
<1>2. Between(k) /\ k.cnt \in [Sems -> Int]
  BY KernelIsBetween, BetweenIs
<1>3. o \in Sems /\ g \in Sems
  BY BoxUnits
<1> HIDE DEF o, g
<1>4. CASE k.cnt[o] > 0 /\ Returns(Epilogue(SemSignalI(SemTake(k, o), g)))
  <2> DEFINE r == SemTake(k, o)
             z == SemSignalI(r, g)
  <2>1. Between(r)
    BY <1>2, <1>3, <1>4, TakeBetween
  <2> HIDE DEF r
  <2>2. Between(z)
    BY <1>3, <2>1, SignalBetween
  <2>3. k' = Epilogue(z) /\ UNCHANGED call
    BY <1>4 DEF Returns, r
  <2> HIDE DEF z
  <2>4. QED
    BY <2>2, <2>3, StepReschedules
<1>5. CASE Returns(Epilogue(k))
  BY <1>2, <1>5, StepReschedules DEF Returns
<1>6. k.cnt[o] <= 0 \/ k.cnt[o] > 0
  BY <1>2, <1>3
<1>7. QED
  BY <1>4, <1>5, <1>6 DEF BoxInterrupt, o, g

LEMMA MBResetFits ==
    ASSUME CallInv, KernelFits, UNCHANGED kind, kind = "mailbox", NEW t, MBReset(t)
    PROVE  KernelFits'
<1> DEFINE r == SemResetI(k, Empty, BoxSize)
           z == SemResetI(r, Full, 0)
<1>1. Between(r) /\ Full \in Sems
  BY KernelIsBetween, ResetBetween, SemsAreObjects, MBoxesAssumption
<1> HIDE DEF r
<1>2. Between(z)
  BY <1>1, ResetBetween
<1>3. k' = RescheduleS(z) /\ UNCHANGED call
  BY DEF MBReset, Returns, r
<1> HIDE DEF z
<1>4. QED
  BY <1>2, <1>3, StepReschedules

LEMMA BoxNextFits ==
    ASSUME CallInv, KernelFits, UNCHANGED kind, kind = "mailbox", NEW t \in Threads,
           BoxNext(t, Times)
    PROVE  KernelFits'
<1>1. ASSUME NEW b \in BoxOps, BoxInterrupt(b) \/ \E time \in Times : BoxCall(t, b, time)
      PROVE  KernelFits'
  BY <1>1, BoxInterruptFits, BoxCallFits
<1>2. QED
  BY <1>1, BoxBackFits, MBResetFits, BoxOpsAre
     DEF BoxNext, MBPostI, MBPostAheadI, MBFetchI, MBFetch, MBPost, MBPostAhead

-----------------------------------------------------------------------------
(* The steps with I/O queues.                                              *)

LEMMA QueueIsNoSem ==
    ASSUME CallInv, kind \in Queues
    PROVE  /\ kind \in Objects /\ kind \in Notes /\ kind \notin Sems /\ kind # "binary"
           /\ WaitsFor(kind, QueueCall, "WTQUEUE", kind) /\ QueueCall # User
           /\ \A t \in Threads : job[t] # NoJob => job[t].of = kind /\ job[t].time \in Times
<1>1. kind \notin Others
  BY CommAssumption DEF CallInv
<1>2. QED
  BY <1>1, SemsAreObjects, CallNames DEF CallInv, Jobs, WaitsFor, Others

\* The semaphores are left alone when the queue of another object changes.
LEMMA SemsUntouched ==
    ASSUME NEW s, NEW r, SemsFit(s), r.cnt = s.cnt, NEW o \in Objects, o \notin Sems, NEW q,
           s.queue \in [Objects -> Seq(Threads)], r.queue = [s.queue EXCEPT ![o] = q]
    PROVE  SemsFit(r)
<1> SUFFICES ASSUME NEW x \in Sems PROVE Counted(r, x)
  BY DEF SemsFit
<1>1. x \in Objects /\ x # o /\ Counted(s, x)
  BY SemsAreObjects DEF SemsFit
<1>2. r.queue[x] = s.queue[x]
  BY <1>1
<1>3. QED
  BY <1>1, <1>2 DEF Counted

\* qwait(): the current thread goes to sleep in the queue of its transfer.
LEMMA StepQueues ==
    ASSUME CallInv, KernelFits, UNCHANGED kind, kind \in Queues, NEW s, Between(s),
           k.current # Idle, ~Armed(s, s.current), NEW time \in Times, time # Immediate,
           k' = QWait(s, kind, time), call' = [call EXCEPT ![k.current] = QueueCall]
    PROVE  /\ KernelFits' /\ Asleep(s, k', "WTQUEUE", kind) /\ k'.cnt = s.cnt
           /\ k'.queue = [s.queue EXCEPT ![kind] = Append(@, s.current)]
<1> DEFINE m == [s EXCEPT !.u[s.current] = kind, !.queue[kind] = Append(@, s.current)]
           r == GoSleepTimeoutS(m, "WTQUEUE", time)
<1>1. /\ s \in KernelStates(Notes, Sems) /\ s.cnt \in [Sems -> Int] /\ Released(k, s)
      /\ s.queue \in [Objects -> Seq(Threads)] /\ s.ready # <<>> /\ s.current \in Threads
      /\ s.current = k.current /\ Settled(Notes, Sems, s) /\ SemsFit(s)
  BY BetweenIs DEF Between
<1>2. time = Infinite \/ time \in Nat \ {0}
  BY CommAssumption DEF Immediate
<1>3. kind \in Objects /\ kind \in Notes /\ kind \notin Sems /\ kind # "binary"
  BY QueueIsNoSem
<1>4. QueuedUp(s, m, kind) /\ m.cnt = s.cnt
  BY <1>1, <1>3 DEF QueuedUp, KernelStates
<1>5. m \in KernelStates(Notes, Sems)
  <2>1. Append(s.queue[kind], s.current) \in Seq(Threads)
    BY <1>1, <1>3
  <2>2. QED
    BY <1>1, <1>3, <2>1 DEF KernelStates
<1>6. k' = r
  BY DEF QWait
<1> HIDE DEF m
<1>7. "WTQUEUE" \in WaitStates /\ "WTQUEUE" \in States \ Runnable
  BY DEF States, WaitStates, Runnable
<1>8. AboutToSleep(s, m, "WTQUEUE", kind)
  BY <1>1, <1>3, <1>4, <1>7, QueuesUp
<1>9. /\ Settled(Notes, Sems, r) /\ TopRuns(r) /\ Asleep(s, r, "WTQUEUE", kind)
      /\ r.queue = m.queue /\ r.cnt = m.cnt
  BY <1>1, <1>2, <1>3, <1>5, <1>7, <1>8, SleepPlaces
<1> HIDE DEF r
<1>10. r.queue = [s.queue EXCEPT ![kind] = Append(@, s.current)] /\ r.cnt = s.cnt
  BY <1>4, <1>9 DEF QueuedUp
<1>11. SemsFit(r)
  BY <1>1, <1>3, <1>10, SemsUntouched
<1>12. WaitsFor(kind, QueueCall, "WTQUEUE", kind) /\ QueueCall # User
  BY QueueIsNoSem
<1>13. KernelFits'
  BY <1>1, <1>3, <1>6, <1>7, <1>9, <1>11, <1>12, StepSleeps
<1>14. QED
  BY <1>6, <1>9, <1>10, <1>13

\* Who waits in the queue of the behaviour, and who waits in another.
LEMMA WhoQueues ==
    ASSUME CallInv, KernelFits
    PROVE  /\ \A q \in Queues : \A t \in ToSet(k.queue[q]) :
                /\ q = kind /\ t \in Threads /\ ~Runs(k, t) /\ k.state[t] = "WTQUEUE" /\ k.u[t] = q
                /\ call[t] = QueueCall /\ job[t] # NoJob /\ job[t].of = kind
           /\ \A q \in Queues : k.queue[q] # <<>> => q = kind
<1>1. k \in KernelStates(Notes, Sems) /\ Placed(k) /\ k.queue \in [Objects -> Seq(Threads)]
  BY DEF KernelFits, Settled, KernelStates
<1>2. ASSUME NEW q \in Queues, NEW t \in ToSet(k.queue[q])
      PROVE  /\ q = kind /\ t \in Threads /\ ~Runs(k, t) /\ k.state[t] = "WTQUEUE" /\ k.u[t] = q
             /\ call[t] = QueueCall /\ job[t] # NoJob /\ job[t].of = kind
  <2>1. q \in Objects /\ t \in Threads /\ q \notin Sems
    BY <1>1, SemsAreObjects, QueueSet
  <2>2. k.state[t] \in WaitStates /\ k.u[t] = q
    BY <1>1, <2>1 DEF Placed, ThreadPlaced
  <2>3. ~Runs(k, t)
    BY <2>2 DEF Runs, Runnable, WaitStates
  <2>4. WaitsFor(kind, call[t], k.state[t], k.u[t])
    BY <2>1, <2>3 DEF KernelFits, CallsFit
  <2>5. k.state[t] = "WTQUEUE" /\ q = kind
    BY <2>1, <2>2, <2>4, WaitingIs DEF WaitStates
  <2>6. call[t] = QueueCall
    <3>1. call[t] \in {User, QueueCall}
      BY <2>1, <2>5, KindsOfCalls DEF CallInv
    <3>2. QED
      BY <3>1, <2>1, <2>3 DEF KernelFits, CallsFit
  <2>7. job[t] # NoJob /\ job[t].of = kind
    BY <2>1, <2>6, CallNames DEF CallInv
  <2>8. QED
    BY <2>1, <2>2, <2>3, <2>5, <2>6, <2>7
<1>3. ASSUME NEW q \in Queues, k.queue[q] # <<>> PROVE q = kind
  <2>1. k.queue[q] \in Seq(Threads)
    BY <1>1, SemsAreObjects
  <2>2. PICK t : t \in ToSet(k.queue[q])
    BY <1>3, <2>1, QueueSet
  <2>3. QED
    BY <1>2, <2>2
<1>4. QED
  BY <1>2, <1>3

\* Of the queue of o, the first thread is let go.
FirstGone(U, C, s, o, r) ==
    LET w == Head(s.queue[o]) IN
    /\ w \in ToSet(s.queue[o]) /\ ~Runs(s, w) /\ Settled(U, C, r) /\ LetGone(s, r, {w}, "OK")
    /\ r.current = s.current /\ r.cnt = s.cnt /\ r.queue = [s.queue EXCEPT ![o] = Tail(@)]

LEMMA FirstLeaves ==
    ASSUME NEW U, NEW C, NEW s, Settled(U, C, s), "OK" \in U, NEW o \in Objects,
           s.queue[o] # <<>>
    PROVE  FirstGone(U, C, s, o, WakeOne(s, o))
<1> DEFINE w == Head(s.queue[o])
           p == Tail(s.queue[o])
           c == s.cnt
           b == Requeued(s, c, o, p)
           d == WakeupS(b, w, "OK")
           r == ReadyWith(b, w, "OK")
<1>1. /\ s \in KernelStates(U, C) /\ Placed(s) /\ s.queue \in [Objects -> Seq(Threads)]
      /\ s.cnt \in [C -> Int]
  BY DEF Settled, KernelStates
<1>c. c \in [C -> Int]
  BY <1>1
<1>2. Queue(s.queue[o], Threads)
  BY <1>1 DEF Placed, QueuesSound
<1>3. /\ Queue(p, Threads) /\ w \in ToSet(s.queue[o])
      /\ ToSet(p) = ToSet(s.queue[o]) \ {w}
  BY <1>2, TailQueue
<1>4. WakeOne(s, o) = r
  <2>1. b = [s EXCEPT !.queue[o] = Tail(@)]
    BY <1>1 DEF Requeued, KernelStates
  <2>2. QED
    BY <2>1 DEF WakeOne
<1> HIDE DEF w, p, c
<1>5. /\ w \in Threads /\ ~Runs(s, w) /\ s.state[w] \in WaitStates /\ s.u[w] = o
      /\ Settled(U, C, r) /\ Left(s, r, c, o, p, w, "OK") /\ r.current = s.current
      /\ TopRuns(s) => Settled(U, C, d) /\ TopRuns(d) /\ Left(s, d, c, o, p, w, "OK")
  BY <1>3, <1>c, LeavesQueue
<1> HIDE DEF r
<1>6. LetGone(s, r, {w}, "OK") /\ r.cnt = s.cnt /\ r.queue = [s.queue EXCEPT ![o] = Tail(@)]
  BY <1>1, <1>5 DEF Left, p, c
<1>7. QED
  BY <1>3, <1>4, <1>5, <1>6 DEF FirstGone, w

LEMMA WakesOne ==
    ASSUME CallInv, KernelFits, kind \in Queues
    PROVE  LET r == WakeOne(k, kind) IN
           /\ Between(r) /\ r.cnt = k.cnt
           /\ IF k.queue[kind] = <<>> THEN r = k ELSE FirstGone(Notes, Sems, k, kind, r)
<1> DEFINE r == WakeOne(k, kind)
<1>1. Settled(Notes, Sems, k) /\ k.queue \in [Objects -> Seq(Threads)] /\ "OK" \in Notes /\ SemsFit(k)
  BY SemsAreObjects DEF KernelFits, Settled, KernelStates
<1>2. kind \in Objects /\ kind \notin Sems
  BY QueueIsNoSem
<1>3. Between(k)
  BY KernelIsBetween
<1>4. CASE k.queue[kind] = <<>>
  BY <1>3, <1>4 DEF WakeOne
<1>5. CASE k.queue[kind] # <<>>
  <2>1. FirstGone(Notes, Sems, k, kind, r)
    BY <1>1, <1>2, <1>5, FirstLeaves
  <2> HIDE DEF r
  <2>2. Settled(Notes, Sems, r) /\ r.current = k.current /\ r.cnt = k.cnt
    BY <2>1 DEF FirstGone
  <2>3. Released(k, r)
    BY <2>1, LetGoneReleases DEF FirstGone
  <2>4. SemsFit(r)
    BY <1>1, <1>2, <2>1, SemsUntouched DEF FirstGone
  <2>5. Between(r)
    BY <2>2, <2>3, <2>4 DEF Between
  <2>6. QED
    BY <1>5, <2>1, <2>2, <2>5 DEF r
<1>6. QED
  BY <1>4, <1>5

\* Resetting it empties it.
LEMMA QueueEmpties ==
    ASSUME CallInv, KernelFits, kind \in Queues
    PROVE  LET r == ReadyAll([k EXCEPT !.queue[kind] = <<>>], k.queue[kind]) IN
           Between(r) /\ r.cnt = k.cnt /\ r.queue[kind] = <<>>
<1> DEFINE q == k.queue[kind]
           b == Requeued(k, k.cnt, kind, <<>>)
           r == ReadyAll(b, q)
<1>1. /\ k \in KernelStates(Notes, Sems) /\ Placed(k) /\ k.queue \in [Objects -> Seq(Threads)]
      /\ Settled(Notes, Sems, k) /\ k.cnt \in [Sems -> Int] /\ "RESET" \in Notes /\ SemsFit(k)
  BY SemsAreObjects DEF KernelFits, Settled, KernelStates
<1>2. kind \in Objects /\ kind \notin Sems
  BY QueueIsNoSem
<1>3. Queue(q, Threads)
  BY <1>1, <1>2 DEF Placed, QueuesSound
<1>4. b = [k EXCEPT !.queue[kind] = <<>>]
  BY <1>1 DEF Requeued, KernelStates
<1>5. /\ Settled(Notes, Sems, r) /\ LetGone(k, r, ToSet(q), "RESET") /\ r.current = k.current
      /\ r.cnt = k.cnt /\ r.queue = [k.queue EXCEPT ![kind] = <<>>]
      /\ \A t \in ToSet(q) : ~Runs(k, t)
  BY <1>1, <1>2, <1>3, AllLetGo
<1>6. r = ReadyAll([k EXCEPT !.queue[kind] = <<>>], k.queue[kind])
  BY <1>4
<1> HIDE DEF r, q
<1>7. Released(k, r)
  BY <1>5, LetGoneReleases
<1>8. SemsFit(r) /\ r.queue[kind] = <<>>
  BY <1>1, <1>2, <1>5, SemsUntouched
<1>9. Between(r)
  BY <1>5, <1>7, <1>8 DEF Between
<1>10. QED
  BY <1>5, <1>6, <1>8, <1>9

\* A thread asleep in a transfer was willing to wait.
Patient == \A t \in Threads : call[t].op = "queue" => job[t].time # Immediate

LEMMA PatientStays ==
    ASSUME CallInv, Patient, UNCHANGED kind, NEW t \in Threads,
           CallsOnly(t) \/ (kind \in Queues /\ QueueNext(t, kind, Times, Lengths))
    PROVE  Patient'
<1>1. call \in [Threads -> CallsOf(kind)] /\ job \in [Threads -> {NoJob} \cup Jobs]
  BY DEF CallInv
<1>2. ASSUME \A x \in Threads \ {t} : call'[x] = call[x] /\ job'[x] = job[x],
             call'[t].op = "queue" => job'[t].time # Immediate
      PROVE  Patient'
  BY <1>2 DEF Patient
<1>3. CASE CallsOnly(t)
  BY <1>1, <1>3 DEF Patient, CallsOnly
<1>5. ASSUME NEW n, NEW time, TransferStart(t, kind, n, time) PROVE Patient'
  <2>1. /\ call'[t].op # "queue" /\ UNCHANGED call
        /\ \A x \in Threads \ {t} : job'[x] = job[x]
    BY <1>1, <1>5, CallNames DEF TransferStart, Calls, InUser
  <2>2. QED
    BY <1>2, <2>1
<1>6. ASSUME Transfer(t) PROVE Patient'
  <2>1. call[t] = User
    BY <1>6 DEF Transfer, Calls, InUser
  <2>2. CASE UNCHANGED call /\ \E j : job' = [job EXCEPT ![t] = j]
    <3>1. call'[t].op # "queue" /\ \A x \in Threads \ {t} : call'[x] = call[x] /\ job'[x] = job[x]
      BY <1>1, <2>1, <2>2, CallNames
    <3>2. QED
      BY <1>2, <3>1
  <2>3. CASE job[t].time # Immediate /\ UNCHANGED job /\ call' = [call EXCEPT ![t] = QueueCall]
    <3>1. /\ \A x \in Threads \ {t} : call'[x] = call[x] /\ job'[x] = job[x]
          /\ job'[t].time # Immediate
      BY <1>1, <2>3
    <3>2. QED
      BY <1>2, <3>1
  <2>4. QED
    BY <1>6, <2>2, <2>3 DEF Transfer, Move, GivesUp, Returns, Sleeps, queueVars, QueueCall
<1>7. ASSUME TransferBack(t) PROVE Patient'
  <2>1. call[t].op = "queue"
    BY <1>7 DEF TransferBack, IsBack
  <2>2. CASE call' = [call EXCEPT ![t] = User] /\ \E j : job' = [job EXCEPT ![t] = j]
    <3>1. call'[t].op # "queue" /\ \A x \in Threads \ {t} : call'[x] = call[x] /\ job'[x] = job[x]
      BY <1>1, <2>2, CallNames
    <3>2. QED
      BY <1>2, <3>1
  <2>3. CASE UNCHANGED job /\ call' = [call EXCEPT ![t] = QueueCall]
    <3>1. /\ \A x \in Threads \ {t} : call'[x] = call[x] /\ job'[x] = job[x]
          /\ job'[t].time # Immediate
      BY <1>1, <2>1, <2>3 DEF Patient
    <3>2. QED
      BY <1>2, <3>1
  <2>4. QED
    BY <1>7, <2>2, <2>3 DEF TransferBack, Move, GivesUp, Sleeps, queueVars, QueueCall
<1>8. ASSUME Serve(kind) \/ QueueReset(kind) PROVE Patient'
  BY <1>8 DEF Serve, QueueReset, Returns, Patient
<1>9. QED
  BY <1>3, <1>5, <1>6, <1>7, <1>8
     DEF QueueNext, IQPutI, OQGetI, IQResetI, OQResetI, IQGetTimeout, OQPutTimeout,
         IQReadTimeout, OQWriteTimeout

LEMMA QueueNextFits ==
    ASSUME CallInv, Patient, KernelFits, UNCHANGED kind, kind \in Queues, NEW t \in Threads,
           QueueNext(t, kind, Times, Lengths)
    PROVE  KernelFits'
<1>1. Between(k) /\ TopRuns(k) /\ Binary(k)
  BY KernelIsBetween DEF KernelFits, Binary
<1>2. kind # "binary" /\ \A x \in Threads : job[x] # NoJob => job[x].of = kind /\ job[x].time \in Times
  BY QueueIsNoSem
<1>3. ASSUME Returns(k) PROVE KernelFits'
  BY <1>1, <1>3, StepReturns DEF Returns
<1>4. CASE Transfer(t)
  <2>1. t = k.current /\ k.current # Idle /\ InUser /\ ~Armed(k, k.current)
    BY <1>4, CallOfCurrent DEF Transfer, Calls
  <2>2. ASSUME job[t].time # Immediate, Sleeps(t, QWait(k, job[t].of, job[t].time), QueueCall)
        PROVE  KernelFits'
    <3>1. job[t].of = kind /\ job[t].time \in Times
      BY <1>2, <1>4 DEF Transfer
    <3>2. k' = QWait(k, kind, job[t].time) /\ call' = [call EXCEPT ![k.current] = QueueCall]
      BY <2>1, <2>2, <3>1 DEF Sleeps
    <3>3. QED
      BY <1>1, <2>1, <2>2, <3>1, <3>2, StepQueues
  <2>3. QED
    BY <1>3, <1>4, <2>2 DEF Transfer, QueueCall
<1>5. CASE TransferBack(t)
  <2> DEFINE s == AwakeS(k)
  <2>1. t = k.current /\ call[t].op = "queue"
    BY <1>5 DEF TransferBack, IsBack
  <2>2. job[t] # NoJob /\ k.current # Idle
    <3>1. call[t] # User
      BY <2>1, CallNames
    <3>2. QED
      BY <2>1, <3>1, CallOfCurrent DEF CallInv
  <2>3. Between(s) /\ ~Armed(s, s.current)
    BY AwakeBetween
  <2>4. CASE Sleeps(t, s, User)
    BY <2>1, <2>4, StepAwakes DEF Sleeps
  <2> HIDE DEF s
  <2>5. job[t].of = kind /\ job[t].time \in Times
    BY <1>2, <2>2
  <2>6. CASE k.u[t] = "OK" /\ ~Available(t) /\ Sleeps(t, QWait(s, job[t].of, job[t].time), QueueCall)
    <3>1. k' = QWait(s, kind, job[t].time) /\ call' = [call EXCEPT ![k.current] = QueueCall]
      BY <2>1, <2>5, <2>6 DEF Sleeps
    <3>2. job[t].time # Immediate
      BY <2>1, CallOfCurrent DEF Patient
    <3>3. QED
      BY <2>2, <2>3, <2>5, <3>1, <3>2, StepQueues
  <2>7. QED
    BY <1>5, <2>4, <2>6 DEF TransferBack, QueueCall, s
<1>6. CASE Serve(kind)
  <2> DEFINE r == WakeOne(k, kind)
  <2>1. Between(r)
    BY WakesOne
  <2>2. UNCHANGED call /\ (k' = Epilogue(k) \/ k' = Epilogue(r))
    BY <1>6 DEF Serve, Returns
  <2> HIDE DEF r
  <2>3. QED
    BY <1>1, <1>2, <2>1, <2>2, StepReschedules
<1>7. CASE QueueReset(kind)
  <2> DEFINE r == ReadyAll([k EXCEPT !.queue[kind] = <<>>], k.queue[kind])
  <2>1. Between(r)
    BY QueueEmpties
  <2>2. UNCHANGED call /\ k' = Epilogue(r)
    BY <1>7 DEF QueueReset, Returns, ReadyAll
  <2> HIDE DEF r
  <2>3. QED
    BY <1>2, <2>1, <2>2, StepReschedules
<1>8. CASE \E n, time : TransferStart(t, kind, n, time)
  <2>1. UNCHANGED <<k, call>>
    BY <1>8 DEF TransferStart
  <2>2. QED
    BY <1>3, <2>1 DEF Returns
<1>9. QED
  BY <1>4, <1>5, <1>6, <1>7, <1>8
     DEF QueueNext, IQPutI, OQGetI, IQResetI, OQResetI, IQGetTimeout, OQPutTimeout,
         IQReadTimeout, OQWriteTimeout

(* Nobody is forgotten.                                                    *)

Enough == k.queue[kind] # <<>> => Cardinality(LetGo(kind)) >= ring[kind].counter

LEMMA EnoughIs ==
    ASSUME CallInv, KernelFits
    PROVE  NobodyForgotten <=> (kind \in Queues => Enough)
  BY WhoQueues DEF NobodyForgotten, Enough

LEMMA LetGoCounts ==
    /\ IsFiniteSet(LetGo(kind)) /\ Cardinality(LetGo(kind)) \in Nat
    /\ \A t : t \in LetGo(kind) <=> (/\ t \in Threads /\ call[t].op = "queue" /\ job[t].of = kind
                                     /\ Runs(k, t) /\ k.u[t] = "OK")
    /\ \A w : Cardinality(LetGo(kind) \cup {w})
                = IF w \in LetGo(kind) THEN Cardinality(LetGo(kind)) ELSE Cardinality(LetGo(kind)) + 1
    /\ \A w \in LetGo(kind) : Cardinality(LetGo(kind) \ {w}) = Cardinality(LetGo(kind)) - 1
<1>1. IsFiniteSet(LetGo(kind))
  BY CommAssumption, FS_Subset DEF LetGo
<1>2. QED
  BY <1>1, FS_CardinalityType, FS_AddElement, FS_RemoveElement DEF LetGo, Runs, Runnable

LEMMA SomeCount ==
    ASSUME NEW W \in SUBSET Threads
    PROVE  Cardinality(W) \in Nat
  BY CommAssumption, FS_Subset, FS_CardinalityType

\* A queue that only lets threads go gets no longer.
LEMMA QueueShrinks ==
    ASSUME CallInv', KernelFits', KernelFits, UNCHANGED kind, kind \in Queues, Released(k, k'),
           k.queue[kind] = <<>>
    PROVE  k'.queue[kind] = <<>>
<1> SUFFICES ASSUME k'.queue[kind] # <<>> PROVE FALSE
  OBVIOUS
<1>1. /\ k \in KernelStates(Notes, Sems) /\ Placed(k) /\ k.queue \in [Objects -> Seq(Threads)]
      /\ k' \in KernelStates(Notes, Sems) /\ Placed(k') /\ k'.queue \in [Objects -> Seq(Threads)]
  BY DEF KernelFits, Settled, KernelStates
<1>2. kind \in Objects
  BY SemsAreObjects
<1>a. k'.queue[kind] \in Seq(Threads) /\ k.queue[kind] \in Seq(Threads)
  BY <1>1, <1>2
<1>b. ToSet(k'.queue[kind]) # {}
  BY <1>a, QueueSet
<1>3. PICK t : t \in ToSet(k'.queue[kind])
  BY <1>b
<1>4. t \in Threads
  BY <1>a, <1>3, QueueSet
<1>5. k'.state[t] \in WaitStates /\ k'.u[t] = kind
  BY <1>1, <1>2, <1>3, <1>4 DEF Placed, ThreadPlaced
<1>6. ~Runs(k', t)
  BY <1>5 DEF Runs, Runnable, WaitStates
<1>7. k.state[t] \in WaitStates /\ k.u[t] = kind
  BY <1>4, <1>5, <1>6 DEF Released
<1>8. t \in ToSet(k.queue[kind])
  BY <1>1, <1>2, <1>4, <1>7 DEF Placed, ThreadPlaced
<1>9. QED
  BY <1>a, <1>8, QueueSet

\* The same threads have been let go, and there is no more to take.
LEMMA StillEnough ==
    ASSUME Enough, UNCHANGED kind, k.queue[kind] = <<>> => k'.queue[kind] = <<>>,
           \A t \in Threads :
               (call'[t].op = "queue" /\ job'[t].of = kind /\ Runs(k', t) /\ k'.u[t] = "OK")
                  <=> (call[t].op = "queue" /\ job[t].of = kind /\ Runs(k, t) /\ k.u[t] = "OK"),
           ring[kind].counter \in Int, ring'[kind].counter \in Int,
           ring'[kind].counter <= ring[kind].counter
    PROVE  Enough'
<1>1. LetGo(kind)' = LetGo(kind)
  BY DEF LetGo, Runs, Runnable
<1>2. QED
  BY <1>1, LetGoCounts DEF Enough

LEMMA CounterIsInt ==
    ASSUME RingsOK, RingsOK', UNCHANGED kind, kind \in Queues
    PROVE  ring[kind].counter \in Int /\ ring'[kind].counter \in Int
  BY DEF RingsOK, Rings

LEMMA PutCounts ==
    ASSUME RingsOK, NEW q \in Queues, NEW count \in Int
    PROVE  /\ \A b : Put(q, b, count) => ring'[q].counter = ring[q].counter + count
           /\ Get(q, count) => ring'[q].counter = ring[q].counter + count
<1> DEFINE R == ring[q]
           n == R.counter + count
           p == NextPlace(R.wr)
           d == NextPlace(R.rd)
<1>1. R \in Rings /\ ring \in [Queues -> Rings]
  BY DEF RingsOK
<1>2. ASSUME NEW b, Put(q, b, count) PROVE ring'[q].counter = n
  <2> DEFINE r == [R EXCEPT !.counter = n, !.wr = p, !.buffer[R.wr] = b]
  <2>1. ring' = [ring EXCEPT ![q] = r]
    BY <1>2 DEF Put
  <2> HIDE DEF R, n, p
  <2>2. r.counter = n
    BY <1>1 DEF Rings
  <2> HIDE DEF r
  <2>3. QED
    BY <1>1, <2>1, <2>2
<1>3. ASSUME Get(q, count) PROVE ring'[q].counter = n
  <2> DEFINE r == [R EXCEPT !.counter = n, !.rd = d]
  <2>1. ring' = [ring EXCEPT ![q] = r]
    BY <1>3 DEF Get
  <2> HIDE DEF R, n, d
  <2>2. r.counter = n
    BY <1>1 DEF Rings
  <2> HIDE DEF r
  <2>3. QED
    BY <1>1, <2>1, <2>2
<1>4. QED
  BY <1>2, <1>3

LEMMA MoveCounts ==
    ASSUME RingInv, NEW t \in Threads, kind \in Queues, job[t] # NoJob, Move(t)
    PROVE  /\ ring'[kind].counter = ring[kind].counter - 1
           /\ \A x \in Threads \ {t} : job'[x] = job[x]
<1>1. job[t].of = kind /\ job \in [Threads -> {NoJob} \cup Jobs] /\ ring \in [Queues -> Rings]
  BY DEF RingInv, CallInv, RingsOK
<1>2. Get(kind, -1) \/ \E b : Put(kind, b, -1)
  BY <1>1 DEF Move
<1>3. ring'[kind].counter = ring[kind].counter + (-1) /\ ring[kind].counter \in Int
  BY <1>2, PutCounts DEF RingInv, RingsOK, Rings
<1>4. \E j : job' = [job EXCEPT ![t] = j]
  BY DEF Move
<1>5. QED
  BY <1>1, <1>3, <1>4

LEMMA TickEnough ==
    ASSUME RingInv, KernelFits, Enough, UNCHANGED <<kind, queueVars>>, kind \in Queues, Tick,
           CallInv'
    PROVE  Enough'
<1>1. KernelFits' /\ TimesOut(Sems, k, k') /\ UNCHANGED call
  BY TickFits DEF RingInv, Tick
<1>2. k.queue[kind] = <<>> => k'.queue[kind] = <<>>
  BY <1>1, QueueShrinks, Releases
<1>3. ASSUME NEW t \in Threads
      PROVE  (Runs(k', t) /\ k'.u[t] = "OK") <=> (Runs(k, t) /\ k.u[t] = "OK")
  BY <1>1 DEF TimesOut
<1>4. UNCHANGED <<job, ring>> /\ ring[kind].counter \in Int
  BY DEF RingInv, RingsOK, Rings, queueVars
<1>5. QED
  BY <1>1, <1>2, <1>3, <1>4, StillEnough

LEMMA ServeEnough ==
    ASSUME RingInv, RingInv', KernelFits, KernelFits', Enough, UNCHANGED kind, kind \in Queues,
           Serve(kind)
    PROVE  Enough'
<1>1. UNCHANGED <<job, call>> /\ ring[kind].counter \in Int /\ ring \in [Queues -> Rings]
  BY CounterIsInt DEF RingInv, RingsOK, Serve, Returns
<1>2. CASE k' = Epilogue(k) /\ UNCHANGED ring
  <2>1. SameThreads(k, k')
    BY <1>2, Resumes DEF KernelFits
  <2>2. k'.queue = k.queue
    BY <2>1 DEF SameThreads, Kept
  <2>3. QED
    BY <1>1, <1>2, <2>1, <2>2, StillEnough DEF SameThreads
<1>3. CASE k' = Epilogue(WakeOne(k, kind)) /\ ring'[kind].counter = ring[kind].counter + 1
  <2> DEFINE r == WakeOne(k, kind)
             w == Head(k.queue[kind])
  <2>1. /\ Between(r) /\ r.cnt = k.cnt
        /\ IF k.queue[kind] = <<>> THEN r = k ELSE FirstGone(Notes, Sems, k, kind, r)
    BY WakesOne DEF RingInv
  <2>2. SameThreads(r, k')
    BY <1>3, <2>1, Rescheduled
  <2>3. k'.queue = r.queue
    BY <2>2 DEF SameThreads, Kept
  <2> HIDE DEF r
  <2>4. CASE k.queue[kind] = <<>>
    BY <2>1, <2>3, <2>4 DEF Enough
  <2>5. CASE k.queue[kind] # <<>>
    <3>1. /\ w \in ToSet(k.queue[kind]) /\ LetGone(k, r, {w}, "OK")
      BY <2>1, <2>5 DEF FirstGone
    <3>2. /\ w \in Threads /\ ~Runs(k, w) /\ call[w] = QueueCall /\ job[w].of = kind
      BY <3>1, WhoQueues DEF RingInv
    <3> HIDE DEF w
    <3>3. ASSUME NEW t \in Threads
          PROVE  (Runs(k', t) /\ k'.u[t] = "OK") <=> ((Runs(k, t) /\ k.u[t] = "OK") \/ t = w)
      BY <2>2, <3>1 DEF LetGone, SameThreads
    <3>4. LetGo(kind)' = LetGo(kind) \cup {w} /\ w \notin LetGo(kind)
      BY <1>1, <3>2, <3>3, CallNames DEF LetGo, Runs, Runnable
    <3>5. Cardinality(LetGo(kind)') = Cardinality(LetGo(kind)) + 1 /\ Cardinality(LetGo(kind)) \in Nat
      BY <3>4, LetGoCounts
    <3>6. ring'[kind].counter = ring[kind].counter + 1
      BY <1>3
    <3>7. QED
      BY <1>1, <2>5, <3>5, <3>6 DEF Enough
  <2>6. QED
    BY <2>4, <2>5
<1>4. ASSUME Get(kind, 1) \/ \E b : Put(kind, b, 1)
      PROVE  ring'[kind].counter = ring[kind].counter + 1
  BY <1>4, PutCounts DEF RingInv
<1>5. QED
  BY <1>2, <1>3, <1>4 DEF Serve, Returns

LEMMA TransferEnough ==
    ASSUME RingInv, RingInv', KernelFits, KernelFits', Enough, UNCHANGED kind, kind \in Queues,
           NEW t \in Threads, Transfer(t)
    PROVE  Enough'
<1>1. /\ ring[kind].counter \in Int /\ ring'[kind].counter \in Int /\ job[t] # NoJob
      /\ job[t].of = kind /\ call[t] = User /\ job \in [Threads -> {NoJob} \cup Jobs]
  BY CounterIsInt DEF RingInv, CallInv, Transfer, Calls, InUser
<1>2. CASE Returns(k) /\ (Move(t) \/ GivesUp(t))
  <2>1. \A x \in Threads \ {t} : job'[x] = job[x]
    BY <1>1, <1>2, MoveCounts DEF GivesUp
  <2>2. ring'[kind].counter <= ring[kind].counter
    BY <1>1, <1>2, MoveCounts DEF GivesUp
  <2>3. call'[t].op # "queue" /\ call[t].op # "queue" /\ UNCHANGED <<call, k>>
    BY <1>1, <1>2, CallNames DEF Returns
  <2>4. QED
    BY <1>1, <2>1, <2>2, <2>3, StillEnough
<1>3. CASE ~Available(t) /\ UNCHANGED ring
  <2>1. ring'[kind].counter <= 0
    BY <1>1, <1>3 DEF Available
  <2>2. QED
    BY <1>1, <2>1, SomeCount DEF Enough, LetGo
<1>4. QED
  BY <1>2, <1>3 DEF Transfer, queueVars

LEMMA TransferBackEnough ==
    ASSUME RingInv, RingInv', KernelFits, KernelFits', Enough, UNCHANGED kind, kind \in Queues,
           NEW t \in Threads, TransferBack(t)
    PROVE  Enough'
<1>1. /\ ring[kind].counter \in Int /\ ring'[kind].counter \in Int /\ job[t] # NoJob
      /\ job[t].of = kind /\ call[t].op = "queue" /\ t = k.current
      /\ job \in [Threads -> {NoJob} \cup Jobs] /\ call \in [Threads -> CallsOf(kind)]
  BY CounterIsInt DEF RingInv, CallInv, TransferBack, IsBack
<1>2. Runs(k, t)
  BY <1>1, CallOfCurrent DEF RingInv
<1>3. Unmoved(k, AwakeS(k))
  BY AwakeBetween DEF RingInv
<1>4. CASE k.u[t] # "OK" /\ GivesUp(t) /\ Sleeps(t, AwakeS(k), User)
  <2>1. k'.queue = k.queue /\ k'.state = k.state /\ k'.u = k.u
    BY <1>3, <1>4 DEF Unmoved, Sleeps
  <2>2. /\ \A x \in Threads \ {t} : job'[x] = job[x] /\ call'[x] = call[x]
        /\ call'[t].op # "queue" /\ UNCHANGED ring
    BY <1>1, <1>4, CallNames DEF GivesUp, Sleeps
  <2>3. QED
    BY <1>1, <1>4, <2>1, <2>2, StillEnough DEF Runs
<1>5. CASE k.u[t] = "OK" /\ Move(t) /\ Sleeps(t, AwakeS(k), User)
  <2>1. k'.queue = k.queue /\ k'.state = k.state /\ k'.u = k.u
    BY <1>3, <1>5 DEF Unmoved, Sleeps
  <2>2. /\ \A x \in Threads \ {t} : job'[x] = job[x] /\ call'[x] = call[x]
        /\ call'[t].op # "queue" /\ ring'[kind].counter = ring[kind].counter - 1
    BY <1>1, <1>5, CallNames, MoveCounts DEF Sleeps
  <2>3. LetGo(kind)' = LetGo(kind) \ {t} /\ t \in LetGo(kind)
    BY <1>1, <1>2, <1>5, <2>1, <2>2 DEF LetGo, Runs, Runnable
  <2>4. Cardinality(LetGo(kind)') = Cardinality(LetGo(kind)) - 1 /\ Cardinality(LetGo(kind)) \in Nat
    BY <2>3, LetGoCounts
  <2>5. QED
    BY <1>1, <2>1, <2>2, <2>4 DEF Enough
<1>6. CASE ~Available(t) /\ UNCHANGED ring
  <2>1. ring'[kind].counter <= 0
    BY <1>1, <1>6 DEF Available
  <2>2. QED
    BY <1>1, <2>1, SomeCount DEF Enough, LetGo
<1>7. QED
  BY <1>4, <1>5, <1>6 DEF TransferBack, queueVars

LEMMA QueueNextEnough ==
    ASSUME RingInv, RingInv', KernelFits, KernelFits', Enough, UNCHANGED kind, kind \in Queues,
           NEW t \in Threads, QueueNext(t, kind, Times, Lengths)
    PROVE  Enough'
<1>1. CASE QueueReset(kind)
  <2> DEFINE r == ReadyAll([k EXCEPT !.queue[kind] = <<>>], k.queue[kind])
  <2>1. Between(r) /\ r.queue[kind] = <<>>
    BY QueueEmpties DEF RingInv
  <2>2. k' = Epilogue(r)
    BY <1>1 DEF QueueReset, Returns, ReadyAll
  <2> HIDE DEF r
  <2>3. k'.queue = r.queue
    BY <2>1, <2>2, Rescheduled
  <2>4. QED
    BY <2>1, <2>3 DEF Enough
<1>2. ASSUME NEW n, NEW time, TransferStart(t, kind, n, time) PROVE Enough'
  <2>1. /\ UNCHANGED <<k, call, ring>> /\ call[t].op # "queue"
        /\ \A x \in Threads \ {t} : job'[x] = job[x]
    BY <1>2, CallNames DEF TransferStart, Calls, InUser, RingInv, CallInv
  <2>2. ring[kind].counter \in Int
    BY CounterIsInt DEF RingInv
  <2>3. QED
    BY <2>1, <2>2, StillEnough
<1>3. QED
  BY <1>1, <1>2, ServeEnough, TransferEnough, TransferBackEnough
     DEF QueueNext, IQPutI, OQGetI, IQResetI, OQResetI, IQGetTimeout, OQPutTimeout,
         IQReadTimeout, OQWriteTimeout

(* The steps with events.                                                  *)

EventStates == {"WTOREVT", "WTANDEVT"}

\* A thread that sleeps in no queue is let go.
LEMMA SleeperGoes ==
    ASSUME NEW U, NEW C, NEW s, Settled(U, C, s), "OK" \in U, NEW t \in Threads,
           s.state[t] \in EventStates
    PROVE  LET r == ReadyWith(s, t, "OK") IN
           /\ ~Runs(s, t) /\ Settled(U, C, r) /\ LetGone(s, r, {t}, "OK")
           /\ r.current = s.current /\ r.cnt = s.cnt /\ r.queue = s.queue
<1> DEFINE r == ReadyWith(s, t, "OK")
<1>1. s \in KernelStates(U, C) /\ Placed(s) /\ Sorted(s) /\ Queue(Pars(s.vt), Threads) /\ OnTime(s)
  BY DEF Settled
<1>2. s.state[s.current] = "CURRENT" /\ s.current \in Threads
  BY <1>1 DEF Placed, ThreadPlaced, KernelStates
<1>3. ~Runs(s, t) /\ t # s.current
  BY <1>2 DEF Runs, Runnable, EventStates
<1>4. PlacedBut(s, t)
  BY <1>1, <1>3 DEF Placed, ThreadPlaced, PlacedBut, EventStates, WaitStates
<1>5. Apart(s, s)
  BY DEF Apart
<1>6. /\ r \in KernelStates(U, C) /\ Placed(r) /\ Frees(s, r, t, "OK")
      /\ r.current = s.current /\ r.queue = s.queue /\ r.cnt = s.cnt /\ Sorted(r)
  BY <1>1, <1>2, <1>4, <1>5, ReadyWithFrees
<1> HIDE DEF r
<1>7. s.u \in [Threads -> U] /\ r.vt = s.vt /\ r.due = s.due
  BY <1>1, <1>6 DEF KernelStates, Frees
<1>8. Queue(Pars(r.vt), Threads) /\ OnTime(r)
  BY <1>1, <1>7 DEF OnTime, Due
<1>9. r.u = [x \in Threads |-> IF x \in {t} THEN "OK" ELSE s.u[x]]
  BY <1>6, <1>7 DEF Frees
<1>10. \A x \in Threads : ~Runs(r, x) => r.state[x] = s.state[x]
  BY <1>6 DEF Frees
<1>11. LetGone(s, r, {t}, "OK")
  BY <1>6, <1>9, <1>10 DEF Frees, LetGone
<1>12. QED
  BY <1>3, <1>6, <1>8, <1>11 DEF Settled, r

\* Who sleeps in event call c on kernel state s, with p pending, waits for
\* events that have not come; who was let go finds those it waited for.
AnsweredTo(c, s, p, t) ==
    LET came == Satisfied(WaitState(c.way), p, c.mask)
    IN  \/ s.state[t] = WaitState(c.way) /\ s.u[t] = c.mask /\ ~came
        \/ Runs(s, t) /\ (s.u[t] = "OK" => came)
Answered(calls, s, p) ==
    \A t \in Threads : calls[t].op = "event" => AnsweredTo(calls[t], s, p[t], t)

LEMMA AnsweredIs == EventsAnswered <=> Answered(call, k, pending)
  BY DEF EventsAnswered, Answered, AnsweredTo, Runs, Runnable

\* An answer stands while the thread's note stands and nothing is taken from
\* its events.
LEMMA AnswerStands ==
    ASSUME NEW c, NEW t, NEW s, NEW r, NEW p, AnsweredTo(c, s, p, t),
           Runs(s, t) => Runs(r, t) /\ r.u[t] = s.u[t],
           ~Runs(r, t) => r.state[t] = s.state[t] /\ r.u[t] = s.u[t],
           Runs(r, t) /\ ~Runs(s, t) => r.u[t] # "OK"
    PROVE  AnsweredTo(c, r, p, t)
  BY DEF AnsweredTo, Runs, Runnable, WaitState

LEMMA SameAnswers ==
    ASSUME NEW calls, NEW s, NEW r, NEW p, Answered(calls, s, p), SameThreads(s, r)
    PROVE  Answered(calls, r, p)
<1> SUFFICES ASSUME NEW t \in Threads, calls[t].op = "event" PROVE AnsweredTo(calls[t], r, p[t], t)
  BY DEF Answered
<1>1. AnsweredTo(calls[t], s, p[t], t)
  BY DEF Answered
<1>2. r.u[t] = s.u[t] /\ (Runs(r, t) <=> Runs(s, t)) /\ (~Runs(s, t) => r.state[t] = s.state[t])
  BY DEF SameThreads
<1>3. QED
  BY <1>1, <1>2, AnswerStands

EventSet == Events \cup {Min(Events)}
Listeners == [thread : Threads, mask : SUBSET EventSet]
EventStatesOf == [k : KernelStates(Notes, Sems), pending : [Threads -> SUBSET EventSet]]
EventsOK ==
    /\ pending \in [Threads -> SUBSET EventSet]
    /\ listeners \in Seq(Listeners)

\* In the middle of a step that signals events.
Heard(e) == e \in EventStatesOf /\ Between(e.k) /\ Answered(call, e.k, e.pending)

LEMMA WhoHears ==
    ASSUME CallInv, KernelFits, NEW s, Between(s), NEW t \in Threads, s.state[t] \in EventStates
    PROVE  /\ call[t] \in EventCalls /\ s.state[t] = WaitState(call[t].way) /\ s.u[t] = call[t].mask
           /\ ~Runs(s, t)
<1>1. ~Runs(s, t)
  BY DEF Runs, Runnable, EventStates
<1>2. ~Runs(k, t) /\ k.state[t] = s.state[t] /\ k.u[t] = s.u[t]
  BY <1>1 DEF Between, Released
<1>3. WaitsFor(kind, call[t], s.state[t], s.u[t])
  BY <1>2 DEF KernelFits, CallsFit
<1>4. QED
  BY <1>1, <1>3 DEF WaitsFor, EventStates

LEMMA SignalHeard ==
    ASSUME CallInv, KernelFits, NEW e, Heard(e), NEW t \in Threads, NEW mask \in SUBSET EventSet
    PROVE  Heard(EvtSignalI(e, t, mask))
<1> DEFINE s == e.k
           p == e.pending[t] \cup mask
           pend == [e.pending EXCEPT ![t] = p]
           r == ReadyWith(s, t, "OK")
           yes == Satisfied(s.state[t], p, s.u[t])
           z == IF yes THEN r ELSE s
<1>1. /\ Between(s) /\ Answered(call, s, e.pending) /\ e.pending \in [Threads -> SUBSET EventSet]
      /\ Settled(Notes, Sems, s) /\ SemsFit(s) /\ "OK" \in Notes /\ s.current = k.current
  BY SemsAreObjects DEF Heard, EventStatesOf, Between
<1>2. EvtSignalI(e, t, mask) = [k |-> z, pending |-> pend]
  BY DEF EvtSignalI
<1>3. /\ pend \in [Threads -> SUBSET EventSet] /\ pend[t] = p /\ e.pending[t] \subseteq p
      /\ \A x \in Threads \ {t} : pend[x] = e.pending[x]
  BY <1>1
<1> HIDE DEF s, p, pend
<1>4. CASE yes
  <2>1. s.state[t] \in EventStates
    BY <1>4 DEF Satisfied, EventStates
  <2>2. /\ call[t] \in EventCalls /\ s.state[t] = WaitState(call[t].way) /\ s.u[t] = call[t].mask
        /\ ~Runs(s, t)
    BY <1>1, <2>1, WhoHears
  <2>3. /\ Settled(Notes, Sems, r) /\ LetGone(s, r, {t}, "OK")
        /\ r.current = s.current /\ r.cnt = s.cnt /\ r.queue = s.queue
    BY <1>1, <2>1, SleeperGoes
  <2> HIDE DEF r
  <2>4. Released(s, r)
    BY <2>2, <2>3, LetGoneReleases
  <2>5. SemsFit(r)
    BY <1>1, <2>3 DEF SemsFit, Counted
  <2>6. Between(r)
    BY <1>1, <2>3, <2>4, <2>5, BetweenOn
  <2>7. ASSUME NEW x \in Threads, call[x].op = "event"
        PROVE  AnsweredTo(call[x], r, pend[x], x)
    <3>1. CASE x = t
      <4>1. Runs(r, t)
        BY <2>3 DEF LetGone
      <4>2. Satisfied(WaitState(call[t].way), p, call[t].mask)
        BY <1>4, <2>2
      <4>3. QED
        BY <1>3, <3>1, <4>1, <4>2 DEF AnsweredTo
    <3>2. CASE x # t
      <4>1. AnsweredTo(call[x], s, pend[x], x)
        BY <1>1, <1>3, <2>7, <3>2 DEF Answered
      <4>2. /\ r.u[x] = s.u[x] /\ (Runs(r, x) <=> Runs(s, x))
            /\ ~Runs(r, x) => r.state[x] = s.state[x]
        BY <2>3, <3>2 DEF LetGone
      <4>3. QED
        BY <4>1, <4>2, AnswerStands
    <3>3. QED
      BY <3>1, <3>2
  <2>8. z = r
    BY <1>4
  <2>9. r \in KernelStates(Notes, Sems)
    BY <2>3 DEF Settled
  <2>10. QED
    BY <1>2, <1>3, <2>6, <2>7, <2>8, <2>9 DEF Heard, EventStatesOf, Answered
<1>5. CASE ~yes
  <2>1. z = s
    BY <1>5
  <2>2. ASSUME NEW x \in Threads, call[x].op = "event"
        PROVE  AnsweredTo(call[x], s, pend[x], x)
    <3>1. AnsweredTo(call[x], s, e.pending[x], x)
      BY <1>1, <2>2 DEF Answered
    <3>2. CASE x = t
      <4>1. CASE Runs(s, t)
        BY <1>3, <3>1, <3>2, <4>1 DEF AnsweredTo, Satisfied, WaitState, Runs, Runnable
      <4>2. CASE ~Runs(s, t)
        BY <1>3, <1>5, <3>1, <3>2, <4>2 DEF AnsweredTo
      <4>3. QED
        BY <4>1, <4>2
    <3>3. CASE x # t
      BY <1>3, <3>1, <3>3
    <3>4. QED
      BY <3>2, <3>3
  <2>3. s \in KernelStates(Notes, Sems)
    BY <1>1 DEF Settled
  <2>4. QED
    BY <1>1, <1>2, <1>3, <2>1, <2>2, <2>3 DEF Heard, EventStatesOf, Answered
<1>6. QED
  BY <1>4, <1>5

\* A broadcast signals one listener after the other.
SignalAll(base, q) == FoldLeft(LAMBDA r, l : EvtSignalI(r, l.thread, l.mask), base, q)

LEMMA SignalEach ==
    ASSUME NEW R, NEW E, NEW q \in Seq(E), NEW base \in R,
           \A r \in R, l \in E : EvtSignalI(r, l.thread, l.mask) \in R
    PROVE  SignalAll(base, q) \in R
<1> DEFINE n == Len(q)
           st == [p \in R \X (1..n) |-> EvtSignalI(p[1], q[p[2]].thread, q[p[2]].mask)]
           Def(f) == f = [s \in SUBSET DOMAIN q |->
                            IF s = {} THEN base
                            ELSE EvtSignalI(f[s \ {Max(s)}], q[Max(s)].thread, q[Max(s)].mask)]
           iter == CHOOSE f : Def(f)
           Rs == [m \in 0..n |-> R]
<1>1. n \in Nat /\ DOMAIN q = 1..n
  BY LenProperties
<1>2. st \in [R \X (1..n) -> R]
  OBVIOUS
<1>3. PICK g : Folds(g, R, st, base, n)
  BY <1>1, <1>2, FoldExists
<1>4. Def(g)
  <2>1. ASSUME NEW s \in SUBSET (1..n), s # {} PROVE Max(s) \in 1..n /\ s \ {Max(s)} \in SUBSET (1..n)
    BY <2>1, <1>1, MaxIn
  <2>2. ASSUME NEW s \in SUBSET (1..n), s # {}
        PROVE  g[s] = EvtSignalI(g[s \ {Max(s)}], q[Max(s)].thread, q[Max(s)].mask)
    <3>1. g[s \ {Max(s)}] \in R
      BY <1>3, <2>1, <2>2 DEF Folds
    <3>2. g[s] = st[<<g[s \ {Max(s)}], Max(s)>>]
      BY <1>3, <2>2 DEF Folds
    <3>3. QED
      BY <2>1, <2>2, <3>1, <3>2
  <2>3. g[{}] = base
    BY <1>3 DEF Folds
  <2>4. g = [s \in SUBSET (1..n) |-> g[s]]
    BY <1>3 DEF Folds
  <2>5. QED
    BY <1>1, <2>2, <2>3, <2>4
<1>5. Def(iter)
  BY <1>4
<1>6. SignalAll(base, q) = iter[DOMAIN q]
  BY DEF SignalAll, FoldLeft, MapThenFoldSet
<1> HIDE DEF iter
<1>7. ASSUME NEW m \in 1..n, iter[1..(m - 1)] \in R PROVE iter[1..m] \in R
  <2>1. Max(1..m) = m /\ (1..m) \ {m} = 1..(m - 1) /\ 1..m # {} /\ 1..m \in SUBSET (1..n)
    BY <1>1, UpTo
  <2>2. iter[1..m] = EvtSignalI(iter[1..(m - 1)], q[m].thread, q[m].mask)
    BY <1>1, <1>5, <2>1
  <2>3. q[m] \in E
    BY <1>1
  <2>4. QED
    BY <1>7, <2>2, <2>3
<1>8. iter[{}] = base
  BY <1>5
<1>9. iter[1..n] \in R
  <2>1. iter[{}] \in Rs[0]
    BY <1>1, <1>8
  <2>2. \A m \in 1..n : iter[1..(m - 1)] \in Rs[m - 1] => iter[1..m] \in Rs[m]
    BY <1>1, <1>7
  <2> HIDE DEF Rs
  <2>3. iter[1..n] \in Rs[n]
    BY <1>1, <2>1, <2>2, Chain
  <2>4. QED
    BY <1>1, <2>3 DEF Rs
<1>10. QED
  BY <1>1, <1>6, <1>9

LEMMA BroadcastHeard ==
    ASSUME CallInv, KernelFits, EventsOK, NEW e, Heard(e)
    PROVE  Heard(BroadcastFlagsI(e))
<1> DEFINE R == {x \in EventStatesOf : Heard(x)}
<1>1. e \in R
  BY DEF Heard
<1>2. ASSUME NEW x \in R, NEW l \in Listeners PROVE EvtSignalI(x, l.thread, l.mask) \in R
  <2>1. Heard(EvtSignalI(x, l.thread, l.mask))
    BY SignalHeard DEF Listeners
  <2>2. QED
    BY <2>1 DEF Heard
<1> HIDE DEF R
<1>3. SignalAll(e, listeners) \in R
  BY <1>1, <1>2, SignalEach DEF EventsOK
<1>4. BroadcastFlagsI(e) = SignalAll(e, listeners)
  BY DEF BroadcastFlagsI, SignalAll
<1>5. QED
  BY <1>3, <1>4 DEF R

EventInv == EventsOK /\ Answered(call, k, pending)

LEMMA MinIn == Events \subseteq EventSet /\ \A m \in {Events, {Min(Events)}} : m \subseteq EventSet
  BY DEF EventSet

\* The kernel part of the event steps.
LEMMA NowHeard ==
    ASSUME KernelFits, EventInv
    PROVE  Heard(Now)
<1>1. Between(k) /\ k \in KernelStates(Notes, Sems)
  BY KernelIsBetween, BetweenIs
<1>2. QED
  BY <1>1 DEF Heard, Now, EventStatesOf, EventInv, EventsOK

LEMMA HeardStep ==
    ASSUME CallInv, KernelFits, EventInv, UNCHANGED <<kind, call, listeners>>, kind # "binary",
           NEW e, Heard(e), k' = RescheduleS(e.k) \/ k' = Epilogue(e.k), pending' = e.pending
    PROVE  KernelFits' /\ EventInv'
<1> DEFINE s == e.k
           p == e.pending
<1>1. Between(s) /\ Answered(call, s, p) /\ p \in [Threads -> SUBSET EventSet]
  BY DEF Heard, EventStatesOf
<1>2. (k' = RescheduleS(s) \/ k' = Epilogue(s)) /\ pending' = p
  OBVIOUS
<1> HIDE DEF s, p
<1>3. KernelFits'
  BY <1>1, <1>2, StepReschedules
<1>4. SameThreads(s, k')
  BY <1>1, <1>2, Rescheduled
<1>5. Answered(call, k', p)
  BY <1>1, <1>4, SameAnswers
<1>6. QED
  BY <1>1, <1>2, <1>3, <1>5 DEF EventInv, EventsOK

LEMMA SignalFits ==
    ASSUME CallInv, KernelFits, EventInv, UNCHANGED kind, kind # "binary",
           NEW t \in Threads, NEW mask \in Masks, EvtSignal(t, mask) \/ EvtSignalIsr(t, mask)
    PROVE  KernelFits' /\ EventInv'
<1> DEFINE e == EvtSignalI(Now, t, mask)
<1>1. mask \in SUBSET EventSet
  BY MinIn DEF Masks
<1>2. Heard(e)
  BY <1>1, NowHeard, SignalHeard
<1>3. /\ k' = RescheduleS(e.k) \/ k' = Epilogue(e.k)
      /\ pending' = e.pending /\ UNCHANGED <<call, listeners>>
  BY DEF EvtSignal, EvtSignalIsr, Returns
<1> HIDE DEF e
<1>4. QED
  BY <1>2, <1>3, HeardStep

LEMMA BroadcastFits ==
    ASSUME CallInv, KernelFits, EventInv, UNCHANGED kind, kind # "binary", NEW f,
           BroadcastFlags(f) \/ BroadcastFlagsIsr(f)
    PROVE  KernelFits' /\ EventInv'
<1> DEFINE e == BroadcastFlagsI(Now)
<1>1. Heard(e)
  BY NowHeard, BroadcastHeard DEF EventInv
<1>2. /\ k' = RescheduleS(e.k) \/ k' = Epilogue(e.k)
      /\ pending' = e.pending /\ UNCHANGED <<call, listeners>>
  BY DEF BroadcastFlags, BroadcastFlagsIsr, Broadcasts, Returns
<1> HIDE DEF e
<1>3. QED
  BY <1>1, <1>2, HeardStep

\* What a thread does to its own events while it runs its own code.
LEMMA OwnEvents ==
    ASSUME CallInv, KernelFits, EventInv, UNCHANGED <<k, call, kind>>,
           NEW t, t = k.current, InUser, NEW p \in SUBSET EventSet,
           UNCHANGED pending \/ pending' = [pending EXCEPT ![t] = p],
           listeners' \in Seq(Listeners)
    PROVE  KernelFits' /\ EventInv'
<1>1. KernelFits'
  BY DEF KernelFits, Settled, CallsFit, SemsFit, Counted
<1>2. pending' \in [Threads -> SUBSET EventSet]
  BY DEF EventInv, EventsOK
<1>3. ASSUME NEW x \in Threads, call[x].op = "event" PROVE pending'[x] = pending[x]
  BY <1>3, CallNames DEF InUser, EventInv, EventsOK
<1>4. Answered(call, k, pending')
  BY <1>3 DEF EventInv, Answered
<1>5. QED
  BY <1>1, <1>2, <1>4 DEF EventInv, EventsOK

LEMMA OwnEventsFit ==
    ASSUME CallInv, KernelFits, EventInv, UNCHANGED kind, NEW t \in Threads,
           \/ \E mask \in Masks : AddEvents(t, mask) \/ GetAndClearEvents(t, mask)
           \/ \E mask \in {Events, {Min(Events)}} : RegisterMask(t, mask)
           \/ Unregister(t) \/ GetAndClearFlags(t)
    PROVE  KernelFits' /\ EventInv'
<1>1. pending \in [Threads -> SUBSET EventSet] /\ listeners \in Seq(Listeners)
  BY DEF EventInv, EventsOK
<1>2. CASE \E mask \in Masks : AddEvents(t, mask) \/ GetAndClearEvents(t, mask)
  <2>1. PICK mask \in Masks : AddEvents(t, mask) \/ GetAndClearEvents(t, mask)
    BY <1>2
  <2>2. mask \in SUBSET EventSet
    BY MinIn DEF Masks
  <2>3. \E p \in SUBSET EventSet : pending' = [pending EXCEPT ![t] = p]
    <3>1. pending[t] \cup mask \in SUBSET EventSet /\ pending[t] \ mask \in SUBSET EventSet
      BY <1>1, <2>2
    <3>2. QED
      BY <2>1, <3>1 DEF AddEvents, GetAndClearEvents
  <2>4. t = k.current /\ InUser /\ UNCHANGED <<k, call, listeners>>
    BY <2>1 DEF AddEvents, GetAndClearEvents, Calls, Returns
  <2>5. QED
    BY <1>1, <2>3, <2>4, OwnEvents
<1>3. CASE \/ \E mask \in {Events, {Min(Events)}} : RegisterMask(t, mask)
           \/ Unregister(t) \/ GetAndClearFlags(t)
  <2>1. t = k.current /\ InUser /\ UNCHANGED <<k, call, pending>>
    BY <1>3 DEF RegisterMask, Unregister, GetAndClearFlags, GetAndClearFlagsI, Calls, Returns
  <2>2. listeners' \in Seq(Listeners)
    <3>1. ASSUME NEW mask \in {Events, {Min(Events)}}
          PROVE  <<[thread |-> t, mask |-> mask]>> \o listeners \in Seq(Listeners)
      <4>1. [thread |-> t, mask |-> mask] \in Listeners
        BY MinIn DEF Listeners
      <4>2. QED
        BY <1>1, <4>1
    <3>2. ASSUME NEW i \in DOMAIN listeners PROVE RemoveAt(listeners, i) \in Seq(Listeners)
      BY <1>1, RemovedIndex
    <3>3. QED
      BY <1>1, <1>3, <3>1, <3>2 DEF RegisterMask, Unregister, GetAndClearFlags, GetAndClearFlagsI
  <2>3. {} \in SUBSET EventSet
    OBVIOUS
  <2>4. QED
    BY <2>1, <2>2, <2>3, OwnEvents
<1>4. QED
  BY <1>2, <1>3

\* Going to sleep until events come.
LEMMA EvtSleeps ==
    ASSUME CallInv, KernelFits, EventInv, UNCHANGED <<kind, pending, listeners>>, kind # "binary",
           k.current # Idle, ~Armed(k, k.current),
           NEW c \in EventCalls, NEW time \in Times \cup {Infinite}, time # Immediate,
           ~Satisfied(WaitState(c.way), pending[k.current], c.mask),
           k' = GoSleepTimeoutS([k EXCEPT !.u[k.current] = c.mask], WaitState(c.way), time),
           call' = [call EXCEPT ![k.current] = c]
    PROVE  KernelFits' /\ EventInv'
<1> DEFINE mask == c.mask
           t == k.current
           new == WaitState(c.way)
           m == [k EXCEPT !.u[t] = mask]
           r == GoSleepTimeoutS(m, new, time)
<1>1. /\ k \in KernelStates(Notes, Sems) /\ k.cnt \in [Sems -> Int] /\ Placed(k)
      /\ k.queue \in [Objects -> Seq(Threads)] /\ k.ready # <<>> /\ t \in Threads
      /\ Settled(Notes, Sems, k) /\ SemsFit(k) /\ k.u \in [Threads -> Notes]
      /\ k.state[t] = "CURRENT" /\ Released(k, k)
  BY CallOfCurrent, KernelIsBetween DEF KernelFits, Settled, KernelStates, Between
<1>2. time = Infinite \/ time \in Nat \ {0}
  BY CommAssumption DEF Immediate, Infinite
<1>3. mask \in Notes /\ new \in States \ Runnable /\ new \notin WaitStates
  BY CallNames DEF Notes, WaitState, States, WaitStates, Runnable
<1>4. /\ m \in KernelStates(Notes, Sems) /\ m.current = k.current /\ m.ready = k.ready
      /\ m.state = k.state /\ m.prio = k.prio /\ m.vt = k.vt /\ m.due = k.due
      /\ m.u = [k.u EXCEPT ![t] = mask] /\ m.queue = k.queue /\ m.cnt = k.cnt
  BY <1>1, <1>3 DEF KernelStates
<1>5. \A o \in Objects : t \notin ToSet(k.queue[o])
  BY <1>1 DEF Placed, ThreadPlaced, WaitStates
<1>6. k' = r
  OBVIOUS
<1> HIDE DEF m, mask, new
<1>7. AboutToSleep(k, m, new, mask)
  BY <1>1, <1>3, <1>4, <1>5 DEF AboutToSleep, Placed, QueuesSound
<1>8. /\ Settled(Notes, Sems, r) /\ TopRuns(r) /\ Asleep(k, r, new, mask)
      /\ r.queue = m.queue /\ r.cnt = m.cnt
  BY <1>1, <1>2, <1>3, <1>4, <1>7, SleepPlaces
<1> HIDE DEF r
<1>9. SemsFit(r)
  BY <1>1, <1>4, <1>8 DEF SemsFit, Counted
<1>10. WaitsFor(kind, c, new, mask) /\ c # User
  BY CallNames DEF WaitsFor, new, mask
<1>11. KernelFits'
  BY <1>1, <1>3, <1>6, <1>8, <1>9, <1>10, StepSleeps
<1>12. ASSUME NEW x \in Threads, call'[x].op = "event" PROVE AnsweredTo(call'[x], k', pending[x], x)
  <2>1. CASE x = t
    <3>1. call'[x] = c
      BY <1>1, <2>1 DEF CallInv
    <3>2. k'.state[x] = WaitState(c.way) /\ k'.u[x] = c.mask
      BY <1>1, <1>6, <1>8, <2>1 DEF Asleep, new, mask
    <3>3. QED
      BY <2>1, <3>1, <3>2 DEF AnsweredTo
  <2>2. CASE x # t
    <3>1. call'[x] = call[x] /\ AnsweredTo(call[x], k, pending[x], x)
      BY <1>1, <1>12, <2>2 DEF CallInv, EventInv, Answered
    <3>2. /\ k'.u[x] = k.u[x] /\ (Runs(k', x) <=> Runs(k, x))
          /\ ~Runs(k', x) => k'.state[x] = k.state[x]
      BY <1>1, <1>6, <1>8, <2>2 DEF Asleep
    <3>3. QED
      BY <3>1, <3>2, AnswerStands
  <2>3. QED
    BY <2>1, <2>2
<1>13. QED
  BY <1>11, <1>12 DEF EventInv, EventsOK, Answered

LEMMA EvtWaitFits ==
    ASSUME CallInv, KernelFits, EventInv, UNCHANGED kind, kind # "binary", NEW t \in Threads,
           NEW way \in {"one", "any", "all"}, NEW mask \in SUBSET Events,
           NEW time \in Times \cup {Infinite}, EvtWait(t, way, mask, time)
    PROVE  KernelFits' /\ EventInv'
<1> DEFINE c == [op |-> "event", way |-> way, mask |-> mask]
<1>1. t = k.current /\ k.current # Idle /\ InUser /\ ~Armed(k, k.current)
  BY CallOfCurrent DEF EvtWait, Calls
<1>2. c \in EventCalls /\ c.way = way /\ c.mask = mask
  BY DEF EventCalls
<1>3. listeners \in Seq(Listeners) /\ pending[t] \in SUBSET EventSet
  BY DEF EventInv, EventsOK
<1>4. CASE Returns(k) /\ (TakesEvents(t, way, mask) \/ UNCHANGED eventVars)
  <2>1. pending[t] \ Taken(way, pending[t], mask) \in SUBSET EventSet
    BY <1>3
  <2>2. UNCHANGED listeners /\ (UNCHANGED pending \/ pending' = [pending EXCEPT ![t] = pending[t] \ Taken(way, pending[t], mask)])
    BY <1>4 DEF TakesEvents, eventVars
  <2>3. UNCHANGED <<k, call>>
    BY <1>4 DEF Returns
  <2>4. QED
    BY <1>1, <1>3, <2>1, <2>2, <2>3, OwnEvents
<1> HIDE DEF c
<1>5. CASE /\ ~Satisfied(WaitState(way), pending[t], mask) /\ time # Immediate /\ UNCHANGED eventVars
           /\ Sleeps(t, GoSleepTimeoutS([k EXCEPT !.u[t] = mask], WaitState(way), time), c)
  <2>1. /\ k' = GoSleepTimeoutS([k EXCEPT !.u[k.current] = c.mask], WaitState(c.way), time)
        /\ call' = [call EXCEPT ![k.current] = c] /\ UNCHANGED <<pending, listeners>>
        /\ ~Satisfied(WaitState(c.way), pending[k.current], c.mask) /\ time # Immediate
    BY <1>1, <1>2, <1>5 DEF Sleeps, eventVars
  <2>2. QED
    BY <1>1, <1>2, <2>1, EvtSleeps
<1>6. QED
  BY <1>4, <1>5 DEF EvtWait, c

LEMMA EvtWaitBackFits ==
    ASSUME CallInv, KernelFits, EventInv, UNCHANGED kind, NEW t \in Threads, EvtWaitBack(t)
    PROVE  KernelFits' /\ EventInv'
<1>1. t = k.current /\ k' = AwakeS(k) /\ call' = [call EXCEPT ![k.current] = User]
  BY DEF EvtWaitBack, IsBack, Sleeps
<1>2. KernelFits'
  BY <1>1, StepAwakes
<1>3. Unmoved(k, k')
  BY <1>1, AwakeBetween
<1>4. /\ UNCHANGED listeners
      /\ \/ UNCHANGED pending
         \/ pending' = [pending EXCEPT ![t] = pending[t] \ Taken(call[t].way, pending[t], call[t].mask)]
  BY DEF EvtWaitBack, TakesEvents, eventVars
<1>5. pending' \in [Threads -> SUBSET EventSet] /\ \A x \in Threads \ {t} : pending'[x] = pending[x]
  BY <1>4 DEF EventInv, EventsOK
<1>6. /\ call'[t] = User /\ \A x \in Threads \ {t} : call'[x] = call[x]
  BY <1>1 DEF CallInv
<1>7. ASSUME NEW x \in Threads, call'[x].op = "event" PROVE AnsweredTo(call'[x], k', pending'[x], x)
  <2>1. x # t
    BY <1>6, <1>7, CallNames
  <2>2. call'[x] = call[x] /\ pending'[x] = pending[x] /\ AnsweredTo(call[x], k, pending[x], x)
    BY <1>5, <1>6, <1>7, <2>1 DEF EventInv, Answered
  <2>3. k'.u = k.u /\ k'.state = k.state
    BY <1>3 DEF Unmoved
  <2>4. QED
    BY <2>2, <2>3 DEF AnsweredTo, Runs
<1>8. QED
  BY <1>2, <1>4, <1>5, <1>7 DEF EventInv, EventsOK, Answered

LEMMA EventTickFits ==
    ASSUME CallInv, KernelFits, EventInv, UNCHANGED <<kind, eventVars>>, Tick
    PROVE  EventInv'
<1>1. TimesOut(Sems, k, k') /\ UNCHANGED <<call, pending, listeners>>
  BY TickFits DEF Tick, eventVars
<1>2. ASSUME NEW x \in Threads, call[x].op = "event" PROVE AnsweredTo(call[x], k', pending[x], x)
  <2>1. AnsweredTo(call[x], k, pending[x], x)
    BY <1>2 DEF EventInv, Answered
  <2>2. /\ Runs(k, x) => Runs(k', x) /\ k'.u[x] = k.u[x]
        /\ Runs(k', x) /\ ~Runs(k, x) => k'.u[x] # "OK"
        /\ ~Runs(k', x) => k'.state[x] = k.state[x] /\ k'.u[x] = k.u[x]
    BY <1>1 DEF TimesOut
  <2>3. QED
    BY <2>1, <2>2, AnswerStands
<1>3. QED
  BY <1>1, <1>2 DEF EventInv, EventsOK, Answered

LEMMA EventNextFits ==
    ASSUME CallInv, KernelFits, EventInv, UNCHANGED kind, kind # "binary", NEW t \in Threads,
           EventNext(t, Times) \/ SourceNext(t, Times)
    PROVE  KernelFits' /\ EventInv'
<1>1. Times \subseteq Times \cup {Infinite} /\ Infinite \in Times \cup {Infinite} /\ Events \in SUBSET Events
  OBVIOUS
<1>2. ASSUME GetAndClearFlagsI(t) PROVE KernelFits' /\ EventInv'
  <2>1. UNCHANGED <<k, call, pending, listeners>>
    BY <1>2 DEF GetAndClearFlagsI, Returns
  <2>2. QED
    BY <2>1 DEF KernelFits, Settled, CallsFit, SemsFit, Counted, EventInv, EventsOK, Answered
<1>3. CASE EventNext(t, Times)
  <2>1. CASE EvtWaitBack(t)
    BY <2>1, EvtWaitBackFits
  <2>2. ASSUME NEW mask \in Masks, Waits(t, mask, Times) PROVE KernelFits' /\ EventInv'
    <3>1. mask \in SUBSET Events
      BY DEF Masks
    <3>2. PICK way \in {"one", "any", "all"}, time \in Times \cup {Infinite} : EvtWait(t, way, mask, time)
      BY <2>2 DEF Waits, EvtWaitOne, EvtWaitAny, EvtWaitAll, EvtWaitOneTimeout,
                  EvtWaitAnyTimeout, EvtWaitAllTimeout
    <3>3. QED
      BY <3>1, <3>2, EvtWaitFits
  <2>3. QED
    BY <1>3, <2>1, <2>2, SignalFits, OwnEventsFit DEF EventNext
<1>4. CASE SourceNext(t, Times)
  <2>1. CASE EvtWaitBack(t)
    BY <2>1, EvtWaitBackFits
  <2>2. CASE EvtWaitAny(t, Events) \/ \E time \in Times : EvtWaitAllTimeout(t, Events, time)
    <3>1. PICK way \in {"one", "any", "all"}, time \in Times \cup {Infinite} : EvtWait(t, way, Events, time)
      BY <2>2 DEF EvtWaitAny, EvtWaitAllTimeout
    <3>2. QED
      BY <1>1, <3>1, EvtWaitFits
  <2>3. QED
    BY <1>2, <1>4, <2>1, <2>2, BroadcastFits, OwnEventsFit DEF SourceNext
<1>5. QED
  BY <1>3, <1>4

-----------------------------------------------------------------------------
(* The mail.                                                               *)

OwnersIn(s, calls, o) ==
    {t \in Threads : calls[t] \in BoxOps /\ Takes(calls[t]) = o /\ Runs(s, t) /\ s.u[t] = "OK"}
UnitsIn(s, calls, o) == Above(s.cnt[o]) + Cardinality(OwnersIn(s, calls, o))

LEMMA UnitsAre ==
    ASSUME NEW o
    PROVE  Units(o) = UnitsIn(k, call, o) /\ Owners(o) = OwnersIn(k, call, o)
<1>1. Owners(o) = OwnersIn(k, call, o)
  BY DEF Owners, OwnersIn, Runs, Runnable
<1>2. QED
  BY <1>1 DEF Units, UnitsIn, Above

LEMMA OwnersCount ==
    ASSUME NEW s, NEW calls, NEW o
    PROVE  LET W == OwnersIn(s, calls, o) IN
           /\ Cardinality(W) \in Nat
           /\ \A w : w \notin W => Cardinality(W \cup {w}) = Cardinality(W) + 1
           /\ \A w \in W : Cardinality(W \ {w}) = Cardinality(W) - 1
<1>1. IsFiniteSet(OwnersIn(s, calls, o))
  BY CommAssumption, FS_Subset DEF OwnersIn
<1>2. QED
  BY <1>1, FS_CardinalityType, FS_AddElement, FS_RemoveElement

\* The same threads run with the same notes.
LEMMA SameOwners ==
    ASSUME NEW s, NEW r, NEW calls,
           \A t \in Threads : (Runs(r, t) /\ r.u[t] = "OK") <=> (Runs(s, t) /\ s.u[t] = "OK")
    PROVE  \A o : OwnersIn(r, calls, o) = OwnersIn(s, calls, o)
  BY DEF OwnersIn

LEMMA UnitsNumber ==
    ASSUME KernelFits, NEW o \in Sems
    PROVE  UnitsIn(k, call, o) \in Nat
<1>1. k.cnt[o] \in Int
  BY KernelIsBetween, BetweenIs
<1>2. QED
  BY <1>1, OwnersCount DEF UnitsIn, Above

LEMMA SameUnits ==
    ASSUME NEW s, NEW r, NEW calls, SameThreads(s, r)
    PROVE  \A o : UnitsIn(r, calls, o) = UnitsIn(s, calls, o)
<1>1. \A o : OwnersIn(r, calls, o) = OwnersIn(s, calls, o)
  BY SameOwners DEF SameThreads
<1>2. r.cnt = s.cnt
  BY DEF SameThreads, Kept
<1>3. QED
  BY <1>1, <1>2 DEF UnitsIn

\* One unit less of o, one more of g.
LEMMA TakesUnit ==
    ASSUME KernelFits, NEW s, Between(s), NEW calls, NEW o \in Sems, s.cnt[o] > 0
    PROVE  LET r == SemTake(s, o) IN
           /\ Between(r) /\ UnitsIn(r, calls, o) = UnitsIn(s, calls, o) - 1
           /\ UnitsIn(s, calls, o) >= 1
           /\ \A x \in Sems \ {o} : UnitsIn(r, calls, x) = UnitsIn(s, calls, x)
<1> DEFINE r == SemTake(s, o)
<1>1. /\ Between(r) /\ Apart(s, r) /\ r.cnt = [s.cnt EXCEPT ![o] = @ - 1]
      /\ s.cnt \in [Sems -> Int]
  BY TakeBetween, BetweenIs
<1> HIDE DEF r
<1>2. \A x : OwnersIn(r, calls, x) = OwnersIn(s, calls, x)
  BY <1>1, SameOwners DEF Apart, Runs
<1>3. Cardinality(OwnersIn(s, calls, o)) \in Nat
  BY OwnersCount
<1>4. /\ r.cnt[o] = s.cnt[o] - 1 /\ s.cnt[o] \in Int
      /\ \A x \in Sems \ {o} : r.cnt[x] = s.cnt[x]
  BY <1>1
<1>5. QED
  BY <1>1, <1>2, <1>3, <1>4 DEF UnitsIn, Above, r

LEMMA GivesUnit ==
    ASSUME CallInv, KernelFits, kind = "mailbox", NEW s, Between(s), NEW o \in Sems
    PROVE  LET r == SemSignalI(s, o) IN
           /\ Between(r) /\ UnitsIn(r, call, o) = UnitsIn(s, call, o) + 1
           /\ \A x \in Sems \ {o} : UnitsIn(r, call, x) = UnitsIn(s, call, x)
<1> DEFINE r == SemSignalI(s, o)
           w == Head(s.queue[o])
<1>1. /\ Between(r) /\ Signalled(s, o, r) /\ OnlyAt(s, r, o) /\ r.cnt[o] = s.cnt[o] + 1
      /\ s.cnt \in [Sems -> Int] /\ s.cnt[o] \in Int
  BY SignalBetween, BetweenIs
<1> HIDE DEF r
<1>2. \A x \in Sems \ {o} : r.cnt[x] = s.cnt[x]
  BY <1>1 DEF OnlyAt
<1>3. Cardinality(OwnersIn(s, call, o)) \in Nat
  BY OwnersCount
<1>4. CASE s.cnt[o] >= 0
  <2>1. LetGone(s, r, {}, "OK")
    BY <1>1, <1>4 DEF Signalled
  <2>2. \A x : OwnersIn(r, call, x) = OwnersIn(s, call, x)
    BY <2>1, SameOwners DEF LetGone
  <2>3. QED
    BY <1>1, <1>2, <1>3, <1>4, <2>2 DEF UnitsIn, Above, r
<1>5. CASE s.cnt[o] < 0
  <2>1. /\ w \in Threads /\ ~Runs(s, w) /\ s.state[w] \in WaitStates /\ s.u[w] = o
        /\ LetGone(s, r, {w}, "OK")
    BY <1>1, <1>5 DEF Signalled
  <2> HIDE DEF w
  <2>2. call[w] \in BoxOps /\ Takes(call[w]) = o
    <3>1. CallsFit(kind, call, s)
      BY FitsReleased DEF Between, KernelFits
    <3>2. WaitsFor(kind, call[w], s.state[w], s.u[w])
      BY <2>1, <3>1 DEF CallsFit
    <3>3. call[w] \in {User} \cup BoxOps
      BY <2>1, KindsOfCalls DEF CallInv
    <3>4. call[w] # User
      BY <3>2, WaitingIs
    <3>5. call[w].op \in {"post", "ahead", "fetch"} /\ call[w] \in BoxOps
      BY <3>3, <3>4, CallNames
    <3>6. QED
      BY <2>1, <3>2, <3>5, CallNames DEF WaitsFor
  <2>3. w \notin OwnersIn(s, call, o)
    BY <2>1 DEF OwnersIn
  <2>4. \A t \in Threads : (Runs(r, t) /\ r.u[t] = "OK") <=> ((Runs(s, t) /\ s.u[t] = "OK") \/ t = w)
    BY <2>1 DEF LetGone
  <2>5. OwnersIn(r, call, o) = OwnersIn(s, call, o) \cup {w}
    BY <2>1, <2>2, <2>4 DEF OwnersIn
  <2>6. \A x \in Sems \ {o} : OwnersIn(r, call, x) = OwnersIn(s, call, x)
    BY <2>2, <2>4 DEF OwnersIn
  <2>7. Cardinality(OwnersIn(r, call, o)) = Cardinality(OwnersIn(s, call, o)) + 1
    BY <2>3, <2>5, OwnersCount
  <2>8. QED
    BY <1>1, <1>2, <1>3, <1>5, <2>6, <2>7 DEF UnitsIn, Above, r
<1>6. QED
  BY <1>1, <1>4, <1>5

-----------------------------------------------------------------------------
(* The ring.                                                               *)

MailOK ==
    /\ box \in [0..(BoxSize - 1) -> Msgs \cup {None}] /\ mail \in Seq(Msgs)
    /\ rdptr \in 0..(BoxSize - 1) /\ wrptr \in 0..(BoxSize - 1) /\ stray \in Nat
    /\ stray = 0 => Holds(BoxSize, box, rdptr, wrptr, mail)
MailCounted ==
    /\ UnitsIn(k, call, Full) + UnitsIn(k, call, Empty) = BoxSize + stray
    /\ stray = 0 => UnitsIn(k, call, Full) = Len(mail)
MailInv == MailOK /\ (kind = "mailbox" => MailCounted)

\* While the units add up, the messages stay in order.
LEMMA MovesInOrder ==
    ASSUME MailOK, stray = 0, NEW b \in BoxOps, Moves(b),
           IF b.op = "fetch" THEN Len(mail) > 0 ELSE Len(mail) < BoxSize
    PROVE  /\ MailOK' /\ UNCHANGED stray
           /\ Len(mail') = IF b.op = "fetch" THEN Len(mail) - 1 ELSE Len(mail) + 1
<1>1. BoxSize \in Nat \ {0} /\ mail \in Seq(Msgs) /\ Len(mail) \in Nat
      /\ box \in [0..(BoxSize - 1) -> Msgs \cup {None}] /\ Holds(BoxSize, box, rdptr, wrptr, mail)
      /\ rdptr \in 0..(BoxSize - 1) /\ wrptr \in 0..(BoxSize - 1)
  BY MBoxesAssumption DEF MailOK
<1>2. ASSUME NEW now, MailIs(now) PROVE mail' = now /\ UNCHANGED stray
  BY <1>2 DEF MailIs
<1>3. /\ After(rdptr) \in 0..(BoxSize - 1) /\ After(wrptr) \in 0..(BoxSize - 1)
      /\ Before(rdptr) \in 0..(BoxSize - 1)
  BY <1>1 DEF After, Before
<1>4. CASE b.op = "post" /\ Write(b.msg)
  <2>1. b.msg \in Msgs
    BY <1>4 DEF BoxOps
  <2>2. Holds(BoxSize, [box EXCEPT ![wrptr] = b.msg], rdptr,
              IF wrptr + 1 >= BoxSize THEN 0 ELSE wrptr + 1, Append(mail, b.msg))
    BY <1>1, <1>4, <2>1, RingPuts
  <2>3. Append(mail, b.msg) \in Seq(Msgs) /\ Len(Append(mail, b.msg)) = Len(mail) + 1
    BY <1>1, <2>1
  <2>4. [box EXCEPT ![wrptr] = b.msg] \in [0..(BoxSize - 1) -> Msgs \cup {None}]
    BY <1>1, <2>1
  <2>5. /\ box' = [box EXCEPT ![wrptr] = b.msg] /\ wrptr' = After(wrptr) /\ UNCHANGED rdptr
        /\ mail' = Append(mail, b.msg) /\ UNCHANGED stray
    BY <1>2, <1>4 DEF Write
  <2>6. Holds(BoxSize, box', rdptr', wrptr', mail')
    BY <2>2, <2>5 DEF After
  <2>7. QED
    BY <1>1, <1>3, <1>4, <2>3, <2>4, <2>5, <2>6 DEF MailOK
<1>5. CASE b.op = "ahead" /\ WriteAhead(b.msg)
  <2>1. b.msg \in Msgs
    BY <1>5 DEF BoxOps
  <2> DEFINE last == IF rdptr - 1 < 0 THEN BoxSize - 1 ELSE rdptr - 1
  <2>2. Holds(BoxSize, [box EXCEPT ![last] = b.msg], last, wrptr, <<b.msg>> \o mail)
    BY <1>1, <1>5, <2>1, RingPutsAhead
  <2>3. <<b.msg>> \o mail \in Seq(Msgs) /\ Len(<<b.msg>> \o mail) = Len(mail) + 1
        /\ [box EXCEPT ![last] = b.msg] \in [0..(BoxSize - 1) -> Msgs \cup {None}]
    BY <1>1, <2>1
  <2>4. last = Before(rdptr)
    BY DEF Before
  <2> HIDE DEF last
  <2>5. /\ box' = [box EXCEPT ![last] = b.msg] /\ rdptr' = last /\ UNCHANGED wrptr
        /\ mail' = <<b.msg>> \o mail /\ UNCHANGED stray
    BY <1>2, <1>5, <2>4 DEF WriteAhead
  <2>6. Holds(BoxSize, box', rdptr', wrptr', mail')
    BY <2>2, <2>5
  <2>7. QED
    BY <1>1, <1>3, <1>5, <2>3, <2>4, <2>5, <2>6 DEF MailOK
<1>6. CASE b.op = "fetch" /\ Read
  <2>1. Holds(BoxSize, box, IF rdptr + 1 >= BoxSize THEN 0 ELSE rdptr + 1, wrptr, Tail(mail))
    BY <1>1, <1>6, RingGets
  <2>2. Tail(mail) \in Seq(Msgs) /\ Len(Tail(mail)) = Len(mail) - 1
    BY <1>1, <1>6
  <2>3. /\ UNCHANGED <<box, wrptr, stray>> /\ rdptr' = After(rdptr) /\ mail' = Tail(mail)
    BY <1>2, <1>6 DEF Read
  <2>4. Holds(BoxSize, box', rdptr', wrptr', mail')
    BY <2>1, <2>3 DEF After
  <2>5. QED
    BY <1>1, <1>3, <1>6, <2>2, <2>3, <2>4 DEF MailOK
<1>7. QED
  BY <1>4, <1>5, <1>6 DEF Moves

\* Afterwards the ring is still a ring.
LEMMA MovesAstray ==
    ASSUME MailOK, stray # 0, NEW b \in BoxOps, Moves(b)
    PROVE  MailOK' /\ UNCHANGED stray
<1>1. /\ BoxSize \in Nat \ {0} /\ rdptr \in 0..(BoxSize - 1) /\ wrptr \in 0..(BoxSize - 1)
      /\ box \in [0..(BoxSize - 1) -> Msgs \cup {None}] /\ stray \in Nat
  BY MBoxesAssumption DEF MailOK
<1>2. ASSUME NEW now, MailIs(now) PROVE mail' = <<>> /\ UNCHANGED stray
  BY <1>2 DEF MailIs
<1>3. /\ After(rdptr) \in 0..(BoxSize - 1) /\ After(wrptr) \in 0..(BoxSize - 1)
      /\ Before(rdptr) \in 0..(BoxSize - 1)
  BY <1>1 DEF After, Before
<1>4. CASE b.op \in {"post", "ahead"} /\ (Write(b.msg) \/ WriteAhead(b.msg))
  <2>1. b.msg \in Msgs
    BY <1>4 DEF BoxOps
  <2>2. mail' = <<>> /\ UNCHANGED stray
    BY <1>2, <1>4 DEF Write, WriteAhead
  <2>3. /\ box' \in [0..(BoxSize - 1) -> Msgs \cup {None}]
        /\ rdptr' \in 0..(BoxSize - 1) /\ wrptr' \in 0..(BoxSize - 1)
    BY <1>1, <1>3, <1>4, <2>1 DEF Write, WriteAhead
  <2>4. QED
    BY <1>1, <2>2, <2>3 DEF MailOK
<1>5. CASE Read
  <2>1. mail' = <<>> /\ UNCHANGED <<box, wrptr, stray>> /\ rdptr' = After(rdptr)
    BY <1>2, <1>5 DEF Read
  <2>2. QED
    BY <1>1, <1>3, <2>1 DEF MailOK
<1>6. QED
  BY <1>4, <1>5 DEF Moves

\* Whoever takes a unit and gives one moves a message.
LEMMA MailMoves ==
    ASSUME KernelFits, MailInv, kind = "mailbox", UNCHANGED kind, NEW b \in BoxOps, Moves(b),
           UnitsIn(k, call, Takes(b)) >= 1,
           UnitsIn(k', call', Takes(b)) = UnitsIn(k, call, Takes(b)) - 1,
           UnitsIn(k', call', Gives(b)) = UnitsIn(k, call, Gives(b)) + 1
    PROVE  MailInv'
<1>1. /\ UnitsIn(k, call, Full) + UnitsIn(k, call, Empty) = BoxSize + stray
      /\ UnitsIn(k, call, Full) \in Nat /\ UnitsIn(k, call, Empty) \in Nat
      /\ stray = 0 => UnitsIn(k, call, Full) = Len(mail)
      /\ Len(mail) \in Nat /\ BoxSize \in Nat /\ stray \in Nat /\ MailOK
  BY MBoxesAssumption, UnitsNumber, SemsAreObjects DEF MailInv, MailCounted, MailOK
<1>2. \/ b.op = "fetch" /\ Takes(b) = Full /\ Gives(b) = Empty
      \/ b.op # "fetch" /\ Takes(b) = Empty /\ Gives(b) = Full
  BY DEF Takes, Gives
<1>3. UnitsIn(k', call', Full) + UnitsIn(k', call', Empty) = BoxSize + stray
  BY <1>1, <1>2
<1>4. CASE stray = 0
  <2>1. IF b.op = "fetch" THEN Len(mail) > 0 ELSE Len(mail) < BoxSize
    BY <1>1, <1>2, <1>4
  <2>2. MailOK' /\ UNCHANGED stray
        /\ Len(mail') = IF b.op = "fetch" THEN Len(mail) - 1 ELSE Len(mail) + 1
    BY <1>1, <1>4, <2>1, MovesInOrder
  <2>3. UnitsIn(k', call', Full) = Len(mail')
    BY <1>1, <1>2, <1>4, <2>2
  <2>4. QED
    BY <1>3, <2>2, <2>3 DEF MailInv, MailCounted
<1>5. CASE stray # 0
  <2>1. MailOK' /\ UNCHANGED stray
    BY <1>1, <1>5, MovesAstray
  <2>2. QED
    BY <1>3, <1>5, <2>1 DEF MailInv, MailCounted
<1>6. QED
  BY <1>4, <1>5

LEMMA MailStays ==
    ASSUME MailInv, UNCHANGED <<kind, boxVars>>,
           kind = "mailbox" => /\ UnitsIn(k', call', Full) = UnitsIn(k, call, Full)
                               /\ UnitsIn(k', call', Empty) = UnitsIn(k, call, Empty)
    PROVE  MailInv'
  BY DEF MailInv, MailOK, MailCounted, boxVars

\* A thread that is back in its own code owns nothing any more.
LEMMA OwnerLeaves ==
    ASSUME NEW s, NEW S, NEW calls \in [Threads -> S], NEW t \in Threads,
           \A o \in Sems : s.cnt[o] \in Int
    PROVE  LET after == [calls EXCEPT ![t] = User] IN
           \A o \in Sems :
             IF t \in OwnersIn(s, calls, o)
             THEN UnitsIn(s, after, o) = UnitsIn(s, calls, o) - 1 /\ UnitsIn(s, calls, o) >= 1
             ELSE UnitsIn(s, after, o) = UnitsIn(s, calls, o)
<1> DEFINE after == [calls EXCEPT ![t] = User]
<1> SUFFICES ASSUME NEW o \in Sems
             PROVE  IF t \in OwnersIn(s, calls, o)
                    THEN UnitsIn(s, after, o) = UnitsIn(s, calls, o) - 1 /\ UnitsIn(s, calls, o) >= 1
                    ELSE UnitsIn(s, after, o) = UnitsIn(s, calls, o)
  OBVIOUS
<1> DEFINE A == OwnersIn(s, after, o)
           B == OwnersIn(s, calls, o)
<1>1. A = B \ {t}
  BY CallNames DEF OwnersIn
<1>2. Cardinality(A) \in Nat /\ Cardinality(B) \in Nat
  BY OwnersCount
<1>3. t \in B => Cardinality(B \ {t}) = Cardinality(B) - 1
  BY OwnersCount
<1>4. t \notin B => A = B
  BY <1>1
<1> HIDE DEF A, B
<1>5. UnitsIn(s, after, o) = Above(s.cnt[o]) + Cardinality(A)
      /\ UnitsIn(s, calls, o) = Above(s.cnt[o]) + Cardinality(B)
  BY DEF UnitsIn, A, B
<1>6. Above(s.cnt[o]) \in Nat
  BY DEF Above
<1>7. CASE t \in B
  <2>1. Cardinality(A) = Cardinality(B) - 1
    BY <1>1, <1>3, <1>7
  <2>2. UnitsIn(s, calls, o) >= 1
    BY <2>1, <1>2, <1>5, <1>6
  <2>3. UnitsIn(s, after, o) = UnitsIn(s, calls, o) - 1
    BY <2>1, <1>2, <1>5, <1>6
  <2>4. QED
    BY <1>7, <2>2, <2>3 DEF B
<1>8. CASE t \notin B
  BY <1>4, <1>5, <1>8 DEF B
<1>9. QED
  BY <1>7, <1>8

\* A unit is taken of one semaphore and one given to the other.
LEMMA BoxTakes ==
    ASSUME CallInv, KernelFits, MailInv, UNCHANGED <<kind, call>>, kind = "mailbox",
           NEW b \in BoxOps, k.cnt[Takes(b)] > 0, Moves(b),
           LET z == SemSignalI(SemTake(k, Takes(b)), Gives(b)) IN k' = RescheduleS(z) \/ k' = Epilogue(z)
    PROVE  MailInv'
<1> DEFINE o == Takes(b)
           g == Gives(b)
           r == SemTake(k, o)
           z == SemSignalI(r, g)
<1>1. o \in Sems /\ g \in Sems /\ o # g
  BY BoxUnits
<1>2. Between(k)
  BY KernelIsBetween
<1>3. k.cnt[o] > 0 /\ (k' = RescheduleS(z) \/ k' = Epilogue(z))
  OBVIOUS
<1> HIDE DEF o, g
<1>4. /\ Between(r) /\ UnitsIn(r, call, o) = UnitsIn(k, call, o) - 1
      /\ UnitsIn(k, call, o) >= 1 /\ UnitsIn(r, call, g) = UnitsIn(k, call, g)
  BY <1>1, <1>2, <1>3, TakesUnit
<1> HIDE DEF r
<1>5. /\ Between(z) /\ UnitsIn(z, call, g) = UnitsIn(r, call, g) + 1
      /\ UnitsIn(z, call, o) = UnitsIn(r, call, o)
  BY <1>1, <1>4, GivesUnit
<1> HIDE DEF z
<1>6. SameThreads(z, k')
  BY <1>3, <1>5, Rescheduled
<1>7. UnitsIn(k', call', o) = UnitsIn(z, call, o) /\ UnitsIn(k', call', g) = UnitsIn(z, call, g)
  BY <1>6, SameUnits
<1>8. UnitsIn(k', call', o) = UnitsIn(k, call, o) - 1 /\ UnitsIn(k', call', g) = UnitsIn(k, call, g) + 1
  BY <1>4, <1>5, <1>7
<1>9. QED
  BY <1>4, <1>8, MailMoves DEF o, g

\* The units are where they were.
LEMMA BoxWaits ==
    ASSUME MailInv, UNCHANGED <<kind, boxVars>>,
           \A o \in Sems : UnitsIn(k', call', o) = UnitsIn(k, call, o)
    PROVE  MailInv'
  BY MailStays, SemsAreObjects

LEMMA BoxCallMail ==
    ASSUME CallInv, KernelFits, MailInv, UNCHANGED kind, kind = "mailbox",
           NEW t, NEW b \in BoxOps, NEW time \in Times, BoxCall(t, b, time)
    PROVE  MailInv'
<1> DEFINE o == Takes(b)
<1>1. /\ t = k.current /\ k.current # Idle /\ InUser /\ ~Armed(k, k.current)
      /\ k.current \in Threads
  BY CallOfCurrent DEF BoxCall, Calls
<1>2. Between(k) /\ k.cnt \in [Sems -> Int] /\ o \in Sems /\ k.cnt[o] \in Int
  BY KernelIsBetween, BetweenIs, BoxUnits
<1>3. CASE SemFree(k, o) /\ Moves(b) /\ Returns(RescheduleS(SemSignalI(SemTake(k, o), Gives(b))))
  BY <1>3, BoxTakes DEF Returns, SemFree
<1>4. CASE Returns(k) /\ UNCHANGED boxVars
  BY <1>4, BoxWaits DEF Returns
<1> HIDE DEF o
<1>5. CASE ~SemFree(k, o) /\ time # Immediate /\ Sleeps(t, SemSleep(k, o, time), b) /\ UNCHANGED boxVars
  <2>1. k.cnt[o] <= 0
    BY <1>2, <1>5 DEF SemFree
  <2>2. k' = SemSleep(k, o, time) /\ call' = [call EXCEPT ![k.current] = b]
    BY <1>1, <1>5 DEF Sleeps
  <2>3. time \in Times \cup {Infinite} /\ time # Immediate
    BY <1>5
  <2>4. SleptOn(k, o, SemSleep(k, o, time))
    BY <1>1, <1>2, <2>1, <2>3, SleepBetween
  <2>5. Asleep(k, k', "WTSEM", o) /\ k'.cnt = [k.cnt EXCEPT ![o] = @ - 1]
    BY <2>2, <2>4 DEF SleptOn
  <2>6. \A x \in Sems : Above(k'.cnt[x]) = Above(k.cnt[x])
    BY <1>2, <2>1, <2>5 DEF Above
  <2>7. ASSUME NEW x, NEW y \in Threads
        PROVE  y \in OwnersIn(k', call', x) <=> y \in OwnersIn(k, call, x)
    <3>1. CASE y = k.current
      <4>1. ~Runs(k', y) /\ call[y] = User
        BY <1>1, <2>5, <3>1 DEF Asleep, InUser
      <4>2. QED
        BY <4>1, CallNames DEF OwnersIn
    <3>2. CASE y # k.current
      <4>1. k \in KernelStates(Notes, Sems) /\ call \in [Threads -> CallsOf(kind)]
        BY <1>2, BetweenIs DEF CallInv
      <4>2. (Runs(k', y) <=> Runs(k, y)) /\ k'.u[y] = k.u[y] /\ call'[y] = call[y]
        BY <1>1, <2>2, <2>5, <3>2, <4>1 DEF Asleep, KernelStates
      <4>3. QED
        BY <4>2 DEF OwnersIn
    <3>3. QED
      BY <3>1, <3>2
  <2>8. \A x : OwnersIn(k', call', x) = OwnersIn(k, call, x)
    BY <2>7 DEF OwnersIn
  <2>9. \A x \in Sems : UnitsIn(k', call', x) = UnitsIn(k, call, x)
    BY <2>6, <2>8 DEF UnitsIn
  <2>10. QED
    BY <1>5, <2>9, BoxWaits
<1>6. QED
  BY <1>3, <1>4, <1>5 DEF BoxCall, o

\* A thread that comes back uses the unit it owns.
LEMMA BoxBackMail ==
    ASSUME CallInv, KernelFits, MailInv, UNCHANGED kind, kind = "mailbox", NEW t, BoxBack(t)
    PROVE  MailInv'
<1> DEFINE s == AwakeS(k)
           c == call[t]
           o == Takes(c)
           g == Gives(c)
<1>1. t = k.current /\ t \in Threads /\ Runs(k, t) /\ c \in BoxOps /\ call \in [Threads -> CallsOf(kind)]
  BY CallOfCurrent DEF BoxBack, CallInv
<1>2. o \in Sems /\ g \in Sems /\ o # g
  BY <1>1, BoxUnits
<1>3. Between(s) /\ Unmoved(k, s)
  BY AwakeBetween
<1>4. \/ /\ k.u[t] = "OK" /\ Moves(c) /\ Sleeps(t, RescheduleS(SemSignalI(s, g)), User)
      \/ k.u[t] # "OK" /\ Sleeps(t, s, User) /\ UNCHANGED boxVars
  BY DEF BoxBack
<1>5. \A x : OwnersIn(k, call, x) = {y \in Threads : call[y] \in BoxOps /\ Takes(call[y]) = x
                                                     /\ Runs(k, y) /\ k.u[y] = "OK"}
  BY DEF OwnersIn
<1>6. \A x : t \in OwnersIn(k, call, x) <=> (x = o /\ k.u[t] = "OK")
  BY <1>1, <1>5
<1> HIDE DEF s
<1>7. \A x : UnitsIn(s, call, x) = UnitsIn(k, call, x) /\ OwnersIn(s, call, x) = OwnersIn(k, call, x)
  BY <1>3 DEF UnitsIn, OwnersIn, Unmoved, Runs
<1> HIDE DEF c, o, g
<1>8. CASE k.u[t] # "OK" /\ Sleeps(t, s, User) /\ UNCHANGED boxVars
  <2>1. \A x \in Sems : s.cnt[x] \in Int
    BY <1>3, BetweenIs
  <2>2. k' = s /\ call' = [call EXCEPT ![t] = User]
    BY <1>8 DEF Sleeps
  <2>3. \A x : t \notin OwnersIn(s, call, x)
    BY <1>6, <1>7, <1>8
  <2> DEFINE after == [call EXCEPT ![t] = User]
  <2>4. \A x \in Sems : UnitsIn(s, after, x) = UnitsIn(s, call, x)
    BY <1>1, <2>1, <2>3, OwnerLeaves
  <2>5. \A x \in Sems : UnitsIn(k', call', x) = UnitsIn(k, call, x)
    BY <1>7, <2>2, <2>4
  <2>6. QED
    BY <1>8, <2>5, BoxWaits
<1>9. CASE k.u[t] = "OK" /\ Moves(c) /\ Sleeps(t, RescheduleS(SemSignalI(s, g)), User)
  <2> DEFINE z == SemSignalI(s, g)
             w == RescheduleS(z)
  <2>1. /\ Between(z) /\ UnitsIn(z, call, g) = UnitsIn(s, call, g) + 1
        /\ UnitsIn(z, call, o) = UnitsIn(s, call, o)
    BY <1>2, <1>3, GivesUnit
  <2>2. k' = w /\ call' = [call EXCEPT ![t] = User]
    BY <1>9 DEF Sleeps
  <2> HIDE DEF z
  <2>3. SameThreads(z, w) /\ Released(k, w) /\ w.cnt = z.cnt
    BY <2>1, Rescheduled
  <2> HIDE DEF w
  <2>4. \A x \in Sems : w.cnt[x] \in Int
    BY <2>1, <2>3, BetweenIs
  <2>5. UnitsIn(w, call, g) = UnitsIn(z, call, g) /\ UnitsIn(w, call, o) = UnitsIn(z, call, o)
    BY <2>3, SameUnits
  <2>6. Runs(w, t) /\ w.u[t] = "OK"
    BY <1>1, <1>9, <2>3 DEF Released
  <2>7. t \in OwnersIn(w, call, o) /\ t \notin OwnersIn(w, call, g)
    BY <1>1, <1>2, <2>6 DEF OwnersIn, c, o
  <2> DEFINE after == [call EXCEPT ![t] = User]
  <2>8. /\ UnitsIn(w, after, o) = UnitsIn(w, call, o) - 1 /\ UnitsIn(w, call, o) >= 1
        /\ UnitsIn(w, after, g) = UnitsIn(w, call, g)
    BY <1>1, <1>2, <2>4, <2>7, OwnerLeaves
  <2>9. k' = w /\ call' = after
    BY <2>2
  <2> HIDE DEF after
  <2>10. UnitsIn(k, call, o) >= 1 /\ UnitsIn(k', call', o) = UnitsIn(k, call, o) - 1
         /\ UnitsIn(k', call', g) = UnitsIn(k, call, g) + 1
    BY <1>7, <2>1, <2>5, <2>8, <2>9
  <2>11. QED
    BY <1>1, <1>9, <2>10, MailMoves DEF o, g
<1>10. QED
  BY <1>4, <1>8, <1>9

LEMMA BoxInterruptMail ==
    ASSUME CallInv, KernelFits, MailInv, UNCHANGED kind, kind = "mailbox",
           NEW b \in BoxOps, BoxInterrupt(b)
    PROVE  MailInv'
<1>1. k.cnt \in [Sems -> Int] /\ Takes(b) \in Sems /\ Between(k)
  BY KernelIsBetween, BetweenIs, BoxUnits
<1>2. CASE k.cnt[Takes(b)] <= 0 /\ Returns(Epilogue(k)) /\ UNCHANGED boxVars
  <2>1. k' = Epilogue(k) /\ UNCHANGED call
    BY <1>2 DEF Returns
  <2>2. SameThreads(k, k')
    BY <1>1, <2>1, Rescheduled
  <2>3. \A o : UnitsIn(k', call', o) = UnitsIn(k, call, o)
    BY <2>1, <2>2, SameUnits
  <2>4. QED
    BY <1>2, <2>3, BoxWaits
<1>3. CASE /\ k.cnt[Takes(b)] > 0 /\ Moves(b)
           /\ Returns(Epilogue(SemSignalI(SemTake(k, Takes(b)), Gives(b))))
  BY <1>3, BoxTakes DEF Returns
<1>4. k.cnt[Takes(b)] <= 0 \/ k.cnt[Takes(b)] > 0
  BY <1>1
<1>5. QED
  BY <1>2, <1>3, <1>4 DEF BoxInterrupt

\* Whom a reset lets go owns nothing, and who owned a unit still does.
LEMMA ResetOwners ==
    ASSUME NEW s, NEW o, NEW n, NEW r, Reset(s, o, n, r), NEW calls, NEW x
    PROVE  OwnersIn(r, calls, x) = OwnersIn(s, calls, x)
<1> SUFFICES ASSUME NEW t \in Threads
             PROVE  (Runs(r, t) /\ r.u[t] = "OK") <=> (Runs(s, t) /\ s.u[t] = "OK")
  BY DEF OwnersIn
<1>1. LetGone(s, r, ToSet(s.queue[o]), "RESET")
  BY DEF Reset
<1>2. r.u[t] = (IF t \in ToSet(s.queue[o]) THEN "RESET" ELSE s.u[t])
      /\ (Runs(r, t) <=> (Runs(s, t) \/ t \in ToSet(s.queue[o])))
  BY <1>1 DEF LetGone
<1>3. t \in ToSet(s.queue[o]) => ~Runs(s, t)
  BY DEF Reset
<1>4. QED
  BY <1>2, <1>3

LEMMA MBResetMail ==
    ASSUME CallInv, KernelFits, MailInv, UNCHANGED kind, kind = "mailbox", NEW t, MBReset(t)
    PROVE  MailInv'
<1> DEFINE r == SemResetI(k, Empty, BoxSize)
           z == SemResetI(r, Full, 0)
           n == Cardinality(OwnersIn(k, call, Full))
           m == Cardinality(OwnersIn(k, call, Empty))
<1>1. /\ Full \in Sems /\ Empty \in Sems /\ Full # Empty /\ BoxSize \in Nat \ {0} /\ Full \in Objects
  BY SemsAreObjects, MBoxesAssumption
<1>2. /\ Between(k) /\ Between(r) /\ Reset(k, Empty, BoxSize, r) /\ OnlyAt(k, r, Empty)
      /\ r.cnt[Empty] = BoxSize
  BY <1>1, KernelIsBetween, ResetBetween
<1>3. k' = RescheduleS(z) /\ UNCHANGED call
  BY DEF MBReset, Returns
<1>4. wrptr' = 0 /\ rdptr' = 0 /\ mail' = <<>> /\ UNCHANGED box /\ stray' = n + m
  BY UnitsAre DEF MBReset
<1> HIDE DEF r
<1>5. Between(z) /\ Reset(r, Full, 0, z) /\ OnlyAt(r, z, Full) /\ z.cnt[Full] = 0
  BY <1>1, <1>2, ResetBetween
<1> HIDE DEF z
<1>6. r.cnt \in [Sems -> Int]
  BY <1>2, BetweenIs
<1>7. z.cnt[Empty] = BoxSize
  BY <1>1, <1>2, <1>5, <1>6 DEF OnlyAt
<1>8. SameThreads(z, k')
  BY <1>3, <1>5, Rescheduled
<1>9. \A x : OwnersIn(z, call, x) = OwnersIn(k, call, x)
  BY <1>1, <1>2, <1>5, ResetOwners
<1>10. \A x : UnitsIn(k', call', x) = Above(z.cnt[x]) + Cardinality(OwnersIn(k, call, x))
  BY <1>3, <1>8, <1>9, SameUnits DEF UnitsIn
<1>11. n \in Nat /\ m \in Nat
  BY OwnersCount
<1>12. UnitsIn(k', call', Full) = n /\ UnitsIn(k', call', Empty) = BoxSize + m
  BY <1>1, <1>5, <1>7, <1>10, <1>11 DEF Above
<1> HIDE DEF n, m
<1>13. DOMAIN box = 0..(BoxSize - 1) /\ box \in [0..(BoxSize - 1) -> Msgs \cup {None}]
  BY DEF MailInv, MailOK
<1>14. Holds(BoxSize, box, 0, 0, <<>>)
  BY <1>1, <1>13, RingIsEmpty
<1>15. <<>> \in Seq(Msgs) /\ Len(<<>>) = 0 /\ 0 \in 0..(BoxSize - 1)
  BY <1>1
<1>16. MailOK'
  BY <1>4, <1>11, <1>13, <1>14, <1>15 DEF MailOK
<1>17. UnitsIn(k', call', Full) + UnitsIn(k', call', Empty) = BoxSize + stray'
       /\ (stray' = 0 => UnitsIn(k', call', Full) = 0)
  BY <1>1, <1>4, <1>11, <1>12
<1>18. QED
  BY <1>4, <1>15, <1>16, <1>17 DEF MailInv, MailCounted

LEMMA BoxNextMail ==
    ASSUME CallInv, KernelFits, MailInv, UNCHANGED kind, kind = "mailbox", NEW t \in Threads,
           BoxNext(t, Times)
    PROVE  MailInv'
<1>1. ASSUME NEW b \in BoxOps, BoxInterrupt(b) \/ \E time \in Times : BoxCall(t, b, time)
      PROVE  MailInv'
  BY <1>1, BoxInterruptMail, BoxCallMail
<1>2. QED
  BY <1>1, BoxBackMail, MBResetMail, BoxOpsAre
     DEF BoxNext, MBPostI, MBPostAheadI, MBFetchI, MBFetch, MBPost, MBPostAhead

LEMMA TickMail ==
    ASSUME CallInv, KernelFits, MailInv, UNCHANGED <<kind, boxVars>>, Tick
    PROVE  MailInv'
<1>1. TimesOut(Sems, k, k') /\ UNCHANGED call
  BY TickFits DEF Tick
<1>2. \A t \in Threads : (Runs(k', t) /\ k'.u[t] = "OK") <=> (Runs(k, t) /\ k.u[t] = "OK")
  BY <1>1 DEF TimesOut
<1>3. \A x : OwnersIn(k', call', x) = OwnersIn(k, call, x)
  BY <1>1, <1>2, SameOwners
<1>4. \A x \in Sems : Above(k'.cnt[x]) = Above(k.cnt[x])
  <2>1. \A x \in Sems : x \in Sems \cap Objects /\ Counted(k, x)
    BY SemsAreObjects DEF KernelFits, SemsFit
  <2>2. QED
    BY <1>1, <2>1 DEF TimesOut
<1>5. \A x \in Sems : UnitsIn(k', call', x) = UnitsIn(k, call, x)
  BY <1>3, <1>4 DEF UnitsIn
<1>6. QED
  BY <1>5, BoxWaits

LEMMA MailHolds == CallInv /\ KernelFits /\ MailInv => MailIsKept
<1> SUFFICES ASSUME MailInv, kind = "mailbox" PROVE BoxHoldsMail
  BY DEF MailIsKept
<1>1. Units(Full) + Units(Empty) = BoxSize + stray
  BY UnitsAre DEF MailInv, MailCounted
<1> SUFFICES ASSUME stray = 0
             PROVE  /\ Units(Full) = Len(mail)
                    /\ (rdptr + Len(mail)) % BoxSize = wrptr
                    /\ \A i \in 1..Len(mail) : box[(rdptr + i - 1) % BoxSize] = mail[i]
  BY <1>1 DEF BoxHoldsMail
<1> DEFINE n == Len(mail)
<1>2. Units(Full) = n
  BY UnitsAre DEF MailInv, MailCounted
<1>3. /\ BoxSize \in Nat \ {0} /\ n \in Nat /\ rdptr \in 0..(BoxSize - 1) /\ n <= BoxSize
      /\ Around(BoxSize, rdptr + n) = wrptr
      /\ \A i \in 1..n : box[Around(BoxSize, rdptr + i - 1)] = mail[i]
  BY MBoxesAssumption DEF MailInv, MailOK, Holds
<1> HIDE DEF n
<1>4. \A i \in 0..n : rdptr + i \in Nat /\ rdptr + i < 2 * BoxSize
  BY <1>3
<1>5. \A i \in 0..n : (rdptr + i) % BoxSize = Around(BoxSize, rdptr + i)
  BY <1>3, <1>4, Wraps
<1>6. \A i \in 1..n : rdptr + i - 1 = rdptr + (i - 1) /\ i - 1 \in 0..n
  BY <1>3
<1>7. (rdptr + n) % BoxSize = wrptr
  <2>1. n \in 0..n
    BY <1>3
  <2>2. QED
    BY <1>3, <1>5, <2>1
<1>8. \A i \in 1..n : box[(rdptr + i - 1) % BoxSize] = mail[i]
  BY <1>3, <1>5, <1>6
<1>9. QED
  BY <1>2, <1>7, <1>8 DEF n

-----------------------------------------------------------------------------
(* The initial states.                                                     *)

LEMMA InitialOrder ==
    ASSUME NEW order \in SetToSeqs(Threads \ {Idle})
    PROVE  LET p == Tail(order) \o <<Idle>>
               n == Len(order) IN
           /\ n \in Nat \ {0} /\ DOMAIN order = 1..n /\ IsInjective(order)
           /\ Head(order) = order[1] /\ Head(order) \in Threads \ {Idle}
           /\ \A i \in 1..n : order[i] \in Threads \ {Idle}
           /\ \A t \in Threads \ {Idle} : \E i \in 1..n : order[i] = t
           /\ Queue(p, Threads) /\ ToSet(p) = Threads \ {Head(order)} /\ Len(p) = n
           /\ \A i \in 1..(n - 1) : p[i] = order[i + 1]
           /\ p[n] = Idle
<1> DEFINE S == Threads \ {Idle}
           n == Cardinality(S)
           p == Tail(order) \o <<Idle>>
<1>1. IsFiniteSet(S) /\ S # {} /\ S \subseteq Threads /\ Idle \in Threads
  <2>1. S \subseteq Threads /\ IsFiniteSet(Threads) /\ Threads # {Idle} /\ Idle \in Threads
    BY SchdAssumption, CommAssumption
  <2>2. QED
    BY <2>1, FS_Subset
<1>2. order \in [1..n -> S] /\ \A i, j \in 1..n : i # j => order[i] # order[j]
  BY DEF SetToSeqs
<1>3. n \in Nat /\ n # 0
  BY <1>1, FS_CardinalityType, FS_EmptySet
<1>4. IsInjective(order)
  BY <1>2 DEF IsInjective
<1> HIDE DEF S
<1>5. \A t \in S : \E i \in 1..n : order[i] = t
  <2>1. order \in Injection(1..n, S)
    BY <1>2, <1>4 DEF Injection
  <2>2. Cardinality(1..n) = n
    BY <1>3, FS_Interval
  <2>3. order \in Surjection(1..n, S)
    BY <1>1, <2>1, <2>2, FS_Injection
  <2>4. QED
    BY <2>3 DEF Surjection
<1> HIDE DEF n
<1>6. order \in Seq(S) /\ Len(order) = n
  BY <1>2, <1>3
<1>7. Queue(order, S) /\ order # <<>> /\ ToSet(order) = S
  BY <1>2, <1>3, <1>4, <1>5, <1>6, QueueSet DEF Queue
<1>8. /\ Queue(Tail(order), S) /\ Len(Tail(order)) = n - 1 /\ Head(order) = order[1]
      /\ Head(order) \in S /\ ToSet(Tail(order)) = S \ {Head(order)}
      /\ \A i \in 1..(n - 1) : Tail(order)[i] = order[i + 1]
  BY <1>6, <1>7, TailQueue
<1> DEFINE r == Tail(order)
<1>9. Queue(r, Threads) /\ Idle \notin ToSet(r) /\ r \in Seq(Threads)
  <2>1. r \in Seq(S) /\ IsInjective(r)
    BY <1>8 DEF Queue
  <2>2. r \in Seq(Threads)
    BY <1>1, <2>1
  <2>3. Idle \notin S
    BY DEF S
  <2>4. QED
    BY <1>8, <2>1, <2>2, <2>3 DEF Queue
<1>10. p = Append(r, Idle)
  BY <1>1, <1>9
<1> HIDE DEF p, r
<1>11. Queue(p, Threads) /\ ToSet(p) = ToSet(r) \cup {Idle} /\ Len(p) = Len(r) + 1
  BY <1>1, <1>9, <1>10, AppendedQueue
<1>12. Len(r) = n - 1 /\ ToSet(r) = S \ {Head(order)} /\ \A i \in 1..(n - 1) : r[i] = order[i + 1]
  BY <1>8 DEF r
<1>13. p[n] = Idle /\ \A i \in 1..(n - 1) : p[i] = r[i]
  BY <1>1, <1>3, <1>9, <1>10, <1>12
<1>14. ToSet(p) = Threads \ {Head(order)}
  BY <1>1, <1>8, <1>11, <1>12 DEF S
<1>15. QED
  BY <1>2, <1>3, <1>4, <1>5, <1>6, <1>8, <1>11, <1>12, <1>13, <1>14 DEF S, p

\* The priorities of the threads: one for all, or each its own.
Prios(order, equal) ==
    [t \in Threads |-> IF t = Idle THEN 1 ELSE IF equal THEN 2
                       ELSE 2 + Len(order) - CHOOSE i \in DOMAIN order : order[i] = t]

LEMMA InitialPrios ==
    ASSUME NEW order \in SetToSeqs(Threads \ {Idle}), NEW equal \in BOOLEAN
    PROVE  /\ Prios(order, equal) \in [Threads -> Nat \ {0}]
           /\ Falling(Tail(order) \o <<Idle>>, Prios(order, equal))
           /\ \A t \in Threads : Prios(order, equal)[t] <= Prios(order, equal)[Head(order)]
<1> DEFINE n == Len(order)
           f == Prios(order, equal)
           p == Tail(order) \o <<Idle>>
<1>1. /\ n \in Nat \ {0} /\ DOMAIN order = 1..n /\ IsInjective(order)
      /\ Head(order) = order[1] /\ Head(order) \in Threads \ {Idle}
      /\ \A i \in 1..n : order[i] \in Threads \ {Idle}
      /\ \A t \in Threads \ {Idle} : \E i \in 1..n : order[i] = t
      /\ Len(p) = n /\ \A i \in 1..(n - 1) : p[i] = order[i + 1]
      /\ p[n] = Idle /\ Idle \in Threads
  BY InitialOrder, SchdAssumption
<1> HIDE DEF p
<1>2. f[Idle] = 1 /\ \A i \in 1..n : f[order[i]] = (IF equal THEN 2 ELSE 2 + n - i)
  <2>1. f[Idle] = 1
    BY <1>1 DEF Prios
  <2>2. ASSUME NEW i \in 1..n PROVE f[order[i]] = (IF equal THEN 2 ELSE 2 + n - i)
    <3>1. \A j \in DOMAIN order : order[j] = order[i] => j = i
      BY <1>1 DEF IsInjective
    <3>2. (CHOOSE j \in DOMAIN order : order[j] = order[i]) = i
      BY <1>1, <3>1
    <3>3. order[i] \in Threads /\ order[i] # Idle
      BY <1>1
    <3>4. QED
      BY <3>2, <3>3 DEF Prios
  <2>3. QED
    BY <2>1, <2>2
<1>3. DOMAIN f = Threads
  BY DEF Prios
<1>4. \A t \in Threads : f[t] \in Nat \ {0} /\ f[t] <= f[order[1]]
  <2>1. SUFFICES ASSUME NEW t \in Threads PROVE f[t] \in Nat \ {0} /\ f[t] <= f[order[1]]
    OBVIOUS
  <2>2. f[order[1]] = (IF equal THEN 2 ELSE 2 + n - 1)
    BY <1>1, <1>2
  <2> HIDE DEF f
  <2>3. CASE t = Idle
    BY <1>1, <1>2, <2>2, <2>3
  <2>4. CASE t # Idle
    <3>1. PICK i \in 1..n : order[i] = t
      BY <1>1, <2>4
    <3>2. f[t] = (IF equal THEN 2 ELSE 2 + n - i)
      BY <1>2, <3>1
    <3> HIDE DEF n
    <3>3. QED
      BY <1>1, <2>2, <3>2
  <2>5. QED
    BY <2>3, <2>4
<1>5. \A i \in 1..n : f[p[i]] = (IF i = n THEN 1 ELSE IF equal THEN 2 ELSE 1 + n - i)
  <2>1. SUFFICES ASSUME NEW i \in 1..n
                 PROVE  f[p[i]] = (IF i = n THEN 1 ELSE IF equal THEN 2 ELSE 1 + n - i)
    OBVIOUS
  <2> HIDE DEF f, n
  <2>2. CASE i = n
    BY <1>1, <1>2, <2>2
  <2>3. CASE i # n
    <3>1. i \in 1..(n - 1) /\ i + 1 \in 1..n
      BY <1>1, <2>3
    <3>2. p[i] = order[i + 1] /\ f[order[i + 1]] = (IF equal THEN 2 ELSE 2 + n - (i + 1))
      BY <1>1, <1>2, <3>1
    <3>3. QED
      BY <1>1, <2>3, <3>2
  <2>4. QED
    BY <2>2, <2>3
<1>6. f \in [Threads -> Nat \ {0}]
  <2>1. f = [t \in Threads |-> f[t]]
    BY DEF Prios
  <2> HIDE DEF f
  <2>2. QED
    BY <1>4, <2>1
<1> HIDE DEF f, n
<1>7. \A i, j \in 1..n : i < j => f[p[i]] >= f[p[j]]
  <2>1. SUFFICES ASSUME NEW i \in 1..n, NEW j \in 1..n, i < j PROVE f[p[i]] >= f[p[j]]
    OBVIOUS
  <2>2. n \in Nat
    BY <1>1
  <2>3. f[p[i]] = (IF i = n THEN 1 ELSE IF equal THEN 2 ELSE 1 + n - i)
    BY <1>5
  <2>4. f[p[j]] = (IF j = n THEN 1 ELSE IF equal THEN 2 ELSE 1 + n - j)
    BY <1>5
  <2>5. i # n /\ f[p[i]] = (IF equal THEN 2 ELSE 1 + n - i)
    BY <2>1, <2>2, <2>3
  <2>6. CASE equal
    BY <2>4, <2>5, <2>6
  <2>7. CASE ~equal
    BY <2>1, <2>2, <2>4, <2>5, <2>7
  <2>8. QED
    BY <2>6, <2>7
<1>8. Falling(p, f)
  BY <1>1, <1>7 DEF Falling
<1>9. QED
  BY <1>1, <1>4, <1>6, <1>8 DEF p, f

\* Where the kernel starts.
LEMMA InitialKernel ==
    ASSUME NEW ready, NEW cur \in Threads, NEW prio, NEW cnt \in [Sems -> Int],
           Queue(ready, Threads), ToSet(ready) = Threads \ {cur},
           prio \in [Threads -> Nat \ {0}], Falling(ready, prio),
           \A t \in Threads : prio[t] <= prio[cur],
           \A o \in Sems : cnt[o] >= 0
    PROVE  LET s == InitialState(prio, ready, cur, cnt) IN
           /\ Settled(Notes, Sems, s) /\ TopRuns(s) /\ SemsFit(s)
           /\ \A t \in Threads : Runs(s, t) /\ ~Armed(s, t) /\ s.u[t] = "OK"
           /\ s.cnt = cnt /\ s.queue = [o \in Objects |-> <<>>]
<1> DEFINE s == InitialState(prio, ready, cur, cnt)
<1>1. "OK" \in Notes /\ cur \notin ToSet(ready) /\ \A t \in ToSet(ready) : prio[t] <= prio[cur]
  BY DEF Notes
<1> HIDE DEF s
<1>2. Started(Notes, Sems, ready, cur, cnt, s)
  BY <1>1, StartsSettled DEF s
<1>3. SemsFit(s)
  <2>1. ASSUME NEW o \in Sems PROVE Counted(s, o)
    <3>1. s.queue[o] = <<>> /\ s.cnt[o] \in Int /\ s.cnt[o] >= 0
      BY <1>2, SemsAreObjects DEF Started
    <3>2. QED
      BY <3>1, NothingQueued DEF Counted
  <2>2. QED
    BY <2>1 DEF SemsFit
<1>4. \A t \in Threads : Runs(s, t)
  BY <1>2 DEF Started, Runs, Runnable
<1>5. QED
  BY <1>2, <1>3, <1>4 DEF Started, s

LEMMA CommInitially ==
    ASSUME Init
    PROVE  RingInv /\ KernelFits /\ Patient /\ EventInv /\ NobodyForgotten /\ MailInv
<1> DEFINE cnt == [o \in {Full, Empty} |-> IF o = Empty /\ kind = "mailbox" THEN BoxSize ELSE 0]
<1>1. PICK order \in SetToSeqs(Threads \ {Idle}), equal \in BOOLEAN :
         k = InitialState(Prios(order, equal), Tail(order) \o <<Idle>>, Head(order), cnt)
  BY DEF Init, Prios
<1>2. /\ cnt \in [Sems -> Int] /\ cnt[Full] = 0 /\ (kind = "mailbox" => cnt[Empty] = BoxSize)
      /\ \A o \in Sems : cnt[o] >= 0 /\ (kind = "binary" => cnt[o] <= 1)
  BY MBoxesAssumption DEF Sems
<1> DEFINE p == Tail(order) \o <<Idle>>
           f == Prios(order, equal)
<1>3. /\ Queue(p, Threads) /\ ToSet(p) = Threads \ {Head(order)} /\ Head(order) \in Threads
      /\ f \in [Threads -> Nat \ {0}] /\ Falling(p, f)
      /\ \A t \in Threads : f[t] <= f[Head(order)]
  BY InitialOrder, InitialPrios
<1>4. k = InitialState(f, p, Head(order), cnt)
  BY <1>1
<1> HIDE DEF p, f, cnt
<1>5. /\ Settled(Notes, Sems, k) /\ TopRuns(k) /\ SemsFit(k)
      /\ \A t \in Threads : Runs(k, t) /\ ~Armed(k, t) /\ k.u[t] = "OK"
      /\ k.cnt = cnt /\ k.queue = [o \in Objects |-> <<>>]
  BY <1>2, <1>3, <1>4, InitialKernel
<1>6. \A t \in Threads : call[t] = User
  BY DEF Init
<1>7. KernelFits
  <2>1. CallsFit(kind, call, k)
    BY <1>5 DEF CallsFit
  <2>2. QED
    BY <1>2, <1>5, <1>6, <2>1, SchdAssumption DEF KernelFits
<1>8. Patient /\ Answered(call, k, pending)
  BY <1>6, CallNames DEF Patient, Answered
<1>9. EventsOK
  BY DEF Init, EventsInit, EventsOK
<1>10. NobodyForgotten
  BY <1>5, SemsAreObjects DEF NobodyForgotten
<1>11. MailInv
  <2>1. BoxSize \in Nat \ {0} /\ Full \in Sems /\ Empty \in Sems
    BY MBoxesAssumption, SemsAreObjects
  <2>2. /\ box = [i \in 0..(BoxSize - 1) |-> None] /\ wrptr = 0 /\ rdptr = 0 /\ mail = <<>>
        /\ stray = 0 /\ 0 \in 0..(BoxSize - 1)
    BY <2>1 DEF Init, BoxInit
  <2>3. DOMAIN box = 0..(BoxSize - 1) /\ box \in [0..(BoxSize - 1) -> Msgs \cup {None}]
    BY <2>2
  <2>4. Holds(BoxSize, box, 0, 0, <<>>) /\ <<>> \in Seq(Msgs) /\ Len(<<>>) = 0
    BY <2>1, <2>3, RingIsEmpty
  <2>5. MailOK
    BY <2>2, <2>3, <2>4 DEF MailOK
  <2>6. \A o : OwnersIn(k, call, o) = {}
    BY <1>6, CallNames DEF OwnersIn
  <2>7. ASSUME kind = "mailbox" PROVE MailCounted
    <3>1. UnitsIn(k, call, Full) = Above(0) + 0 /\ UnitsIn(k, call, Empty) = Above(BoxSize) + 0
      BY <1>2, <1>5, <2>6, <2>7, FS_EmptySet DEF UnitsIn
    <3>2. QED
      BY <2>1, <2>2, <2>4, <3>1 DEF MailCounted, Above
  <2>8. QED
    BY <2>5, <2>7 DEF MailInv
<1>12. QED
  BY <1>7, <1>8, <1>9, <1>10, <1>11, RingInitially DEF EventInv

-----------------------------------------------------------------------------
(* The invariant, whatever the objects are.                                *)

\* Every conjunct needs the others: who is counted by a semaphore depends on
\* where the kernel has put it, and where a thread sleeps on what its call says.
CommInv ==
    RingInv /\ KernelFits /\ Patient /\ EventInv /\ NobodyForgotten /\ MailInv

\* Whoever is not in a call with events is not concerned by them, and so on
\* for the others.
LEMMA NoEvents ==
    ASSUME CallInv', EventsOK, UNCHANGED eventVars, kind' \notin {"event", "source"}
    PROVE  EventInv'
<1>1. EventsOK'
  BY DEF EventsOK, eventVars
<1>2. ASSUME NEW t \in Threads PROVE call'[t].op # "event"
  <2>1. call'[t] \in CallsOf(kind') /\ kind' \in Kinds
    BY DEF CallInv
  <2>2. CallsOf(kind') \subseteq {User, SemCall, QueueCall} \cup BoxOps
    <3>1. kind' \in Others \cup Queues
      BY <2>1, CommAssumption
    <3>2. kind' \in {"semaphore", "binary", "mailbox"} \/ kind' \in Queues
      BY <3>1 DEF Others
    <3>3. QED
      BY <3>2 DEF CallsOf
  <2>3. QED
    BY <2>1, <2>2, CallNames
<1>3. QED
  BY <1>1, <1>2 DEF EventInv, Answered

LEMMA ForgottenIs ==
    CallInv /\ KernelFits => (NobodyForgotten <=> (kind \in Queues => Enough))
  BY EnoughIs

LEMMA ForgottenIsNext ==
    CallInv' /\ KernelFits' => (NobodyForgotten' <=> (kind \in Queues => Enough)')
  BY ForgottenIs, PTL

LEMMA NoMail ==
    ASSUME MailInv, UNCHANGED <<kind, boxVars>>, kind # "mailbox"
    PROVE  MailInv'
  BY MailStays

LEMMA CommStep ==
    ASSUME CommInv, [Next]_vars
    PROVE  CommInv'
<1>1. RingInv' /\ CallInv'
  BY RingStep DEF CommInv, RingInv
<1>2. /\ CallInv /\ KernelFits /\ Patient /\ EventInv /\ EventsOK /\ MailInv /\ RingInv
      /\ kind \in Queues => Enough
  BY ForgottenIs DEF CommInv, RingInv, EventInv
<1>3. SUFFICES KernelFits' /\ Patient' /\ EventInv' /\ (kind \in Queues => Enough)' /\ MailInv'
  BY <1>1, ForgottenIsNext DEF CommInv
<1>4. CASE UNCHANGED vars
  <2>1. UNCHANGED <<k, call, kind, boxVars, queueVars, eventVars>>
    BY <1>4 DEF vars
  <2>2. KernelFits'
    BY <1>2, <2>1, KernelIsBetween, StepReturns DEF KernelFits, Binary
  <2>3. Patient' /\ EventInv'
    BY <1>2, <2>1 DEF Patient, EventInv, EventsOK, Answered, AnsweredTo, Runs, queueVars, eventVars
  <2>4. (kind \in Queues => Enough)'
    BY <1>2, <2>1 DEF Enough, LetGo, queueVars
  <2>5. MailInv'
    BY <1>2, <2>1, MailStays
  <2>6. QED
    BY <2>2, <2>3, <2>4, <2>5
<1>5. CASE Next
  <2>1. UNCHANGED kind
    BY <1>5 DEF Next
  <2>2. CASE TickStep
    <3>1. Tick /\ UNCHANGED <<boxVars, queueVars, eventVars>>
      BY <2>2 DEF TickStep
    <3>2. KernelFits' /\ UNCHANGED call
      BY <1>2, <2>1, <3>1, TickFits DEF Tick
    <3>3. Patient'
      BY <1>2, <3>1, <3>2 DEF Patient, queueVars
    <3>4. EventInv'
      BY <1>2, <2>1, <3>1, EventTickFits
    <3>5. kind \in Queues => Enough'
      BY <1>1, <1>2, <2>1, <3>1, TickEnough
    <3>6. MailInv'
      BY <1>2, <2>1, <3>1, TickMail
    <3>7. QED
      BY <2>1, <3>2, <3>3, <3>4, <3>5, <3>6
  <2>3. ASSUME NEW t \in Threads, UNCHANGED <<queueVars, eventVars>>,
               \/ kind = "semaphore" /\ SemNext(t)
               \/ kind = "binary" /\ BSemNext(t)
        PROVE  KernelFits' /\ Patient' /\ EventInv' /\ (kind \in Queues => Enough)' /\ MailInv'
    <3>1. UNCHANGED boxVars /\ kind \in {"semaphore", "binary"} /\ kind \notin Queues
      BY <2>3, CommAssumption DEF SemNext, BSemNext, Others
    <3>2. KernelFits' /\ CallsOnly(t)
      BY <1>2, <2>1, <2>3, SemsNextFits, SemCalls
    <3>3. Patient' /\ EventInv' /\ MailInv'
      BY <1>1, <1>2, <2>1, <2>3, <3>1, <3>2, PatientStays, NoEvents, NoMail
    <3>4. QED
      BY <2>1, <3>1, <3>2, <3>3
  <2>4. ASSUME NEW t \in Threads, UNCHANGED <<queueVars, eventVars>>,
               kind = "mailbox", BoxNext(t, Times)
        PROVE  KernelFits' /\ Patient' /\ EventInv' /\ (kind \in Queues => Enough)' /\ MailInv'
    <3>1. kind \notin Queues
      BY <2>4, CommAssumption DEF Others
    <3>2. KernelFits' /\ CallsOnly(t)
      BY <1>2, <2>1, <2>4, BoxNextFits, BoxCalls
    <3>3. Patient' /\ EventInv' /\ MailInv'
      BY <1>1, <1>2, <2>1, <2>4, <3>2, PatientStays, NoEvents, BoxNextMail
    <3>4. QED
      BY <2>1, <3>1, <3>2, <3>3
  <2>5. ASSUME NEW t \in Threads, UNCHANGED <<boxVars, eventVars>>,
               kind \in Queues, QueueNext(t, kind, Times, Lengths)
        PROVE  KernelFits' /\ Patient' /\ EventInv' /\ (kind \in Queues => Enough)' /\ MailInv'
    <3>1. kind \notin Others
      BY <2>5, CommAssumption
    <3>2. KernelFits'
      BY <1>2, <2>1, <2>5, QueueNextFits
    <3>3. Enough'
      BY <1>1, <1>2, <2>1, <2>5, <3>2, QueueNextEnough
    <3>4. kind # "event" /\ kind # "source" /\ kind # "mailbox"
      BY <3>1 DEF Others
    <3>5. Patient' /\ EventInv' /\ MailInv'
      BY <1>1, <1>2, <2>1, <2>5, <3>4, PatientStays, NoEvents, NoMail
    <3>6. QED
      BY <2>1, <3>2, <3>3, <3>5
  <2>6. ASSUME NEW t \in Threads, UNCHANGED <<boxVars, queueVars>>,
               \/ kind = "event" /\ EventNext(t, Times)
               \/ kind = "source" /\ SourceNext(t, Times)
        PROVE  KernelFits' /\ Patient' /\ EventInv' /\ (kind \in Queues => Enough)' /\ MailInv'
    <3>1. kind \notin Queues /\ kind # "binary" /\ kind # "mailbox"
      BY <2>6, CommAssumption DEF Others
    <3>2. KernelFits' /\ EventInv'
      BY <1>2, <2>1, <2>6, <3>1, EventNextFits
    <3>3. CallsOnly(t)
      BY <1>2, <2>1, <2>6, EventCallsKeep
    <3>4. Patient' /\ MailInv'
      BY <1>2, <2>1, <2>6, <3>1, <3>3, PatientStays, NoMail
    <3>5. QED
      BY <2>1, <3>1, <3>2, <3>4
  <2>7. QED
    BY <1>5, <2>2, <2>3, <2>4, <2>5, <2>6 DEF Next
<1>6. QED
  BY <1>4, <1>5

\* The calls, the kernel under them and what they exchange fit together in
\* every state that any number of threads and interrupt handlers reaches; of a
\* mailbox only the number of its units is known after a reset that overtook a
\* thread that was let go.
THEOREM CommInvariant == Spec => []CommInv
<1>1. Init => CommInv
  BY CommInitially DEF CommInv
<1>2. CommInv /\ [Next]_vars => CommInv'
  BY CommStep
<1>3. QED
  BY <1>1, <1>2, PTL DEF Spec

\* What chsem.c asserts wherever it is entered: a semaphore is as far below
\* zero as threads wait on it, and a binary one counts to one at most,
\* whatever was signalled, reset, taken or timed out.
THEOREM SemsAreCounted == Spec => []SemsCount
<1>1. CommInv => SemsCount
  <2>1. SUFFICES ASSUME CommInv PROVE SemsCount
    OBVIOUS
  <2>2. k.cnt \in [Sems -> Int] /\ SemsFit(k) /\ (kind = "binary" => \A o \in Sems : k.cnt[o] <= 1)
    BY <2>1 DEF CommInv, KernelFits, Settled, KernelStates
  <2>3. QED
    BY <2>2 DEF SemsCount, SemConsistent, SemsFit, Counted
<1>2. QED
  BY <1>1, CommInvariant, PTL

\* Each message and each free place of a mailbox is counted by its semaphore
\* or owned by one thread that was let go, through every wrap and time-out,
\* with one unit more for each such thread that the last reset overtook.  If
\* it overtook none, the ring holds the messages posted since and not fetched,
\* in order.
THEOREM MailKept == Spec => []MailIsKept
<1>1. CommInv => MailIsKept
  BY MailHolds DEF CommInv, RingInv
<1>2. QED
  BY <1>1, CommInvariant, PTL

\* While threads wait on an I/O queue, as many have been let go and have not
\* run since as there are bytes (or places) to take: no wake-up is lost to a
\* thread that took the byte first, gave up or came back too late.
THEOREM NoLostWakeUp == Spec => []NobodyForgotten
<1>1. CommInv => NobodyForgotten
  BY DEF CommInv
<1>2. QED
  BY <1>1, CommInvariant, PTL

\* No thread sleeps on events that have come, and none is told that they have
\* come that does not find them, whatever is signalled, broadcast or timed
\* out between its wake-up and the moment it runs.
THEOREM EventsAreAnswered == Spec => []EventsAnswered
<1>1. CommInv => EventsAnswered
  BY AnsweredIs DEF CommInv, EventInv
<1>2. QED
  BY <1>1, CommInvariant, PTL

\* Under every kind of object each thread is in the one queue its state says,
\* the most urgent thread runs, and no timer is cut short or overrun.
THEOREM SchedulerIsSound == Spec => [](PlacesOK /\ HighestRuns /\ TimersOnTime)
<1>1. CommInv => PlacesOK /\ HighestRuns /\ TimersOnTime
  BY SettledIsSound DEF CommInv, KernelFits
<1>2. QED
  BY <1>1, CommInvariant, PTL
=============================================================================
