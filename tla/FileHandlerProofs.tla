------------------------- MODULE FileHandlerProofs -------------------------
(* Theorems about FileHandler, for every set of keys, pages and addresses:  *)
(* its names, lock and handle; its types; that it implements FileStore.     *)
EXTENDS FileHandler, SequenceTheorems, TLAPS

-----------------------------------------------------------------------------
(* File names                                                              *)

\* What the masks of ASIF_FS.h make of a key, alone and with the data bit
LEMMA Masks ==
    ASSUME NEW k \in Nat, k < 12288
    PROVE  /\ k % 16384 = k
           /\ k \div 16384 = 0 /\ k \div 32768 = 0
           /\ (k + 16384) % 16384 = k /\ (k + 16384) \div 16384 = 1
<1>1. k % 16384 = k
  BY SMT
<1>2. k \div 16384 = 0
  BY SMT
<1>3. k \div 32768 = 0
  BY SMT
<1>4. (k + 16384) % 16384 = k
  BY SMT
<1>5. (k + 16384) \div 16384 = 1
  BY SMT
<1> QED
  BY <1>1, <1>2, <1>3, <1>4, <1>5

\* The names of a program's two files
LEMMA ProgramNames ==
    ASSUME NEW k \in Keys
    PROVE  /\ k \in Nat /\ ID2PGM(k) = k /\ ID2DAT(k) = k + DatMask
           /\ Name(k) = [of |-> k, ext |-> "HEX"]
           /\ Name(k + DatMask) = [of |-> k, ext |-> "DAT"]
           /\ k + DatMask # SYSTEM /\ k # SYSTEM
<1>1. k \in Nat /\ k < 12288
  <2>1. k \in 0..(12288 - 1)
    BY KeysAssumption DEF KeysAssumption, FileIdMax
  <2> QED
    BY <2>1, SMT
<1>2. ID2PGM(k) = k /\ ID2DAT(k) = k + DatMask
  BY <1>1, Masks, SMT DEF ID2PGM, ID2DAT, DatMask
<1>3. /\ k \notin OnNode /\ k # SYSTEM /\ k # LOG
      /\ k + DatMask \notin OnNode /\ k + DatMask # SYSTEM
      /\ k + DatMask # LOG
  BY <1>1, SMT DEF OnNode, SYSTEM, LOG, DatMask
<1>4. /\ k % DatMask = k /\ k \div DatMask = 0 /\ k \div JpgMask = 0
      /\ (k + DatMask) % DatMask = k /\ (k + DatMask) \div DatMask = 1
  BY <1>1, Masks DEF DatMask, JpgMask
<1>5. 0 % 2 = 0 /\ 1 % 2 = 1
  BY SMT
<1>6. Name(k) = [of |-> k, ext |-> "HEX"]
  BY <1>3, <1>4, <1>5 DEF Name
<1>7. Name(k + DatMask) = [of |-> k, ext |-> "DAT"]
  BY <1>3, <1>4, <1>5 DEF Name
<1> QED
  BY <1>1, <1>2, <1>3, <1>6, <1>7

LEMMA SystemName == Name(SYSTEM) = [of |-> SYSTEM, ext |-> "MEM"]
<1>1. SYSTEM \notin OnNode /\ SYSTEM # LOG
  BY SMT DEF SYSTEM, LOG, OnNode
<1> QED
  BY <1>1 DEF Name

\* No two files of the system share a name: getFilename forgets nothing of an
\* id that tells files apart, for all keys that allocFile gives out.
THEOREM NamesDiffer ==
    \A a, b \in FileIds : Name(a) = Name(b) => a = b
<1> DEFINE Program(a) == a \in Keys /\ Name(a) = [of |-> a, ext |-> "HEX"]
           Data(a) == \E k \in Keys : /\ a = k + DatMask
                                     /\ Name(a) = [of |-> k, ext |-> "DAT"]
           System(a) == /\ a = SYSTEM
                        /\ Name(a) = [of |-> SYSTEM, ext |-> "MEM"]
<1>1. ASSUME NEW a \in FileIds
      PROVE  Program(a) \/ Data(a) \/ System(a)
  <2>1. CASE \E k \in Keys : a = ID2PGM(k)
    <3> PICK k \in Keys : a = ID2PGM(k)
      BY <2>1
    <3>1. a = k /\ Name(k) = [of |-> k, ext |-> "HEX"]
      BY ProgramNames
    <3> QED
      BY <3>1
  <2>2. CASE \E k \in Keys : a = ID2DAT(k)
    <3> PICK k \in Keys : a = ID2DAT(k)
      BY <2>2
    <3>1. a = k + DatMask /\ Name(k + DatMask) = [of |-> k, ext |-> "DAT"]
      BY ProgramNames
    <3> QED
      BY <3>1
  <2>3. CASE a = SYSTEM
    BY <2>3, SystemName
  <2> QED
    BY <2>1, <2>2, <2>3 DEF FileIds
<1>2. ASSUME NEW a \in FileIds, NEW b \in FileIds, Name(a) = Name(b)
      PROVE  a = b
  <2>1. Program(a) /\ Program(b) => a = b
    <3>1. /\ Program(a) => Name(a).of = a
          /\ Program(b) => Name(b).of = b
      OBVIOUS
    <3> HIDE DEF Program
    <3> QED
      BY <1>2, <3>1
  <2>2. Data(a) /\ Data(b) => a = b
    BY <1>2
  <2>3. /\ Program(a) => Name(a).ext = "HEX"
        /\ Program(b) => Name(b).ext = "HEX"
        /\ Data(a) => Name(a).ext = "DAT"
        /\ Data(b) => Name(b).ext = "DAT"
        /\ System(a) => Name(a).ext = "MEM"
        /\ System(b) => Name(b).ext = "MEM"
    OBVIOUS
  <2> HIDE DEF Program, Data
  <2> QED
    BY <1>1, <1>2, <2>1, <2>2, <2>3
<1> QED
  BY <1>2

\* The name of no file is the empty one
LEMMA NotClosed == \A id : Name(id) # Closed
<1>1. \A id : Name(id).ext \in {"HEX", "MEM", "LOG", "DAT", "JPG"}
  BY DEF Name
<1>2. Closed.ext = ""
  BY DEF Closed, NoName
<1>3. QED
  BY <1>1, <1>2

-----------------------------------------------------------------------------
(* The lock, the name and the handle                                       *)

PcOK == sd \in Threads \cup {Nobody} /\ pc \in [Threads -> Steps]

\* A thread is between lockSD and unlockSD exactly when it holds the lock
HolderInside ==
    \A t \in Threads : sd = t <=> pc[t] \notin {"idle", "lock"}

Transferring(t) == pc[t] \in {"transfer", "close"}

\* The object is open while one transfers, or from a failed open on
OpenIsHeld ==
    /\ open # Closed <=> stuck \/ \E t \in Threads : Transferring(t)
    /\ stuck => \A t \in Threads : ~Transferring(t)

\* OwnFile speaks of the thread inside alone: it is inductive with the fact that
\* there is only one.
LockInv == PcOK /\ HolderInside /\ OpenIsHeld /\ OwnFile

\* A step of t that stays inside, and after which OwnFile and OpenIsHeld hold of
\* t, disturbs nobody: no other thread is inside.
LEMMA InsideStep ==
    ASSUME LockInv, NEW t \in Threads, NEW step \in Steps \ {"idle", "lock"},
           pc[t] \notin {"idle", "lock"},
           pc' = [pc EXCEPT ![t] = step], sd' = sd,
           \A u \in Threads \ {t} : req'[u] = req[u],
           step = "open" => name' = Name(req'[t].id),
           step \in {"transfer", "close"} => ~stuck' /\ open' = Name(req'[t].id),
           step \notin {"transfer", "close"} => (open' # Closed <=> stuck')
    PROVE  LockInv'
<1>1. \A u \in Threads \ {t} : pc[u] \in {"idle", "lock"} /\ pc'[u] = pc[u]
  BY DEF LockInv, PcOK, HolderInside
<1>2. PcOK' /\ pc'[t] = step
  BY DEF LockInv, PcOK
<1>3. HolderInside'
  BY <1>1, <1>2 DEF LockInv, PcOK, HolderInside
<1>4. OpenIsHeld'
  BY <1>1, <1>2, NotClosed DEF OpenIsHeld, Transferring
<1>5. OwnFile'
  BY <1>1, <1>2 DEF OwnFile, At
<1> QED
  BY <1>2, <1>3, <1>4, <1>5 DEF LockInv

\* Outside transfer and close the handle is closed, or stuck
LEMMA ClosedOutside ==
    ASSUME LockInv, NEW t \in Threads, pc[t] \in {"name", "open", "unlock"}
    PROVE  open # Closed <=> stuck
BY DEF LockInv, HolderInside, OpenIsHeld, Transferring

LEMMA NotStuck ==
    ASSUME LockInv, NEW t \in Threads, Transferring(t)
    PROVE  ~stuck
BY DEF LockInv, OpenIsHeld

LEMMA InsideKeeps ==
    ASSUME LockInv, NEW t \in Threads, Inside(t)
    PROVE  LockInv'
<1> USE DEF At, Goto
<1>1. CASE GetFilename(t)
  BY <1>1, InsideStep, ClosedOutside DEF GetFilename, Steps
<1>2. ASSUME NEW ok \in CardOutcomes, Open(t, ok)
      PROVE  LockInv'
  <2>1. /\ name = Name(req[t].id) /\ name # Closed /\ (open # Closed <=> stuck)
        /\ pc[t] = "open" /\ UNCHANGED <<sd, name, req>>
    BY <1>2, ClosedOutside, NotClosed DEF Open, LockInv, OwnFile
  <2>2. PICK step \in {"transfer", "close", "unlock"} :
            /\ pc' = [pc EXCEPT ![t] = step]
            /\ step # "unlock" => ~stuck' /\ open' = name
            /\ step = "unlock" => (open' # Closed <=> stuck')
    <3>1. CASE OpenRefused(t)
      BY <2>1, <3>1 DEF OpenRefused
    <3>2. CASE OpenFails(t, ok)
      BY <2>1, <3>2 DEF OpenFails
    <3>3. CASE OpenStays(t, ok)
      BY <2>1, <3>3 DEF OpenStays
    <3>4. CASE OpenSucceeds(t, ok)
      BY <2>1, <3>4 DEF OpenSucceeds
    <3>5. QED
      BY <1>2, <3>1, <3>2, <3>3, <3>4 DEF Open
  <2>3. QED
    BY <2>1, <2>2, InsideStep DEF Steps
<1>3. ASSUME NEW ok \in CardOutcomes, Close(t, ok)
      PROVE  LockInv'
  <2>1. ~stuck
    BY <1>3, NotStuck DEF Close, Transferring
  <2>2. QED
    BY <1>3, <2>1, InsideStep DEF Close, Steps
<1>4. CASE Transfer(t)
  <2>1. /\ pc[t] = "transfer" /\ open = Name(req[t].id) /\ ~stuck
        /\ UNCHANGED <<sd, name, open, stuck, req>>
        /\ \E step \in {"transfer", "close"} :
               pc' = [pc EXCEPT ![t] = step]
    <3>1. pc[t] = "transfer" /\ UNCHANGED <<sd, name, open, stuck, req>>
      BY <1>4 DEF Transfer, FileSize, ReadByte, WriteByte, VerifyByte,
                  LoopDone, Unfinished
    <3>2. pc = [pc EXCEPT ![t] = "transfer"]
      BY <3>1 DEF LockInv, PcOK
    <3>3. ~stuck
      BY <3>1, NotStuck DEF Transferring
    <3> QED
      BY <1>4, <3>1, <3>2, <3>3
         DEF Transfer, FileSize, ReadByte, WriteByte, VerifyByte, LoopDone,
             Unfinished, LockInv, OwnFile
  <2> QED
    BY <2>1, InsideStep DEF Steps
<1>5. CASE UnlockSD(t)
  <2>1. UNCHANGED <<open, stuck>> /\ (open # Closed <=> stuck) /\ sd = t /\ t # Nobody
    BY <1>5, ClosedOutside DEF UnlockSD, LockInv, HolderInside, Threads, Nobody
  <2>2. \A u \in Threads : pc'[u] \in {"idle", "lock"}
    BY <1>5, <2>1 DEF UnlockSD, LockInv, PcOK, HolderInside
  <2>3. OpenIsHeld'
    BY <2>1, <2>2 DEF OpenIsHeld, Transferring
  <2> QED
    BY <1>5, <2>1, <2>2, <2>3
       DEF UnlockSD, LockInv, PcOK, Steps, HolderInside, OwnFile,
           Threads, Nobody
<1> QED
  BY <1>1, <1>2, <1>3, <1>4, <1>5 DEF Inside

LEMMA CallKeeps ==
    ASSUME LockInv, NEW t \in Threads, NEW r \in Requests[t], Call(t, r)
    PROVE  LockInv'
BY DEF Call, At, Goto, LockInv, PcOK, Steps, HolderInside, OpenIsHeld, Transferring, OwnFile

LEMMA LockKeeps ==
    ASSUME LockInv, NEW t \in Threads, LockSD(t)
    PROVE  LockInv'
<1>1. \A u \in Threads : pc[u] \in {"idle", "lock"}
  BY DEF LockSD, LockInv, HolderInside, Threads, Nobody
<1> QED
  BY <1>1 DEF LockSD, At, Goto, LockInv, PcOK, Steps, HolderInside, OpenIsHeld,
              Transferring, OwnFile

THEOREM LockInvariant == Spec => []LockInv
<1>1. Init => LockInv
  BY DEF Init, LockInv, PcOK, Steps, HolderInside, OpenIsHeld, Transferring, OwnFile, At,
         Threads, Nobody
<1>2. LockInv /\ [Next]_vars => LockInv'
  <2> SUFFICES ASSUME LockInv, [Next]_vars PROVE LockInv'
    OBVIOUS
  <2>1. CASE Next
    BY <2>1, InsideKeeps, CallKeeps, LockKeeps DEF Next
  <2>2. CASE UNCHANGED vars
    BY <2>2 DEF vars, LockInv, PcOK, HolderInside, OpenIsHeld, Transferring, OwnFile, At
  <2> QED
    BY <2>1, <2>2
<1> QED
  BY <1>1, <1>2, PTL DEF Spec

\* A thread finds its own file under the shared name and handle: for every set
\* of keys and files, and whatever the SD card does.
THEOREM AlwaysOwnFile == Spec => []OwnFile
<1>1. LockInv => OwnFile
  BY DEF LockInv
<1> QED
  BY <1>1, LockInvariant, PTL

\* No return of any operation leaves the card locked, and none but that of a
\* write whose open failed in its last seek leaves the file open: after it, no
\* file is ever opened again.
THEOREM NeverLeft == Spec => []NothingLeft
<1>1. LockInv => NothingLeft
  BY DEF LockInv, PcOK, HolderInside, OpenIsHeld, Transferring, NothingLeft
<1> QED
  BY <1>1, LockInvariant, PTL

-----------------------------------------------------------------------------
(* The types: names, positions, files and answers                          *)

Typed(r) == r.id \in FileIds /\ r.at \in Nat /\ r.data \in Seq(Bytes)

\* What the callers ask for has an id, an address and a buffer
LEMMA RequestsTyped == \A t \in Threads : \A r \in Requests[t] : Typed(r)
<1> SUFFICES ASSUME NEW t \in Threads, NEW r \in Requests[t] PROVE Typed(r)
  OBVIOUS
<1>1. <<>> \in Seq(Bytes) /\ 0 \in Nat
  OBVIOUS
<1>2. /\ \A p \in Pages : p \in Seq(Bytes)
      /\ \A a \in Addresses : a \in Nat
  BY PagesAssumption, AddressesAssumption DEF PagesAssumption, AddressesAssumption
<1>3. /\ SYSTEM \in FileIds
      /\ \A k \in Keys : ID2PGM(k) \in FileIds /\ ID2DAT(k) \in FileIds
  BY DEF FileIds
<1>4. ASSUME NEW op, NEW id \in FileIds, r \in PageRequests(op, id) PROVE Typed(r)
  <2>1. PICK a \in Addresses, p \in Pages : r = Ask(op, id, a, p)
    BY <1>4 DEF PageRequests
  <2>2. r.id = id /\ r.at = a /\ r.data = p
    BY <2>1 DEF Ask
  <2>3. QED
    BY <1>2, <2>2 DEF Typed
<1>5. CASE r \in SaveRequests
  <2>1. PICK data \in {<<>>} \cup Pages : \E op : r = Ask(op, SYSTEM, 0, data)
    BY <1>5 DEF SaveRequests
  <2>2. r.id = SYSTEM /\ r.at = 0 /\ r.data = data
    BY <2>1 DEF Ask
  <2>3. QED
    BY <1>1, <1>2, <1>3, <2>2 DEF Typed
<1>6. ASSUME NEW k \in Keys, r \in IdeRequests(k) \cup EnodeRequests(k) \cup SensorRequests(k)
      PROVE  Typed(r)
  <2>1. CASE \E op : \E id \in {ID2PGM(k), ID2DAT(k)} : r \in PageRequests(op, id)
    BY <1>3, <1>4, <2>1
  <2>2. CASE \E op : \E id \in {ID2PGM(k), ID2DAT(k)} : r = Ask(op, id, 0, <<>>)
    BY <1>1, <1>3, <2>2 DEF Ask, Typed
  <2>3. CASE \E p \in Pages : r = Ask("append", ID2DAT(k), 0, p)
    BY <1>1, <1>2, <1>3, <2>3 DEF Ask, Typed
  <2>4. QED
    BY <1>6, <2>1, <2>2, <2>3 DEF IdeRequests, EnodeRequests, SensorRequests
<1>7. QED
  BY <1>5, <1>6 DEF Requests

\* The card: the name and the handle are names of files, the position is in
\* the file
CardOK ==
    /\ name \in Names \cup {NoName}
    /\ open \in Names \cup {Closed}
    /\ pos \in Nat
    /\ open # Closed => pos <= Len(files[open].bytes)
    /\ was \in Files
    /\ stuck \in BOOLEAN
    /\ files \in [Names -> Files]

CallsOK ==
    /\ req \in [Threads -> AllRequests]
    /\ \A t \in Threads : IF At(t, "idle") THEN req[t] = NoRequest
                                           ELSE req[t] \in Requests[t]

RepliesOK == reply \in [Threads -> [sound : BOOLEAN, n : Nat, bytes : Seq(Bytes)]]

LEMMA NoRequestTyped == NoRequest \in AllRequests
BY DEF AllRequests

LEMMA TypeParts ==
    /\ TypeOK <=> PcOK /\ CardOK /\ CallsOK /\ RepliesOK
    /\ TypeOK' <=> PcOK' /\ CardOK' /\ CallsOK' /\ RepliesOK'
BY DEF TypeOK, PcOK, CardOK, CallsOK, RepliesOK

TypeInv == LockInv /\ TypeOK

\* The request of a thread that is inside
LEMMA InsideTyped ==
    ASSUME TypeInv, NEW t \in Threads, pc[t] # "idle"
    PROVE  req[t] \in Requests[t] /\ Typed(req[t]) /\ Name(req[t].id) \in Names
<1>1. req[t] \in Requests[t]
  BY DEF TypeInv, TypeOK, At
<1>2. QED
  BY <1>1, RequestsTyped DEF Typed, Names

\* A step of t inside leaves the requests alone
LEMMA CallsKept ==
    ASSUME TypeInv, NEW t \in Threads, pc[t] # "idle", req' = req,
           NEW step \in Steps \ {"idle"}, pc' = [pc EXCEPT ![t] = step]
    PROVE  CallsOK'
<1>1. \A u \in Threads : pc[u] = "idle" <=> pc'[u] = "idle"
  BY DEF TypeInv, TypeOK
<1>2. QED
  BY <1>1 DEF TypeInv, TypeOK, CallsOK, At

LEMMA CountTyped ==
    ASSUME RepliesOK, NEW t \in Threads, NEW n \in Nat, NEW ok \in BOOLEAN, Count(t, n, ok)
    PROVE  RepliesOK'
BY DEF RepliesOK, Count

LEMMA OpenedTyped ==
    ASSUME NEW r, NEW file \in Files
    PROVE  Opened(r, file) \in Files
BY DEF Opened, Present, Files

LEMMA OutcomesTyped == CardOutcomes \subseteq BOOLEAN
BY DEF CardOutcomes

LEMMA OpenTyped ==
    ASSUME TypeInv, NEW t \in Threads, NEW ok \in CardOutcomes, Open(t, ok)
    PROVE  TypeOK'
<1> DEFINE r == req[t]
<1>1. /\ name \in Names /\ name' = name /\ Typed(r)
      /\ CardOK /\ RepliesOK /\ ok \in BOOLEAN /\ pc[t] = "open"
  BY InsideTyped, OutcomesTyped, TypeParts DEF TypeInv, Open, At, LockInv, OwnFile
<1>2. files[name] \in Files /\ files[name].bytes \in Seq(Bytes) /\ Len(files[name].bytes) \in Nat
  BY <1>1 DEF CardOK, Files
<1>3. [files EXCEPT ![name] = Opened(r, @)] \in [Names -> Files]
  BY <1>1, <1>2, OpenedTyped DEF CardOK
<1>4. PICK step \in {"close", "transfer", "unlock"} : pc' = [pc EXCEPT ![t] = step]
  BY DEF Open, OpenRefused, OpenFails, OpenStays, OpenSucceeds, Goto
<1>5. CallsOK'
  BY <1>1, <1>4, CallsKept DEF Open, Steps
<1>6. RepliesOK'
  BY <1>1, CountTyped DEF Open, OpenRefused, OpenFails, OpenStays, OpenSucceeds
<1>7. CardOK'
  <2>1. CASE OpenRefused(t)
    BY <1>1, <2>1 DEF OpenRefused, CardOK
  <2>2. CASE OpenFails(t, ok)
    <3>1. files' \in [Names -> Files]
      BY <1>1, <1>3, <2>2 DEF OpenFails, CardOK
    <3>2. QED
      BY <1>1, <2>2, <3>1 DEF OpenFails, CardOK
  <2>3. CASE OpenStays(t, ok)
    BY <1>1, <1>2, <2>3 DEF OpenStays, CardOK
  <2>4. CASE OpenSucceeds(t, ok)
    <3>1. /\ open' = name /\ was' = files[name] /\ stuck' = stuck
          /\ files' = [files EXCEPT ![name] = Opened(r, @)]
          /\ pos' = IF ok THEN SeekSet(r, Len(files[name].bytes))
                    ELSE OpenedAt(r, Len(files[name].bytes))
      BY <2>4 DEF OpenSucceeds
    <3>2. files'[name] = Opened(r, files[name])
      BY <1>1, <3>1 DEF CardOK
    <3>3. pos' \in Nat /\ pos' <= Len(Opened(r, files[name]).bytes)
      BY <1>1, <1>2, <3>1 DEF SeekSet, Seeks, OpenedAt, Opened, Present, Typed
    <3>4. QED
      BY <1>1, <1>2, <1>3, <3>1, <3>2, <3>3 DEF CardOK
  <2>5. QED
    BY <2>1, <2>2, <2>3, <2>4 DEF Open
<1>8. PcOK'
  BY <1>4 DEF TypeInv, LockInv, PcOK, Open, Steps
<1>9. QED
  BY <1>5, <1>6, <1>7, <1>8, TypeParts

\* A byte more, in the file or at its end
LEMMA OverlaidTyped ==
    ASSUME NEW bytes \in Seq(Bytes), NEW at \in Nat, at <= Len(bytes), NEW b \in Bytes
    PROVE  /\ Overlaid(bytes, at, b) \in Seq(Bytes)
           /\ at + 1 <= Len(Overlaid(bytes, at, b))
<1>1. CASE at < Len(bytes)
  <2>1. at + 1 \in 1..Len(bytes)
    BY <1>1
  <2>2. [bytes EXCEPT ![at + 1] = b] \in Seq(Bytes) /\ Len([bytes EXCEPT ![at + 1] = b]) = Len(bytes)
    BY <2>1, ExceptSeq
  <2>3. QED
    BY <1>1, <2>2 DEF Overlaid
<1>2. CASE ~(at < Len(bytes))
  BY <1>2, AppendProperties DEF Overlaid
<1>3. QED
  BY <1>1, <1>2

LEMMA TransferTyped ==
    ASSUME TypeInv, NEW t \in Threads, Transfer(t)
    PROVE  TypeOK'
<1> DEFINE file == files[open]
           n == reply[t].n
<1>1. /\ pc[t] = "transfer" /\ name' = name /\ open' = open /\ was' = was /\ req' = req /\ sd' = sd
      /\ stuck' = stuck
  BY DEF Transfer, FileSize, ReadByte, WriteByte, VerifyByte, LoopDone, Unfinished, At
<1>2. /\ open \in Names /\ open # Closed /\ Typed(req[t]) /\ CardOK /\ RepliesOK /\ CallsOK /\ PcOK
  <2>1. Typed(req[t]) /\ Name(req[t].id) \in Names /\ Name(req[t].id) # Closed
    BY <1>1, InsideTyped, NotClosed DEF Typed
  <2>2. open = Name(req[t].id)
    BY <1>1 DEF TypeInv, LockInv, OwnFile
  <2>3. QED
    BY <2>1, <2>2, TypeParts DEF TypeInv
<1>3. /\ file \in Files /\ file.bytes \in Seq(Bytes) /\ Len(file.bytes) \in Nat
      /\ pos \in Nat /\ pos <= Len(file.bytes)
      /\ reply[t] \in [sound : BOOLEAN, n : Nat, bytes : Seq(Bytes)]
      /\ n \in Nat /\ req[t].data \in Seq(Bytes) /\ Len(req[t].data) \in Nat
  BY <1>2 DEF CardOK, RepliesOK, Files, Typed
<1>4. pos < Len(file.bytes) => file.bytes[pos + 1] \in Bytes
  BY <1>3
<1>5. n < Len(req[t].data) => Wanted(t) \in Bytes
  BY <1>3 DEF Wanted
<1>6. PICK step \in {"transfer", "close"} : pc' = [pc EXCEPT ![t] = step]
  <2>1. pc = [pc EXCEPT ![t] = "transfer"]
    BY <1>1, <1>2 DEF PcOK
  <2>2. QED
    BY <2>1 DEF Transfer, FileSize, ReadByte, WriteByte, VerifyByte, LoopDone, Goto
<1>7. CallsOK' /\ PcOK'
  <2>1. CallsOK'
    BY <1>1, <1>6, CallsKept DEF Steps
  <2>2. QED
    BY <1>1, <1>2, <1>6, <2>1 DEF PcOK, Steps
<1>8. ASSUME pos' = pos \/ (pos' = pos + 1 /\ pos < Len(file.bytes)), files' = files
      PROVE  CardOK'
  BY <1>1, <1>2, <1>3, <1>8 DEF CardOK
<1>9. ASSUME RepliesOK', CardOK' PROVE TypeOK'
  BY <1>7, <1>9, TypeParts
<1>10. CASE FileSize(t)
  <2>1. RepliesOK'
    BY <1>2, <1>3, <1>10, CountTyped DEF FileSize, Contents
  <2>2. QED
    BY <1>8, <1>9, <1>10, <2>1 DEF FileSize
<1>11. ASSUME NEW ok \in CardOutcomes, ReadByte(t, ok) PROVE TypeOK'
  <2>1. CardOK'
    BY <1>8, <1>11 DEF ReadByte, Contents
  <2>2. CASE ok /\ pos < Len(Contents)
    <3>1. Append(reply[t].bytes, Contents[pos + 1]) \in Seq(Bytes) /\ n + 1 \in Nat
      BY <1>3, <1>4, <2>2, AppendProperties DEF Contents
    <3>2. RepliesOK'
      BY <1>2, <1>11, <2>2, <3>1, ZenonT(40) DEF ReadByte, RepliesOK
    <3>3. QED
      BY <1>9, <2>1, <3>2
  <2>3. CASE ~(ok /\ pos < Len(Contents))
    <3>1. RepliesOK'
      BY <1>2, <1>3, <1>11, <2>3, CountTyped, OutcomesTyped DEF ReadByte
    <3>2. QED
      BY <1>9, <2>1, <3>1
  <2>4. QED
    BY <2>2, <2>3
<1>12. ASSUME NEW ok \in CardOutcomes, WriteByte(t, ok) PROVE TypeOK'
  <2>1. RepliesOK'
    <3>1. \E m \in {0, n, n + 1}, sound \in BOOLEAN : Count(t, m, sound)
      BY <1>12, OutcomesTyped DEF WriteByte
    <3>2. {0, n, n + 1} \subseteq Nat
      BY <1>3
    <3>3. QED
      BY <1>2, <3>1, <3>2, CountTyped
  <2>2. CASE ok
    <3>1. n < Len(req[t].data) /\ pos' = pos + 1
          /\ files' = [files EXCEPT ![open].bytes = Overlaid(@, pos, Wanted(t))]
      BY <1>12, <2>2 DEF WriteByte, Unfinished
    <3>2. /\ Overlaid(file.bytes, pos, Wanted(t)) \in Seq(Bytes)
          /\ pos + 1 <= Len(Overlaid(file.bytes, pos, Wanted(t)))
      BY <1>3, <1>5, <3>1, OverlaidTyped
    <3>3. /\ files' \in [Names -> Files]
          /\ files'[open].bytes = Overlaid(file.bytes, pos, Wanted(t))
      BY <1>2, <1>3, <3>1, <3>2 DEF CardOK, Files
    <3>4. CardOK'
      BY <1>1, <1>2, <1>3, <3>1, <3>2, <3>3 DEF CardOK
    <3>5. QED
      BY <1>9, <2>1, <3>4
  <2>3. CASE ~ok
    BY <1>8, <1>9, <1>12, <2>1, <2>3 DEF WriteByte
  <2>4. QED
    BY <2>2, <2>3
<1>13. ASSUME NEW ok \in CardOutcomes, VerifyByte(t, ok) PROVE TypeOK'
  <2>1. RepliesOK'
    <3>1. \E m \in {0, n, n + 1}, sound \in BOOLEAN : Count(t, m, sound)
      BY <1>13, OutcomesTyped DEF VerifyByte
    <3>2. {0, n, n + 1} \subseteq Nat
      BY <1>3
    <3>3. QED
      BY <1>2, <3>1, <3>2, CountTyped
  <2>2. QED
    BY <1>8, <1>9, <1>13, <2>1 DEF VerifyByte, Contents
<1>14. CASE LoopDone(t)
  <2>1. RepliesOK'
    BY <1>2, <1>3, <1>14, CountTyped DEF LoopDone
  <2>2. QED
    BY <1>8, <1>9, <1>14, <2>1 DEF LoopDone
<1>15. QED
  BY <1>10, <1>11, <1>12, <1>13, <1>14 DEF Transfer

LEMMA CloseTyped ==
    ASSUME TypeInv, NEW t \in Threads, NEW ok \in CardOutcomes, Close(t, ok)
    PROVE  TypeOK'
<1> DEFINE bytes == files[open].bytes
<1>1. /\ pc[t] = "close" /\ open \in Names /\ CardOK /\ RepliesOK /\ PcOK
  BY InsideTyped, TypeParts DEF TypeInv, LockInv, OwnFile, Close, At
<1>2. bytes \in Seq(Bytes) /\ was.bytes \in Seq(Bytes) /\ reply[t].n \in Nat
  BY <1>1 DEF CardOK, Files, RepliesOK
<1>3. files' \in [Names -> Files]
  <2>1. CASE files' = files
    BY <1>1, <2>1 DEF CardOK
  <2>2. CASE files' # files
    <3>1. /\ files' = [files EXCEPT ![open].bytes = SubSeq(@, 1, Len(was.bytes))]
          /\ Len(bytes) > Len(was.bytes)
      BY <1>2, <2>2 DEF Close, Contents
    <3>2. SubSeq(bytes, 1, Len(was.bytes)) \in Seq(Bytes)
      BY <1>2, <3>1, SubSeqProperties
    <3>3. QED
      BY <1>1, <3>1, <3>2 DEF CardOK, Files
  <2>3. QED
    BY <2>1, <2>2
<1>4. CardOK'
  BY <1>1, <1>3 DEF CardOK, Close, Absent, Files
<1>5. CallsOK'
  BY <1>1, CallsKept DEF Close, Goto, Steps
<1>6. RepliesOK' /\ PcOK'
  BY <1>1, <1>2, CountTyped, OutcomesTyped DEF Close, Goto, PcOK, Steps
<1>7. QED
  BY <1>4, <1>5, <1>6, TypeParts

LEMMA UnlockTyped == ASSUME TypeInv, NEW t \in Threads, UnlockSD(t) PROVE TypeOK'
<1>1. CardOK /\ CallsOK /\ RepliesOK /\ PcOK
  BY TypeParts DEF TypeInv
<1>2. CardOK'
  BY <1>1 DEF CardOK, UnlockSD
<1>3. CallsOK'
  <2>1. req' \in [Threads -> AllRequests] /\ req'[t] = NoRequest /\ pc'[t] = "idle"
    BY <1>1, NoRequestTyped DEF CallsOK, PcOK, UnlockSD, Goto
  <2>2. \A u \in Threads \ {t} : req'[u] = req[u] /\ pc'[u] = pc[u]
    BY <1>1 DEF CallsOK, PcOK, UnlockSD, Goto
  <2>3. QED
    BY <1>1, <2>1, <2>2 DEF CallsOK, At
<1>4. RepliesOK' /\ PcOK'
  BY <1>1 DEF RepliesOK, PcOK, UnlockSD, Goto, NoReply, Steps
<1>5. QED
  BY <1>2, <1>3, <1>4, TypeParts

LEMMA EnterTyped ==
    ASSUME TypeInv, NEW t \in Threads,
           GetFilename(t) \/ LockSD(t) \/ \E r \in Requests[t] : Call(t, r)
    PROVE  TypeOK'
<1>1. CardOK /\ CallsOK /\ RepliesOK /\ PcOK
  BY TypeParts DEF TypeInv
<1>2. CASE GetFilename(t)
  <2>1. Name(req[t].id) \in Names
    BY <1>2, InsideTyped DEF GetFilename, At
  <2>2. CallsOK'
    BY <1>2, CallsKept DEF GetFilename, At, Goto, Steps
  <2>3. QED
    BY <1>1, <1>2, <2>1, <2>2, TypeParts DEF GetFilename, CardOK, RepliesOK, PcOK, Goto, Steps
<1>3. CASE LockSD(t)
  <2>1. CallsOK'
    BY <1>3, CallsKept DEF LockSD, At, Goto, Steps
  <2>2. QED
    BY <1>1, <1>3, <2>1, TypeParts DEF LockSD, CardOK, RepliesOK, PcOK, Goto, Steps
<1>4. ASSUME NEW r \in Requests[t], Call(t, r) PROVE TypeOK'
  <2>1. CallsOK'
    BY <1>1, <1>4 DEF Call, CallsOK, PcOK, At, Goto, AllRequests
  <2>2. QED
    BY <1>1, <1>4, <2>1, TypeParts DEF Call, CardOK, RepliesOK, PcOK, Goto, Steps
<1>5. QED
  BY <1>2, <1>3, <1>4

\* Ids, positions and counts stay in range: what the loops read of a file and
\* of a caller's buffer is in it, for all files, buffers and addresses.
THEOREM TypeCorrect == Spec => []TypeOK
<1>1. Init => TypeOK
  <2> SUFFICES ASSUME Init PROVE TypeOK
    OBVIOUS
  <2>1. Absent \in Files
    BY DEF Absent, Files
  <2>2. CardOK
    BY <2>1 DEF Init, CardOK
  <2>3. CallsOK
    BY NoRequestTyped DEF Init, CallsOK, At
  <2>4. RepliesOK /\ PcOK
    BY DEF Init, RepliesOK, NoReply, PcOK, Steps
  <2>5. QED
    BY <2>2, <2>3, <2>4, TypeParts
<1>2. LockInv /\ TypeOK /\ [Next]_vars => TypeOK'
  <2> SUFFICES ASSUME LockInv, TypeOK, [Next]_vars PROVE TypeOK'
    OBVIOUS
  <2>1. TypeInv
    BY DEF TypeInv
  <2>2. CASE Next
    BY <2>1, <2>2, EnterTyped, OpenTyped, CloseTyped, TransferTyped, UnlockTyped DEF Next, Inside
  <2>3. CASE UNCHANGED vars
    BY <2>3 DEF vars, TypeOK, At
  <2>4. QED
    BY <2>2, <2>3
<1>3. QED
  BY <1>1, <1>2, LockInvariant, PTL DEF Spec

-----------------------------------------------------------------------------
(* FileHandler implements FileStore: byte by byte, through one name and one *)
(* handle, each operation does to its file what FileStore says it does at   *)
(* once.                                                                    *)

-----------------------------------------------------------------------------
(* The inductive invariant: how far a transfer has come                    *)

Kinds == {"create", "size", "read", "verify", "write", "append"}

\* Nobody has an answer before the file is open
Fresh == \A t \in Threads : pc[t] \in {"idle", "lock", "name", "open"} => reply[t] = NoReply

EmptyIfAbsent(file) == file.exists \/ file.bytes = <<>>
AbsentAreEmpty == EmptyIfAbsent(was) /\ \A f \in Names : EmptyIfAbsent(files[f])

\* The old bytes with the first n of the buffer put over them, behind from
Overwritten(bytes, old, data, from, n) ==
    /\ Len(bytes) = IF from + n <= Len(old) THEN Len(old) ELSE from + n
    /\ \A i \in 1..Len(bytes) :
           bytes[i] = IF from < i /\ i <= from + n THEN data[i - from] ELSE old[i]

\* The first n bytes of the buffer are those of the file behind from
Compared(old, data, from, n) ==
    /\ n <= Len(data) /\ from + n <= Len(old)
    /\ \A i \in 1..n : old[from + i] = data[i]

\* After a.n turns of the loop for request r, at position at of a file that
\* held old and holds new
Progress(r, a, at, old, new) ==
    LET from == Store!From(r, old)
    IN  /\ r.kind = "size" => a.n = 0
        /\ r.kind # "read" => a.bytes = <<>>
        /\ r.kind # "size" => a.n <= Len(r.data) /\ at = from + a.n
        /\ r.kind = "read" => at <= Len(old) /\ a.bytes = SubSeq(old, from + 1, from + a.n)
        /\ r.kind = "verify" => Compared(old, r.data, from, a.n)
        /\ r.kind \in {"write", "append"} => Overwritten(new, old, r.data, from, a.n)

Result(a) == [given |-> TRUE, sound |-> a.sound, n |-> a.n, bytes |-> a.bytes]

\* A file that is read stays what it is; and a transfer the card does not fail
\* ends with what the store makes of the file and with its answer.
WhileOpen(t) ==
    /\ files[open].exists
    /\ ReadOnly(req[t]) => files[open] = was
    /\ pc[t] = "transfer" => req[t].kind # "create"
    /\ pc[t] = "transfer" /\ reply[t].sound =>
           Progress(req[t], reply[t], pos, was.bytes, files[open].bytes)
    /\ pc[t] = "close" /\ reply[t].sound =>
           /\ files[open] = Store!After(req[t], was)
           /\ Result(reply[t]) = Store!Reply(req[t], was)

Transfers == \A t \in Threads : pc[t] \in {"transfer", "close"} => WhileOpen(t)

StoreInv == TypeInv /\ Fresh /\ AbsentAreEmpty /\ Transfers

-----------------------------------------------------------------------------
(* Sequences of bytes                                                      *)

\* A part of a sequence, as a sequence
LEMMA Part ==
    ASSUME NEW s \in Seq(Bytes), NEW m \in Nat, NEW n \in Nat, m <= n, n <= Len(s)
    PROVE  /\ SubSeq(s, m + 1, n) \in Seq(Bytes)
           /\ Len(SubSeq(s, m + 1, n)) = n - m
           /\ \A i \in 1..(n - m) : SubSeq(s, m + 1, n)[i] = s[m + i]
<1>1. \A i \in (m + 1)..n : s[i] \in Bytes
  BY ElementOfSeq
<1>2. /\ SubSeq(s, m + 1, n) \in Seq(Bytes)
      /\ Len(SubSeq(s, m + 1, n)) = IF m + 1 <= n THEN n - (m + 1) + 1 ELSE 0
      /\ \A i \in 1..(n - (m + 1) + 1) : SubSeq(s, m + 1, n)[i] = s[(m + 1) + i - 1]
  BY <1>1, SubSeqProperties
<1>3. n - (m + 1) + 1 = n - m
  OBVIOUS
<1>4. \A i \in 1..(n - m) : (m + 1) + i - 1 = m + i
  OBVIOUS
<1>5. QED
  BY <1>2, <1>3, <1>4

LEMMA PartAndOne ==
    ASSUME NEW s \in Seq(Bytes), NEW m \in Nat, NEW n \in Nat, m <= n, n < Len(s)
    PROVE  Append(SubSeq(s, m + 1, n), s[n + 1]) = SubSeq(s, m + 1, n + 1)
<1> DEFINE short == SubSeq(s, m + 1, n)
           long  == SubSeq(s, m + 1, n + 1)
<1>1. s[n + 1] \in Bytes
  BY ElementOfSeq
<1>2. short \in Seq(Bytes) /\ Len(short) = n - m /\ \A i \in 1..(n - m) : short[i] = s[m + i]
  BY Part
<1>3. /\ long \in Seq(Bytes) /\ Len(long) = (n + 1) - m
      /\ \A i \in 1..((n + 1) - m) : long[i] = s[m + i]
  <2>1. n + 1 \in Nat /\ m <= n + 1 /\ n + 1 <= Len(s)
    OBVIOUS
  <2>2. QED
    BY <2>1, Part
<1> HIDE DEF short, long
<1>4. /\ Append(short, s[n + 1]) \in Seq(Bytes)
      /\ Len(Append(short, s[n + 1])) = (n + 1) - m
      /\ \A i \in 1..(n - m) : Append(short, s[n + 1])[i] = short[i]
      /\ Append(short, s[n + 1])[(n - m) + 1] = s[n + 1]
  BY <1>1, <1>2, AppendProperties
<1>5. \A i \in 1..((n + 1) - m) : Append(short, s[n + 1])[i] = long[i]
  BY <1>2, <1>3, <1>4
<1>6. Append(short, s[n + 1]) = long
  BY <1>3, <1>4, <1>5, SeqEqual
<1>7. QED
  BY <1>6 DEF short, long

LEMMA FromInFile ==
    ASSUME NEW r, Typed(r), NEW bytes \in Seq(Bytes)
    PROVE  Store!From(r, bytes) \in Nat /\ Store!From(r, bytes) <= Len(bytes)
BY DEF Store!From, Typed

\* The file with the buffer over it, byte by byte
Overlay(old, data, at, n) == SubSeq(old, 1, at) \o data \o SubSeq(old, at + n + 1, Len(old))

LEMMA OverwrittenAll ==
    ASSUME NEW old \in Seq(Bytes), NEW new \in Seq(Bytes), NEW data \in Seq(Bytes),
           NEW at \in Nat, at <= Len(old), NEW n \in Nat, n = Len(data),
           Overwritten(new, old, data, at, n)
    PROVE  new = Overlay(old, data, at, n)
<1> DEFINE head == SubSeq(old, 1, at)
           front == head \o data
           tail == SubSeq(old, at + n + 1, Len(old))
<1>1. Len(old) \in Nat
  OBVIOUS
<1>2. head \in Seq(Bytes) /\ Len(head) = at /\ \A i \in 1..at : head[i] = old[i]
  <2>1. /\ SubSeq(old, 0 + 1, at) \in Seq(Bytes) /\ Len(SubSeq(old, 0 + 1, at)) = at - 0
        /\ \A i \in 1..(at - 0) : SubSeq(old, 0 + 1, at)[i] = old[0 + i]
    BY <1>1, Part
  <2>2. 0 + 1 = 1 /\ at - 0 = at /\ \A i \in Nat : 0 + i = i
    BY <1>1
  <2>3. QED
    BY <1>1, <2>1, <2>2
<1>3. /\ tail \in Seq(Bytes)
      /\ at + n <= Len(old) => Len(tail) = Len(old) - (at + n)
      /\ ~(at + n <= Len(old)) => Len(tail) = 0
      /\ \A i \in 1..Len(tail) : tail[i] = old[at + n + i]
  <2>1. CASE at + n <= Len(old)
    <3> DEFINE m == at + n
    <3>1. m \in Nat /\ m <= Len(old)
      BY <1>1, <2>1
    <3>2. /\ SubSeq(old, m + 1, Len(old)) \in Seq(Bytes)
          /\ Len(SubSeq(old, m + 1, Len(old))) = Len(old) - m
          /\ \A i \in 1..(Len(old) - m) : SubSeq(old, m + 1, Len(old))[i] = old[m + i]
      <4> HIDE DEF m
      <4>1. QED
        BY <1>1, <3>1, Part
    <3>3. QED
      BY <2>1, <3>2
  <2>2. CASE ~(at + n <= Len(old))
    <3>1. tail = <<>>
      BY <1>1, <2>2, SubSeqEmpty
    <3>2. tail \in Seq(Bytes) /\ Len(tail) = 0
      BY <3>1, EmptySeq
    <3>3. QED
      BY <2>2, <3>2
  <2>3. QED
    BY <2>1, <2>2
<1>5. /\ front \in Seq(Bytes) /\ Len(front) = at + n
      /\ \A i \in 1..(at + n) : front[i] = IF i <= at THEN old[i] ELSE data[i - at]
  <2> HIDE DEF head
  <2>1. /\ head \o data \in Seq(Bytes) /\ Len(head \o data) = Len(head) + Len(data)
        /\ \A i \in 1..(Len(head) + Len(data)) :
               (head \o data)[i] = IF i <= Len(head) THEN head[i] ELSE data[i - Len(head)]
    BY <1>1, <1>2, ConcatProperties
  <2>2. QED
    BY <1>1, <1>2, <2>1
<1> DEFINE put == front \o tail
<1>6. /\ put \in Seq(Bytes) /\ Len(put) = (at + n) + Len(tail)
      /\ \A i \in 1..((at + n) + Len(tail)) :
             put[i] = IF i <= at + n THEN front[i] ELSE tail[i - (at + n)]
  <2>1. front \in Seq(Bytes) /\ Len(front) = at + n /\ put = front \o tail /\ tail \in Seq(Bytes)
    BY <1>3, <1>5
  <2> HIDE DEF head, tail, front, put
  <2>2. /\ front \o tail \in Seq(Bytes) /\ Len(front \o tail) = Len(front) + Len(tail)
        /\ \A i \in 1..(Len(front) + Len(tail)) : (front \o tail)[i] =
               IF i <= Len(front) THEN front[i] ELSE tail[i - Len(front)]
    BY <2>1, ConcatProperties
  <2>3. QED
    BY <2>1, <2>2 DEF put
<1>7. /\ at + n <= Len(old) => Len(new) = Len(old)
      /\ ~(at + n <= Len(old)) => Len(new) = at + n
      /\ \A i \in 1..Len(new) : new[i] = IF at < i /\ i <= at + n THEN data[i - at] ELSE old[i]
  BY DEF Overwritten
<1> HIDE DEF head, front, tail, put
<1>8. Len(put) = Len(new) /\ Len(tail) \in Nat /\ Len(put) \in Nat
  <2>1. Len(tail) \in Nat
    BY <1>3, LenProperties
  <2>2. QED
    BY <1>1, <1>3, <1>6, <1>7, <2>1
<1>9. ASSUME NEW i \in 1..Len(put) PROVE put[i] = new[i]
  <2>1. i \in Nat /\ 1 <= i /\ i <= Len(put) /\ i <= (at + n) + Len(tail)
    BY <1>1, <1>6, <1>8
  <2>2. CASE i <= at
    <3>1. i \in 1..((at + n) + Len(tail)) /\ i \in 1..(at + n) /\ i \in 1..Len(new)
      BY <1>1, <1>8, <2>1, <2>2
    <3>2. put[i] = front[i] /\ front[i] = old[i]
      BY <1>5, <1>6, <2>1, <2>2, <3>1
    <3>3. new[i] = old[i]
      BY <1>7, <2>1, <2>2, <3>1
    <3>4. QED
      BY <3>2, <3>3
  <2>3. CASE at < i /\ i <= at + n
    <3>1. i \in 1..((at + n) + Len(tail)) /\ i \in 1..(at + n) /\ i \in 1..Len(new)
      BY <1>1, <1>8, <2>1, <2>3
    <3>2. put[i] = front[i] /\ front[i] = data[i - at]
      BY <1>5, <1>6, <2>1, <2>3, <3>1
    <3>3. new[i] = data[i - at]
      BY <1>7, <2>1, <2>3, <3>1
    <3>4. QED
      BY <3>2, <3>3
  <2>4. CASE at + n < i
    <3>1. i - (at + n) \in 1..Len(tail) /\ at + n + (i - (at + n)) = i
      BY <1>1, <1>6, <2>1, <2>4
    <3>2. i \in 1..((at + n) + Len(tail)) /\ i \in 1..Len(new) /\ ~(i <= at + n)
      BY <1>1, <1>8, <2>1, <2>4
    <3>3. put[i] = tail[i - (at + n)] /\ tail[i - (at + n)] = old[i]
      BY <1>3, <1>6, <3>1, <3>2
    <3>4. new[i] = old[i]
      BY <1>7, <3>2
    <3>5. QED
      BY <3>3, <3>4
  <2>5. QED
    BY <1>1, <2>1, <2>2, <2>3, <2>4
<1>10. put = new
  BY <1>6, <1>8, <1>9, SeqEqual
<1>11. QED
  BY <1>10 DEF put, front, head, tail, Overlay

LEMMA PutBytes ==
    ASSUME NEW r, Typed(r), NEW old \in Seq(Bytes), NEW new \in Seq(Bytes),
           Overwritten(new, old, r.data, Store!From(r, old), Len(r.data))
    PROVE  new = Store!Put(r, old)
<1>1. Store!From(r, old) \in Nat /\ Store!From(r, old) <= Len(old) /\ r.data \in Seq(Bytes)
  BY FromInFile DEF Typed
<1>2. Len(r.data) \in Nat
  BY <1>1
<1> DEFINE at == Store!From(r, old)
           data == r.data
           n == Len(data)
<1>3. /\ at \in Nat /\ at <= Len(old) /\ n \in Nat /\ n = Len(data) /\ data \in Seq(Bytes)
      /\ Overwritten(new, old, data, at, n)
  BY <1>1, <1>2
<1>4. new = Overlay(old, data, at, n)
  <2> HIDE DEF at, n, data
  <2>1. QED
    BY <1>3, OverwrittenAll
<1>5. QED
  BY <1>4 DEF Store!Put, Overlay

\* One byte more
LEMMA OverwriteOne ==
    ASSUME NEW old \in Seq(Bytes), NEW new \in Seq(Bytes), NEW data \in Seq(Bytes),
           NEW from \in Nat, from <= Len(old), NEW n \in Nat, n < Len(data),
           Overwritten(new, old, data, from, n)
    PROVE  Overwritten(Overlaid(new, from + n, data[n + 1]), old, data, from, n + 1)
<1> DEFINE b == data[n + 1]
           at == from + n
           next == Overlaid(new, at, b)
<1>1. b \in Bytes /\ at \in Nat /\ Len(old) \in Nat /\ Len(new) \in Nat /\ at <= Len(new)
  BY ElementOfSeq DEF Overwritten
<1>2. /\ Len(next) = IF at < Len(new) THEN Len(new) ELSE Len(new) + 1
      /\ \A i \in 1..Len(next) : next[i] = IF i = at + 1 THEN b ELSE new[i]
  <2> HIDE DEF b, at
  <2>1. CASE at < Len(new)
    <3>1. at + 1 \in 1..Len(new)
      BY <1>1, <2>1
    <3>2. QED
      BY <1>1, <2>1, <3>1, ExceptSeq DEF Overlaid
  <2>2. CASE ~(at < Len(new))
    <3>1. at = Len(new) /\ next = Append(new, b)
      BY <1>1, <2>2 DEF Overlaid
    <3>2. /\ Len(next) = Len(new) + 1 /\ next[Len(new) + 1] = b
          /\ \A i \in 1..Len(new) : next[i] = new[i]
      BY <1>1, <3>1, AppendProperties
    <3>3. QED
      BY <1>1, <2>2, <3>1, <3>2
  <2>3. QED
    BY <2>1, <2>2
<1>3. /\ Len(new) = IF at <= Len(old) THEN Len(old) ELSE at
      /\ \A i \in 1..Len(new) : new[i] = IF from < i /\ i <= at THEN data[i - from] ELSE old[i]
  BY DEF Overwritten
<1> HIDE DEF b, next
<1>4. Len(next) = IF at + 1 <= Len(old) THEN Len(old) ELSE at + 1
  BY <1>1, <1>2, <1>3
<1>5. ASSUME NEW i \in 1..Len(next)
      PROVE  next[i] = IF from < i /\ i <= at + 1 THEN data[i - from] ELSE old[i]
  <2>1. CASE i = at + 1
    <3>1. i - from = n + 1 /\ from < i
      BY <1>1, <2>1
    <3>2. QED
      BY <1>1, <1>2, <2>1, <3>1 DEF b
  <2>2. CASE i # at + 1
    <3>1. i \in 1..Len(new)
      BY <1>1, <1>2, <1>3, <2>2
    <3>2. QED
      BY <1>1, <1>2, <1>3, <2>2, <3>1
  <2>3. QED
    BY <2>1, <2>2
<1>6. at + 1 = from + (n + 1)
  OBVIOUS
<1>7. QED
  BY <1>4, <1>5, <1>6 DEF Overwritten, next, b

-----------------------------------------------------------------------------
(* What holds of the thread that is inside, and of the others              *)

LEMMA KindsOK == \A t \in Threads : \A r \in Requests[t] : r.kind \in Kinds
<1> SUFFICES ASSUME NEW t \in Threads, NEW r \in Requests[t] PROVE r.kind \in Kinds
  OBVIOUS
<1>1. ASSUME NEW op \in Kinds, NEW id, r \in PageRequests(op, id) PROVE r.kind \in Kinds
  BY <1>1 DEF PageRequests, Ask
<1>2. ASSUME NEW op \in Kinds, NEW id, NEW data, r = Ask(op, id, 0, data) PROVE r.kind \in Kinds
  BY <1>2 DEF Ask
<1>3. {"create", "size", "read", "verify", "write", "append"} = Kinds
  BY DEF Kinds
<1>4. CASE r \in SaveRequests
  BY <1>2, <1>3, <1>4 DEF SaveRequests
<1>5. ASSUME NEW k \in Keys, r \in IdeRequests(k) \cup EnodeRequests(k) \cup SensorRequests(k)
      PROVE  r.kind \in Kinds
  <2>1. CASE \E op \in Kinds : \E id : r \in PageRequests(op, id)
    BY <1>1, <2>1
  <2>2. CASE \E op \in Kinds : \E id, data : r = Ask(op, id, 0, data)
    BY <1>2, <2>2
  <2>3. QED
    BY <1>3, <1>5, <2>1, <2>2 DEF IdeRequests, EnodeRequests, SensorRequests
<1>6. QED
  BY <1>4, <1>5 DEF Requests

LEMMA SeekIsFrom ==
    ASSUME NEW r, Typed(r), r.kind \in {"read", "verify", "write", "append"},
           NEW bytes \in Seq(Bytes)
    PROVE  SeekSet(r, Len(bytes)) = Store!From(r, bytes)
BY DEF SeekSet, Seeks, OpenedAt, Store!From, Store!ReadOnly, Typed

\* The request of a thread that is not idle
LEMMA Requested ==
    ASSUME StoreInv, NEW t \in Threads, pc[t] # "idle"
    PROVE  /\ req[t] \in Requests[t] /\ Typed(req[t]) /\ req[t].kind \in Kinds
           /\ req[t] # Store!NoRequest
           /\ Name(req[t].id) \in Names /\ Name(req[t].id) # Closed
<1>1. req[t] \in Requests[t] /\ Typed(req[t]) /\ req[t].kind \in Kinds /\ Name(req[t].id) \in Names
  BY InsideTyped, KindsOK DEF StoreInv
<1>2. Store!NoRequest.kind \notin Kinds
  BY DEF Store!NoRequest, Kinds
<1>3. QED
  BY <1>1, <1>2, NotClosed DEF Typed

LEMMA OthersOutside ==
    ASSUME StoreInv, NEW t \in Threads, pc[t] \notin {"idle", "lock"}
    PROVE  \A u \in Threads \ {t} : pc[u] \in {"idle", "lock"}
BY DEF StoreInv, TypeInv, LockInv, PcOK, HolderInside

\* The file that is open
LEMMA OpenFile ==
    ASSUME StoreInv, NEW t \in Threads, pc[t] \in {"transfer", "close"}
    PROVE  /\ open = Name(req[t].id) /\ open \in Names /\ open # Closed
           /\ was \in Files /\ was.bytes \in Seq(Bytes)
           /\ files[open] \in Files /\ files[open].bytes \in Seq(Bytes)
           /\ pos \in Nat /\ pos <= Len(files[open].bytes)
           /\ reply[t] \in [sound : BOOLEAN, n : Nat, bytes : Seq(Bytes)]
           /\ WhileOpen(t)
<1>1. open = Name(req[t].id) /\ open \in Names /\ open # Closed
  BY Requested DEF StoreInv, TypeInv, LockInv, OwnFile
<1>2. CardOK /\ RepliesOK
  BY TypeParts DEF StoreInv, TypeInv
<1>3. QED
  BY <1>1, <1>2 DEF CardOK, RepliesOK, Files, StoreInv, Transfers

\* A step of t inside: what is to be shown is about t alone
LEMMA InvKept ==
    ASSUME StoreInv, TypeInv', NEW t \in Threads, pc[t] \notin {"idle", "lock"},
           \A u \in Threads \ {t} : pc'[u] = pc[u] /\ reply'[u] = reply[u],
           pc'[t] \in {"idle", "lock", "name", "open"} => reply'[t] = NoReply,
           pc'[t] \in {"transfer", "close"} => WhileOpen(t)',
           AbsentAreEmpty'
    PROVE  StoreInv'
<1>1. Fresh'
  BY DEF StoreInv, Fresh
<1>2. Transfers'
  BY OthersOutside DEF Transfers
<1>3. QED
  BY <1>1, <1>2 DEF StoreInv

\* What the store sees of a step
LEMMA KeptSame ==
    ASSUME open' = open, was' = was, \A f \in Names \ {open} : files'[f] = files[f]
    PROVE  KeptFiles' = KeptFiles
<1>1. \A id \in FileIds : Name(id) \in Names
  BY DEF Names
<1>2. QED
  BY <1>1 DEF KeptFiles

LEMMA AnswersSame ==
    ASSUME \A u \in Threads : /\ pc[u] = "unlock" <=> pc'[u] = "unlock"
                              /\ pc[u] = "unlock" => reply'[u] = reply[u]
    PROVE  Answers' = Answers
BY DEF Answers, Answered, At

StoreStep == [Store!Next]_(Store!vars)

\* A call that has done what it was asked for, or in which the card failed
LEMMA Finishes ==
    ASSUME StoreInv, NEW t \in Threads, pc[t] \in {"open", "close"},
           pc' = [pc EXCEPT ![t] = "unlock"], req' = req,
           \A u \in Threads \ {t} : reply'[u] = reply[u],
           reply'[t].sound \in BOOLEAN, ~stuck, stuck' \in BOOLEAN,
           stuck' => /\ ~reply'[t].sound /\ req[t].kind \in {"write", "append"}
                     /\ KeptFiles' = KeptFiles,
           reply'[t].sound =>
               /\ KeptFiles' = [KeptFiles EXCEPT ![req[t].id] = Store!After(req[t], @)]
               /\ Result(reply'[t]) = Store!Reply(req[t], KeptFiles[req[t].id]),
           \A id \in FileIds : id # req[t].id \/ ReadOnly(req[t]) => KeptFiles'[id] = KeptFiles[id]
    PROVE  StoreStep
<1>1. pc'[t] = "unlock" /\ \A u \in Threads \ {t} : pc'[u] = pc[u]
  BY DEF StoreInv, TypeInv, TypeOK
<1>2. Answered(t)' = Result(reply'[t]) /\ \A u \in Threads \ {t} : Answered(u)' = Answered(u)
  BY <1>1 DEF Answered, At, Result
<1>3. /\ Answers' = [Answers EXCEPT ![t] = Result(reply'[t])]
      /\ Answers'[t] = Result(reply'[t]) /\ \A u \in Threads \ {t} : Answers'[u] = Answers[u]
      /\ DOMAIN Answers' = Threads /\ DOMAIN KeptFiles' = FileIds
  BY <1>2 DEF Answers, KeptFiles
<1>4. Store!InProgress(t)
  BY Requested DEF Store!InProgress, Answers, Answered, At
<1>5. CASE reply'[t].sound
  <2>1. stuck = FALSE /\ stuck' = FALSE
    BY <1>5 DEF StoreInv, TypeInv, TypeOK
  <2>2. Store!Perform(t)
    BY <1>3, <1>4, <1>5, <2>1 DEF Store!Perform
  <2>3. QED
    BY <2>2 DEF StoreStep, Store!Next
<1>6. CASE ~reply'[t].sound
  <2>1. Answers'[t].given /\ ~Answers'[t].sound
    BY <1>3, <1>6 DEF Result
  <2>2. Store!Spoil(t)
    BY <1>3, <1>4, <2>1 DEF Store!Spoil, Store!ReadOnly, ReadOnly
  <2>3. QED
    BY <2>2 DEF StoreStep, Store!Next
<1>7. QED
  BY <1>5, <1>6

LEMMA Stutters ==
    ASSUME KeptFiles' = KeptFiles, Answers' = Answers, req' = req, stuck' = stuck
    PROVE  StoreStep
BY DEF StoreStep, Store!vars

-----------------------------------------------------------------------------
(* The steps                                                               *)

LEMMA EnterStep ==
    ASSUME StoreInv, TypeInv', NEW t \in Threads,
           GetFilename(t) \/ LockSD(t) \/ \E r \in Requests[t] : Call(t, r)
    PROVE  StoreInv' /\ StoreStep
<1>1. /\ UNCHANGED <<open, was, files, pos, reply>>
      /\ \A u \in Threads \ {t} : pc'[u] = pc[u] /\ req'[u] = req[u]
      /\ pc[t] \in {"idle", "lock", "name"} /\ pc'[t] \in {"lock", "name", "open"}
  BY DEF GetFilename, LockSD, Call, At, Goto, StoreInv, TypeInv, TypeOK
<1>2. Fresh' /\ AbsentAreEmpty'
  BY <1>1 DEF StoreInv, Fresh, AbsentAreEmpty, EmptyIfAbsent
<1>3. ASSUME NEW u \in Threads, pc'[u] \in {"transfer", "close"} PROVE WhileOpen(u)'
  <2>1. u # t
    BY <1>1, <1>3
  <2>2. pc[u] \in {"transfer", "close"} /\ pc'[u] = pc[u] /\ req'[u] = req[u] /\ reply'[u] = reply[u]
    BY <1>1, <1>3, <2>1
  <2>3. WhileOpen(u)
    BY <2>2 DEF StoreInv, Transfers
  <2>4. QED
    BY <1>1, <2>2, <2>3 DEF WhileOpen, Progress
<1>4. StoreInv'
  BY <1>2, <1>3 DEF StoreInv, Transfers
<1>5. KeptFiles' = KeptFiles /\ Answers' = Answers
  <2>1. \A u \in Threads : pc[u] = "unlock" <=> pc'[u] = "unlock"
    BY <1>1
  <2>2. QED
    BY <1>1, <2>1, KeptSame, AnswersSame
<1>6. ASSUME GetFilename(t) \/ LockSD(t) PROVE StoreStep
  <2>1. req' = req /\ stuck' = stuck
    BY <1>6 DEF GetFilename, LockSD
  <2>2. QED
    BY <1>5, <2>1, Stutters
<1>7. ASSUME NEW r \in Requests[t], Call(t, r) PROVE StoreStep
  <2>1. req[t] = NoRequest
    BY <1>7 DEF Call, At, StoreInv, TypeInv, TypeOK
  <2>2. Store!Call(t, r)
    BY <1>5, <1>7, <2>1 DEF Call, Store!Call, NoRequest, Ask, Store!NoRequest
  <2>3. QED
    BY <2>2 DEF StoreStep, Store!Next
<1>8. QED
  BY <1>4, <1>6, <1>7

LEMMA UnlockStep ==
    ASSUME StoreInv, TypeInv', NEW t \in Threads, UnlockSD(t)
    PROVE  StoreInv' /\ StoreStep
<1>1. /\ UNCHANGED <<open, was, files, pos>>
      /\ \A u \in Threads \ {t} : pc'[u] = pc[u] /\ req'[u] = req[u] /\ reply'[u] = reply[u]
      /\ pc[t] = "unlock" /\ pc'[t] = "idle" /\ reply'[t] = NoReply
  BY DEF UnlockSD, At, Goto, StoreInv, TypeInv, TypeOK
<1>2. AbsentAreEmpty'
  BY <1>1 DEF StoreInv, AbsentAreEmpty, EmptyIfAbsent
<1>3. StoreInv'
  BY <1>1, <1>2, InvKept
<1>4. KeptFiles' = KeptFiles
  BY <1>1, KeptSame
<1>5. /\ Answered(t)' = Store!NoAnswer /\ Answered(t).given
      /\ \A u \in Threads \ {t} : Answered(u)' = Answered(u)
  BY <1>1 DEF Answered, At, Store!NoAnswer
<1>6. Answers' = [Answers EXCEPT ![t] = Store!NoAnswer] /\ Answers[t].given
  BY <1>5 DEF Answers
<1>7. Store!Return(t)
  BY <1>4, <1>6 DEF UnlockSD, Store!Return, NoRequest, Ask, Store!NoRequest
<1>8. QED
  BY <1>3, <1>7 DEF StoreStep, Store!Next

\* The answer of a thread that counts for the first time
LEMMA CountFirst ==
    ASSUME RepliesOK, NEW t \in Threads, reply[t] = NoReply, NEW n \in Nat, NEW ok \in BOOLEAN,
           Count(t, n, ok)
    PROVE  reply'[t].sound = ok /\ reply'[t].n = n /\ reply'[t].bytes = <<>>
<1> DEFINE old == reply[t]
<1>1. old.sound = TRUE /\ old.bytes = <<>> /\ old \in [sound : BOOLEAN, n : Nat, bytes : Seq(Bytes)]
  BY DEF NoReply, RepliesOK
<1>2. reply'[t] = [old EXCEPT !.n = n, !.sound = @ /\ ok]
  BY DEF Count, RepliesOK
<1> HIDE DEF old
<1>3. QED
  BY <1>1, <1>2

LEMMA OpenStep ==
    ASSUME StoreInv, TypeInv', NEW t \in Threads, NEW ok \in CardOutcomes, Open(t, ok)
    PROVE  StoreInv' /\ StoreStep
<1> DEFINE r == req[t]
           file == files[name]
<1>1. /\ pc[t] = "open" /\ name = Name(r.id) /\ (open # Closed <=> stuck) /\ reply[t] = NoReply
      /\ name' = name /\ req' = req
  BY ClosedOutside DEF Open, At, StoreInv, Fresh, TypeInv, LockInv, OwnFile
<1>2. /\ r.id \in FileIds /\ r.kind \in Kinds /\ Typed(r) /\ name \in Names /\ name # Closed
  BY <1>1, Requested DEF Typed
<1>3. /\ CardOK /\ RepliesOK /\ ok \in BOOLEAN /\ file \in Files /\ file.bytes \in Seq(Bytes)
      /\ EmptyIfAbsent(file)
  BY <1>2, TypeParts, OutcomesTyped DEF StoreInv, TypeInv, CardOK, Files, AbsentAreEmpty
<1>4. \A id \in FileIds : Name(id) \in Names /\ Name(id) # Closed /\ (Name(id) = name => id = r.id)
  BY <1>1, <1>2, NotClosed, NamesDiffer DEF Names
<1>5. open = Closed => KeptFiles = [id \in FileIds |-> files[Name(id)]]
  BY <1>4 DEF KeptFiles
<1>6. PICK step \in {"close", "transfer", "unlock"} : pc' = [pc EXCEPT ![t] = step]
  BY DEF Open, OpenRefused, OpenFails, OpenStays, OpenSucceeds, Goto
<1>7. pc'[t] = step /\ \A u \in Threads \ {t} : pc'[u] = pc[u] /\ reply'[u] = reply[u]
  <2>1. pc'[t] = step /\ \A u \in Threads \ {t} : pc'[u] = pc[u]
    BY <1>6 DEF StoreInv, TypeInv, TypeOK
  <2>2. \A u \in Threads \ {t} : reply'[u] = reply[u]
    BY <1>3 DEF Open, OpenRefused, OpenFails, OpenStays, OpenSucceeds, Count, RepliesOK
  <2>3. QED
    BY <2>1, <2>2
<1>8. EmptyIfAbsent(Opened(r, file))
  BY <1>3 DEF EmptyIfAbsent, Opened, Present
<1>9. [files EXCEPT ![name] = Opened(r, @)] = [f \in Names |-> IF f = name THEN Opened(r, file) ELSE files[f]]
  BY <1>2, <1>3 DEF CardOK
<1>10. CASE OpenSucceeds(t, ok)
  <2>1. /\ open = Closed /\ open' = name /\ was' = file /\ stuck' = stuck
        /\ files' = [f \in Names |-> IF f = name THEN Opened(r, file) ELSE files[f]]
        /\ ok => pos' = SeekSet(r, Len(file.bytes))
        /\ r.kind = "create" => ok
        /\ step = IF r.kind = "create" THEN "close" ELSE "transfer"
        /\ file.exists \/ ~ReadOnly(r)
    <3>1. /\ open = Closed /\ open' = name /\ was' = file /\ stuck' = stuck
          /\ files' = [f \in Names |-> IF f = name THEN Opened(r, file) ELSE files[f]]
          /\ ok => pos' = SeekSet(r, Len(file.bytes))
          /\ file.exists \/ ~ReadOnly(r)
      BY <1>9, <1>10 DEF OpenSucceeds
    <3>2. pc'[t] = IF r.kind = "create" THEN "close" ELSE "transfer"
      BY <1>10 DEF OpenSucceeds, Goto, StoreInv, TypeInv, TypeOK
    <3>3. r.kind = "create" => ok
      BY <1>10 DEF OpenSucceeds, SeeksInFat, Seeks
    <3>4. QED
      BY <1>7, <3>1, <3>2, <3>3
  <2>2. reply'[t].sound = ok /\ reply'[t].bytes = <<>> /\ reply'[t].n = IF r.kind = "create" THEN 1 ELSE 0
    <3>1. Count(t, IF r.kind = "create" THEN 1 ELSE 0, ok)
      BY <1>10 DEF OpenSucceeds
    <3>2. QED
      BY <1>1, <1>3, <3>1, CountFirst
  <2>3. files'[open'] = Opened(r, file)
    BY <1>2, <2>1
  <2>4. Opened(r, file).exists /\ (ReadOnly(r) => Opened(r, file) = file)
    BY <2>1 DEF Opened, Present, ReadOnly
  <2>5. ASSUME r.kind = "create" PROVE WhileOpen(t)'
    <3>1. Opened(r, file) = Store!After(r, file) /\ Result(reply'[t]) = Store!Reply(r, file)
      BY <2>1, <2>2, <2>5 DEF Opened, Present, Store!After, Store!ReadOnly, Store!Present, Result,
                        Store!Reply, Store!Answer
    <3>2. QED
      BY <1>1, <1>7, <2>1, <2>3, <2>4, <2>5, <3>1 DEF WhileOpen
  <2>6. ASSUME r.kind # "create" PROVE WhileOpen(t)'
    <3> DEFINE from == Store!From(r, file.bytes)
    <3>1. /\ reply'[t].n = 0 /\ pc'[t] = "transfer" /\ Opened(r, file).bytes = file.bytes
          /\ from \in Nat /\ from <= Len(file.bytes) /\ Len(r.data) \in Nat
      BY <1>2, <1>3, <1>7, <2>1, <2>2, <2>6, FromInFile DEF Opened, Present, Typed
    <3>2. ok /\ r.kind # "size" => pos' = from
      BY <1>2, <1>3, <2>1, <2>6, SeekIsFrom DEF Kinds
    <3>3. SubSeq(file.bytes, from + 1, from + 0) = <<>>
      BY <3>1, SubSeqEmpty
    <3>4. Overwritten(file.bytes, file.bytes, r.data, from, 0) /\ Compared(file.bytes, r.data, from, 0)
      BY <3>1 DEF Overwritten, Compared
    <3>5. ok => Progress(r, reply'[t], pos', file.bytes, file.bytes)
      BY <2>2, <2>6, <3>1, <3>2, <3>3, <3>4 DEF Progress
    <3>6. QED
      BY <1>1, <2>1, <2>2, <2>3, <2>4, <2>6, <3>1, <3>5 DEF WhileOpen
  <2>7. AbsentAreEmpty'
    BY <1>3, <1>8, <2>1 DEF StoreInv, AbsentAreEmpty
  <2>8. StoreInv'
    BY <1>1, <1>7, <2>1, <2>5, <2>6, <2>7, InvKept
  <2>9. KeptFiles' = KeptFiles
    BY <1>4, <1>5, <2>1 DEF KeptFiles
  <2>10. Answers' = Answers
    BY <1>1, <1>7, <2>1, AnswersSame
  <2>11. QED
    BY <1>1, <2>1, <2>8, <2>9, <2>10, Stutters
<1>11. CASE OpenFails(t, ok)
  <2>1. /\ open = Closed /\ open' = open /\ was' = was /\ stuck' = stuck
        /\ pc'[t] = "unlock" /\ pc' = [pc EXCEPT ![t] = "unlock"]
        /\ \/ files' = files
           \/ ~ok /\ files' = [f \in Names |-> IF f = name THEN Opened(r, file) ELSE files[f]]
        /\ ok => ReadOnly(r) /\ ~file.exists
    BY <1>9, <1>11 DEF OpenFails, Goto, StoreInv, TypeInv, TypeOK
  <2>2. Count(t, 0, ok)
    BY <1>11 DEF OpenFails
  <2>3. reply'[t].sound = ok /\ reply'[t].n = 0 /\ reply'[t].bytes = <<>>
    BY <1>1, <1>3, <2>2, CountFirst
  <2>4. AbsentAreEmpty'
    BY <1>3, <1>8, <2>1 DEF StoreInv, AbsentAreEmpty
  <2>5. StoreInv'
    BY <1>1, <1>7, <2>1, <2>4, InvKept
  <2>6. KeptFiles' = [id \in FileIds |-> files'[Name(id)]]
    BY <1>1, <1>4, <2>1 DEF KeptFiles
  <2>7. \A id \in FileIds : id # r.id \/ ReadOnly(r) => KeptFiles'[id] = KeptFiles[id]
    BY <1>1, <1>4, <1>5, <2>1, <2>6 DEF Opened, ReadOnly
  <2>8. ASSUME ok
        PROVE  /\ KeptFiles' = [KeptFiles EXCEPT ![r.id] = Store!After(r, @)]
               /\ Result(reply'[t]) = Store!Reply(r, KeptFiles[r.id])
    <3>1. ReadOnly(r) /\ ~file.exists /\ file.bytes = <<>> /\ files' = files
      BY <1>3, <2>1, <2>8 DEF EmptyIfAbsent
    <3>2. KeptFiles[r.id] = file /\ KeptFiles' = KeptFiles
      BY <1>1, <1>2, <1>5, <2>1, <2>6, <3>1
    <3>3. Store!After(r, file) = file
      BY <3>1 DEF Store!After, Store!ReadOnly, ReadOnly
    <3>4. Store!From(r, <<>>) = 0
      BY <1>2, <3>1 DEF Typed, Store!From, ReadOnly, Store!ReadOnly
    <3>5. Store!Covered(r, <<>>) = <<>>
      <4>1. Len(r.data) \in Nat
        BY <1>2 DEF Typed
      <4>2. Store!Covered(r, <<>>) = SubSeq(<<>>, 1, 0)
        BY <3>4, <4>1 DEF Store!Covered
      <4>3. QED
        BY <4>2, SubSeqEmpty
    <3>6. Result(reply'[t]) = Store!Reply(r, file)
      <4>1. Result(reply'[t]) = Store!Answer(0, <<>>)
        BY <2>3, <2>8 DEF Result, Store!Answer
      <4>2. Store!Reply(r, file) = Store!Answer(0, <<>>)
        <5>1. Len(<<>>) = 0
          OBVIOUS
        <5>2. r.kind = "size" \/ r.kind = "read" \/ r.kind = "verify"
          BY <3>1 DEF ReadOnly
        <5>3. QED
          BY <3>1, <3>5, <5>1, <5>2 DEF Store!Reply
      <4>3. QED
        BY <4>1, <4>2
    <3>7. KeptFiles = [KeptFiles EXCEPT ![r.id] = Store!After(r, @)]
      BY <1>2, <1>5, <2>1, <3>2, <3>3
    <3>8. QED
      BY <3>2, <3>6, <3>7
  <2>9. ~stuck /\ stuck' \in BOOLEAN /\ ~stuck'
    BY <1>1, <2>1
  <2>10. StoreStep
    BY <1>1, <1>3, <1>7, <2>1, <2>3, <2>7, <2>8, <2>9, Finishes
  <2>11. QED
    BY <2>5, <2>10
<1>12. CASE OpenStays(t, ok)
  <2>1. /\ open = Closed /\ open' = name /\ was' = file /\ files' = files /\ stuck' = TRUE /\ ~ok
        /\ pc'[t] = "unlock" /\ pc' = [pc EXCEPT ![t] = "unlock"]
        /\ r.kind \in {"write", "append"}
    BY <1>12 DEF OpenStays, Goto, StoreInv, TypeInv, TypeOK
  <2>2. ~reply'[t].sound
    <3>1. Count(t, 0, FALSE)
      BY <1>12 DEF OpenStays
    <3>2. QED
      BY <1>1, <1>3, <3>1, CountFirst
  <2>3. AbsentAreEmpty'
    BY <1>3, <2>1 DEF StoreInv, AbsentAreEmpty
  <2>4. StoreInv'
    BY <1>1, <1>7, <2>1, <2>3, InvKept
  <2>5. KeptFiles' = KeptFiles
    BY <1>4, <1>5, <2>1 DEF KeptFiles
  <2>6. reply'[t].sound \in BOOLEAN /\ stuck' \in BOOLEAN /\ ~stuck
    <3>1. reply'[t] \in [sound : BOOLEAN, n : Nat, bytes : Seq(Bytes)]
      BY DEF TypeInv, TypeOK
    <3>2. QED
      BY <1>1, <2>1, <3>1
  <2>7. StoreStep
    BY <1>1, <1>7, <2>1, <2>2, <2>5, <2>6, Finishes
  <2>8. QED
    BY <2>4, <2>7
<1>13. CASE OpenRefused(t)
  <2>1. /\ open # Closed /\ UNCHANGED <<open, was, stuck, files>>
        /\ pc'[t] = "unlock" /\ pc' = [pc EXCEPT ![t] = "unlock"]
    BY <1>13 DEF OpenRefused, Goto, StoreInv, TypeInv, TypeOK
  <2>2. reply'[t].sound = TRUE /\ reply'[t].n = 0 /\ reply'[t].bytes = <<>>
    <3>1. Count(t, 0, TRUE)
      BY <1>13 DEF OpenRefused
    <3>2. QED
      BY <1>1, <1>3, <3>1, CountFirst
  <2>3. AbsentAreEmpty'
    BY <2>1 DEF StoreInv, AbsentAreEmpty, EmptyIfAbsent
  <2>4. StoreInv'
    BY <1>1, <1>7, <2>1, <2>3, InvKept
  <2>5. KeptFiles' = KeptFiles
    BY <2>1, KeptSame
  <2>6. Answered(t)' = Store!Answer(0, <<>>) /\ \A u \in Threads \ {t} : Answered(u)' = Answered(u)
    BY <1>7, <2>1, <2>2 DEF Answered, At, Store!Answer
  <2>7. Answers' = [Answers EXCEPT ![t] = Store!Answer(0, <<>>)]
    BY <2>6 DEF Answers
  <2>8. Store!InProgress(t)
    BY <1>1, Requested DEF Store!InProgress, Answers, Answered, At
  <2>9. Store!Refuse(t)
    BY <1>1, <2>1, <2>5, <2>7, <2>8 DEF Store!Refuse
  <2>10. QED
    BY <2>4, <2>9 DEF StoreStep, Store!Next
<1>14. QED
  BY <1>10, <1>11, <1>12, <1>13 DEF Open

\* The end of a loop that the card did not fail
LEMMA ReadResult ==
    ASSUME NEW r, Typed(r), r.kind = "read", NEW old \in Files, NEW a, NEW at,
           Progress(r, a, at, old.bytes, old.bytes), a.n \in Nat,
           a.n = Len(r.data) \/ at = Len(old.bytes)
    PROVE  Store!Reply(r, old) = Store!Answer(a.n, a.bytes)
<1> DEFINE from == Store!From(r, old.bytes)
           size == Len(old.bytes)
<1>1. /\ old.bytes \in Seq(Bytes) /\ size \in Nat /\ Len(r.data) \in Nat
      /\ from \in Nat /\ from <= size
  BY FromInFile DEF Files, Typed
<1>2. /\ a.n <= Len(r.data) /\ at = from + a.n /\ at <= size
      /\ a.bytes = SubSeq(old.bytes, from + 1, from + a.n)
  BY DEF Progress
<1>3. from + a.n = IF from + Len(r.data) <= size THEN from + Len(r.data) ELSE size
  BY <1>1, <1>2
<1>4. Store!Covered(r, old.bytes) = a.bytes
  BY <1>2, <1>3 DEF Store!Covered
<1>5. Len(a.bytes) = a.n
  <2> DEFINE to == from + a.n
  <2>1. to \in Nat /\ from <= to /\ to <= size /\ to - from = a.n
    BY <1>1, <1>2, SMTT(30)
  <2>2. Len(SubSeq(old.bytes, from + 1, to)) = to - from
    <3> HIDE DEF to, from
    <3>1. QED
      BY <1>1, <2>1, Part
  <2>3. QED
    BY <1>2, <2>1, <2>2
<1>6. QED
  BY <1>4, <1>5 DEF Store!Reply

\* The next byte of the file differs from that of the buffer, or there is none
Differs(old, data, from, n) == ~(from + n < Len(old) /\ old[from + n + 1] = data[n + 1])

\* The bytes under the buffer are those of the buffer just if all were compared
LEMMA VerifyResult ==
    ASSUME NEW r, Typed(r), NEW old \in Seq(Bytes), NEW n \in Nat,
           Compared(old, r.data, Store!From(r, old), n),
           n = Len(r.data) \/ Differs(old, r.data, Store!From(r, old), n)
    PROVE  Store!Covered(r, old) = r.data <=> n = Len(r.data)
<1> DEFINE from == Store!From(r, old)
           to == IF from + Len(r.data) <= Len(old) THEN from + Len(r.data) ELSE Len(old)
           part == SubSeq(old, from + 1, to)
<1>1. /\ Len(old) \in Nat /\ r.data \in Seq(Bytes) /\ Len(r.data) \in Nat
      /\ from \in Nat /\ from <= Len(old)
      /\ n <= Len(r.data) /\ from + n <= Len(old) /\ \A i \in 1..n : old[from + i] = r.data[i]
      /\ n = Len(r.data) \/ ~(from + n < Len(old) /\ old[from + n + 1] = r.data[n + 1])
  BY FromInFile DEF Typed, Compared, Differs
<1> HIDE DEF from
<1>2. to \in Nat /\ from <= to /\ to <= Len(old)
  BY <1>1
<1>3. Store!Covered(r, old) = part
  BY DEF Store!Covered, from
<1>4. part \in Seq(Bytes) /\ Len(part) = to - from /\ \A i \in 1..(to - from) : part[i] = old[from + i]
  <2> HIDE DEF to
  <2>1. QED
    BY <1>1, <1>2, Part
<1>5. CASE n = Len(r.data)
  <2>1. to - from = n
    BY <1>1, <1>5
  <2>2. \A i \in 1..Len(part) : part[i] = r.data[i]
    <3> HIDE DEF to, part
    <3>1. QED
      BY <1>1, <1>4, <2>1
  <2>3. Len(part) = Len(r.data)
    <3> HIDE DEF to, part
    <3>1. QED
      BY <1>4, <1>5, <2>1
  <2>4. part = r.data
    <3> HIDE DEF to, part
    <3>1. QED
      BY <1>1, <1>4, <2>2, <2>3, SeqEqual
  <2>5. QED
    BY <1>3, <1>5, <2>4
<1>6. CASE n < Len(r.data)
  <2> SUFFICES ASSUME part = r.data PROVE FALSE
    BY <1>1, <1>3, <1>6
  <2>1. to - from = Len(r.data)
    <3> HIDE DEF to, part
    <3>1. QED
      BY <1>4
  <2>2. from + n < Len(old) /\ n + 1 \in 1..(to - from)
    <3>1. from + Len(r.data) <= Len(old)
      BY <1>1, <1>2, <2>1
    <3>2. QED
      BY <1>1, <1>6, <2>1, <3>1
  <2>3. old[from + (n + 1)] = r.data[n + 1]
    <3> HIDE DEF to, part
    <3>1. QED
      BY <1>4, <2>2
  <2>4. from + (n + 1) = from + n + 1
    BY <1>1
  <2>5. QED
    BY <1>1, <1>6, <2>2, <2>3, <2>4
<1>7. QED
  BY <1>1, <1>5, <1>6

LEMMA TransferStep ==
    ASSUME StoreInv, TypeInv', NEW t \in Threads, Transfer(t)
    PROVE  StoreInv' /\ StoreStep
<1> DEFINE r == req[t]
           a == reply[t]
           old == was.bytes
           from == Store!From(r, old)
<1>1. /\ pc[t] = "transfer" /\ req' = req /\ open' = open /\ was' = was /\ stuck' = stuck
  BY DEF Transfer, FileSize, ReadByte, WriteByte, VerifyByte, LoopDone, Unfinished, At
<1>2. /\ open \in Names /\ was \in Files /\ old \in Seq(Bytes)
      /\ files[open] \in Files /\ files[open].bytes \in Seq(Bytes)
      /\ pos \in Nat /\ a \in [sound : BOOLEAN, n : Nat, bytes : Seq(Bytes)]
      /\ Typed(r) /\ r.kind \in Kinds /\ r.data \in Seq(Bytes)
  BY <1>1, OpenFile, Requested DEF Typed
<1>3. /\ files[open].exists /\ (ReadOnly(r) => files[open] = was)
      /\ r.kind # "create" /\ (a.sound => Progress(r, a, pos, old, files[open].bytes))
  BY <1>1, OpenFile DEF WhileOpen
<1>4. /\ a.n \in Nat /\ Len(old) \in Nat /\ Len(r.data) \in Nat /\ from \in Nat /\ from <= Len(old)
      /\ files[open].bytes = Contents
  BY <1>2, FromInFile DEF Contents
<1>5. CardOK /\ RepliesOK /\ PcOK
  BY TypeParts DEF StoreInv, TypeInv
<1>6. PICK step \in {"transfer", "close"} : pc' = [pc EXCEPT ![t] = step]
  <2>1. pc = [pc EXCEPT ![t] = "transfer"]
    BY <1>1, <1>5 DEF PcOK
  <2>2. QED
    BY <2>1 DEF Transfer, FileSize, ReadByte, WriteByte, VerifyByte, LoopDone, Goto
<1>7. pc'[t] = step /\ \A u \in Threads \ {t} : pc'[u] = pc[u] /\ reply'[u] = reply[u]
  <2>1. \A u \in Threads \ {t} : reply'[u] = reply[u]
    BY <1>5 DEF Transfer, FileSize, ReadByte, WriteByte, VerifyByte, LoopDone, Count, RepliesOK
  <2>2. QED
    BY <1>5, <1>6, <2>1 DEF PcOK
<1>8. /\ \A f \in Names \ {open} : files'[f] = files[f]
      /\ files'[open].exists
      /\ files' = files \/ r.kind \in {"write", "append"}
  <2>1. CASE files' = files
    BY <1>3, <2>1
  <2>2. CASE files' # files
    <3>1. PICK ok \in CardOutcomes : WriteByte(t, ok)
      BY <2>2 DEF Transfer, FileSize, ReadByte, VerifyByte, LoopDone
    <3>2. /\ r.kind \in {"write", "append"}
          /\ files' = [files EXCEPT ![open].bytes = Overlaid(@, pos, Wanted(t))]
      BY <2>2, <3>1 DEF WriteByte
    <3>3. QED
      BY <1>2, <1>3, <1>5, <3>2 DEF CardOK, Files
  <2>3. QED
    BY <2>1, <2>2
<1>9. AbsentAreEmpty'
  BY <1>1, <1>8 DEF StoreInv, AbsentAreEmpty, EmptyIfAbsent
<1>10. KeptFiles' = KeptFiles
  BY <1>1, <1>8, KeptSame
<1>11. Answers' = Answers
  BY <1>1, <1>7, AnswersSame
<1>12. StoreStep
  BY <1>1, <1>10, <1>11, Stutters
<1>13. ASSUME WhileOpen(t)' PROVE StoreInv' /\ StoreStep
  BY <1>1, <1>7, <1>9, <1>12, <1>13, InvKept
\* A step of the loop that goes on
<1>14. ASSUME step = "transfer", reply'[t].sound, Progress(r, reply'[t], pos', old, files'[open].bytes)
       PROVE  WhileOpen(t)'
  BY <1>1, <1>3, <1>7, <1>8, <1>14 DEF WhileOpen, ReadOnly
\* One that leaves it
<1>15. ASSUME step = "close",
              reply'[t].sound => /\ files'[open] = Store!After(r, was)
                                 /\ Result(reply'[t]) = Store!Reply(r, was)
       PROVE  WhileOpen(t)'
  BY <1>1, <1>3, <1>7, <1>8, <1>15 DEF WhileOpen, ReadOnly
<1>16. SUFFICES ASSUME a.sound PROVE StoreInv' /\ StoreStep
  <2>1. ASSUME ~a.sound PROVE WhileOpen(t)'
    <3>1. ~reply'[t].sound
      BY <1>2, <1>5, <2>1 DEF Transfer, FileSize, ReadByte, WriteByte, VerifyByte, LoopDone, Count, RepliesOK
    <3>2. files'[open'].exists /\ (ReadOnly(r) => files'[open'] = was')
      BY <1>1, <1>3, <1>8 DEF ReadOnly
    <3>3. QED
      BY <1>1, <1>3, <3>1, <3>2 DEF WhileOpen
  <2>2. QED
    BY <1>13, <2>1
<1>17. Progress(r, a, pos, old, files[open].bytes)
  BY <1>3, <1>16
<1>18. ReadOnly(r) => Store!After(r, was) = was
  BY DEF Store!After, Store!ReadOnly, ReadOnly
<1>19. ASSUME NEW n, NEW ok \in BOOLEAN, Count(t, n, ok)
       PROVE  reply'[t].n = n /\ reply'[t].sound = ok /\ reply'[t].bytes = a.bytes
  <2>1. reply'[t] = [a EXCEPT !.n = n, !.sound = @ /\ ok]
    BY <1>5, <1>19 DEF Count, RepliesOK
  <2>2. (a.sound /\ ok) = ok
    BY <1>2, <1>3, <1>16, <1>17
  <2>3. QED
    BY <1>2, <2>1, <2>2
<1>20. ASSUME pos = from + a.n, a.n < Len(r.data)
       PROVE  from <= pos /\ pos + 1 = from + (a.n + 1) /\ a.n + 1 <= Len(r.data)
  <2> DEFINE n == a.n
             size == Len(r.data)
  <2>1. n \in Nat /\ size \in Nat /\ from \in Nat /\ pos = from + n /\ n < size
    BY <1>4, <1>20
  <2> HIDE DEF from, n, size
  <2>2. from <= pos /\ pos + 1 = from + (n + 1) /\ n + 1 <= size
    BY <2>1
  <2>3. QED
    BY <2>2 DEF n, size
<1>21. CASE FileSize(t)
  <2>1. /\ r.kind = "size" /\ files' = files /\ step = "close"
        /\ Count(t, Len(Contents), TRUE)
    BY <1>7, <1>21 DEF FileSize, Goto, StoreInv, TypeInv, TypeOK
  <2>2. ReadOnly(r) /\ files[open] = was /\ a.bytes = <<>>
    BY <1>3, <1>16, <1>17, <2>1 DEF ReadOnly, Progress
  <2>3. Result(reply'[t]) = Store!Reply(r, was)
    BY <1>4, <1>19, <2>1, <2>2 DEF Result, Store!Reply, Store!Answer
  <2>4. QED
    BY <1>13, <1>15, <1>18, <2>1, <2>2, <2>3
<1>22. ASSUME NEW ok \in CardOutcomes, ReadByte(t, ok) PROVE StoreInv' /\ StoreStep
  <2>1. r.kind = "read" /\ files' = files /\ a.n < Len(r.data) /\ ok \in BOOLEAN
    BY <1>22, OutcomesTyped DEF ReadByte, Unfinished
  <2>2. /\ ReadOnly(r) /\ files[open] = was /\ pos = from + a.n /\ pos <= Len(old)
        /\ a.bytes = SubSeq(old, from + 1, from + a.n)
    BY <1>3, <1>16, <1>17, <2>1 DEF ReadOnly, Progress
  <2>3. CASE ok /\ pos < Len(Contents)
    <3>1. /\ reply' = [reply EXCEPT ![t].n = @ + 1, ![t].bytes = Append(@, Contents[pos + 1])]
          /\ pos' = pos + 1 /\ pc' = pc
      BY <1>22, <2>3 DEF ReadByte
    <3>2. /\ reply'[t].n = a.n + 1 /\ reply'[t].bytes = Append(a.bytes, old[pos + 1])
          /\ reply'[t].sound /\ step = "transfer"
      BY <1>1, <1>3, <1>16, <1>17, <1>4, <1>5, <1>7, <2>2, <3>1, ZenonT(40) DEF RepliesOK
    <3>3. /\ pos < Len(old) /\ pos + 1 <= Len(old)
          /\ from <= pos /\ pos + 1 = from + (a.n + 1) /\ a.n + 1 <= Len(r.data)
      <4>1. pos < Len(old) /\ pos + 1 <= Len(old)
        BY <1>2, <1>4, <2>2, <2>3
      <4>2. QED
        BY <1>20, <2>1, <2>2, <4>1
    <3>4. Append(SubSeq(old, from + 1, pos), old[pos + 1]) = SubSeq(old, from + 1, pos + 1)
      <4> HIDE DEF from
      <4>1. QED
        BY <1>2, <1>4, <3>3, PartAndOne
    <3>5. Progress(r, reply'[t], pos', old, files'[open].bytes)
      BY <2>1, <2>2, <3>1, <3>2, <3>3, <3>4 DEF Progress
    <3>6. QED
      BY <1>13, <1>14, <3>2, <3>5
  <2>4. CASE ~(ok /\ pos < Len(Contents))
    <3>1. step = "close" /\ Count(t, a.n, ok)
      BY <1>7, <1>22, <2>4 DEF ReadByte, Goto, StoreInv, TypeInv, TypeOK
    <3>2. reply'[t].sound = ok /\ reply'[t].n = a.n /\ reply'[t].bytes = a.bytes
      BY <1>19, <2>1, <3>1
    <3>3. ASSUME ok PROVE Result(reply'[t]) = Store!Reply(r, was)
      <4>1. pos = Len(was.bytes)
        BY <1>2, <1>4, <2>2, <2>4, <3>3
      <4>2. Progress(r, a, pos, was.bytes, was.bytes)
        BY <1>3, <1>16, <1>17, <2>2
      <4>3. Store!Reply(r, was) = Store!Answer(a.n, a.bytes)
        BY <1>2, <1>4, <2>1, <4>1, <4>2, ReadResult
      <4>4. QED
        BY <3>2, <3>3, <4>3 DEF Result, Store!Answer
    <3>4. QED
      BY <1>13, <1>15, <1>18, <2>1, <2>2, <3>1, <3>2, <3>3
  <2>5. QED
    BY <2>3, <2>4
<1>23. ASSUME NEW ok \in CardOutcomes, WriteByte(t, ok) PROVE StoreInv' /\ StoreStep
  <2>1. r.kind \in {"write", "append"} /\ a.n < Len(r.data) /\ ok \in BOOLEAN
    BY <1>23, OutcomesTyped DEF WriteByte, Unfinished
  <2>2. /\ pos = from + a.n /\ a.bytes = <<>>
        /\ Overwritten(files[open].bytes, old, r.data, from, a.n)
    BY <1>3, <1>16, <1>17, <2>1 DEF Progress
  <2>3. CASE ok
    <3>1. /\ files' = [files EXCEPT ![open].bytes = Overlaid(@, pos, Wanted(t))]
          /\ pos' = pos + 1 /\ pc' = pc /\ Count(t, a.n + 1, TRUE)
      BY <1>23, <2>3 DEF WriteByte
    <3>2. /\ files'[open].bytes = Overlaid(files[open].bytes, from + a.n, r.data[a.n + 1])
          /\ step = "transfer"
      BY <1>1, <1>2, <1>5, <1>7, <2>2, <3>1 DEF CardOK, Files, Wanted
    <3>3. reply'[t].n = a.n + 1 /\ reply'[t].bytes = <<>> /\ reply'[t].sound
      BY <1>19, <2>2, <3>1
    <3>4. Overwritten(files'[open].bytes, old, r.data, from, a.n + 1)
      <4> HIDE DEF from
      <4>1. QED
        BY <1>2, <1>4, <2>1, <2>2, <3>2, OverwriteOne, SMTT(30)
    <3>5. pos' = from + (a.n + 1) /\ a.n + 1 <= Len(r.data)
      BY <1>20, <2>1, <2>2, <3>1
    <3>6. Progress(r, reply'[t], pos', old, files'[open].bytes)
      BY <2>1, <3>3, <3>4, <3>5 DEF Progress
    <3>7. QED
      BY <1>13, <1>14, <3>2, <3>3, <3>6
  <2>4. CASE ~ok
    <3>1. step = "close" /\ Count(t, a.n, FALSE)
      BY <1>7, <1>23, <2>4 DEF WriteByte, Goto, StoreInv, TypeInv, TypeOK
    <3>2. ~reply'[t].sound
      BY <1>2, <1>19, <3>1
    <3>3. QED
      BY <1>13, <1>15, <3>1, <3>2
  <2>5. QED
    BY <2>3, <2>4
<1>24. ASSUME NEW ok \in CardOutcomes, VerifyByte(t, ok) PROVE StoreInv' /\ StoreStep
  <2>1. r.kind = "verify" /\ files' = files /\ a.n < Len(r.data) /\ ok \in BOOLEAN
    BY <1>24, OutcomesTyped DEF VerifyByte, Unfinished
  <2>2. /\ ReadOnly(r) /\ files[open] = was /\ was.exists /\ pos = from + a.n /\ pos <= Len(old)
        /\ a.bytes = <<>> /\ Compared(old, r.data, from, a.n)
        /\ \A i \in 1..a.n : old[from + i] = r.data[i]
    BY <1>3, <1>16, <1>17, <2>1 DEF ReadOnly, Progress, Compared
  <2>3. CASE ok /\ pos < Len(Contents) /\ Contents[pos + 1] = Wanted(t)
    <3>1. pos' = pos + 1 /\ pc' = pc /\ Count(t, a.n + 1, TRUE)
      BY <1>24, <2>3 DEF VerifyByte
    <3>2. reply'[t].n = a.n + 1 /\ reply'[t].bytes = <<>> /\ reply'[t].sound /\ step = "transfer"
      BY <1>1, <1>7, <1>19, <2>2, <3>1
    <3>3. pos' = from + (a.n + 1) /\ pos' <= Len(old) /\ a.n + 1 <= Len(r.data)
      <4>1. pos + 1 <= Len(old)
        BY <1>2, <1>4, <2>2, <2>3
      <4>2. QED
        BY <1>20, <2>1, <2>2, <3>1, <4>1
    <3>4. old[from + (a.n + 1)] = r.data[a.n + 1]
      <4>1. from + (a.n + 1) = pos + 1
        BY <1>20, <2>1, <2>2
      <4>2. QED
        BY <1>4, <2>2, <2>3, <4>1 DEF Wanted
    <3>5. \A i \in 1..(a.n + 1) : old[from + i] = r.data[i]
      <4>1. \A i \in 1..(a.n + 1) : i \in 1..a.n \/ i = a.n + 1
        BY <1>4
      <4>2. QED
        BY <2>2, <3>4, <4>1
    <3>6. Progress(r, reply'[t], pos', old, files'[open].bytes)
      BY <1>4, <2>1, <3>2, <3>3, <3>5 DEF Progress, Compared
    <3>7. QED
      BY <1>13, <1>14, <3>2, <3>6
  <2>4. CASE ~(ok /\ pos < Len(Contents) /\ Contents[pos + 1] = Wanted(t))
    <3>1. step = "close" /\ Count(t, 0, ok)
      BY <1>7, <1>24, <2>4 DEF VerifyByte, Goto, StoreInv, TypeInv, TypeOK
    <3>2. reply'[t].sound = ok /\ reply'[t].n = 0 /\ reply'[t].bytes = <<>>
      BY <1>19, <2>1, <2>2, <3>1
    <3>3. ASSUME ok PROVE Result(reply'[t]) = Store!Reply(r, was)
      <4>1. Differs(old, r.data, from, a.n)
        BY <1>4, <2>2, <2>4, <3>3 DEF Wanted, Differs
      <4>2. a.n # Len(r.data)
        BY <1>4, <2>1
      <4>3. Store!Covered(r, old) # r.data
        BY <1>2, <1>4, <2>2, <4>1, <4>2, VerifyResult
      <4>4. QED
        BY <2>1, <3>2, <3>3, <4>3 DEF Result, Store!Reply, Store!Answer
    <3>4. QED
      BY <1>13, <1>15, <1>18, <2>1, <2>2, <3>1, <3>2, <3>3
  <2>5. QED
    BY <2>3, <2>4
<1>25. CASE LoopDone(t)
  <2>1. /\ r.kind # "size" /\ a.n = Len(r.data) /\ step = "close" /\ files' = files
        /\ Count(t, IF r.kind = "verify" THEN 1 ELSE a.n, TRUE)
    BY <1>7, <1>25 DEF LoopDone, Goto, StoreInv, TypeInv, TypeOK
  <2>2. /\ reply'[t].sound /\ reply'[t].n = (IF r.kind = "verify" THEN 1 ELSE a.n)
        /\ reply'[t].bytes = a.bytes
    BY <1>19, <2>1
  <2>3. CASE r.kind = "read"
    <3>1. ReadOnly(r) /\ files[open] = was
      BY <1>3, <1>16, <1>17, <2>3 DEF ReadOnly
    <3>2. Progress(r, a, pos, was.bytes, was.bytes)
      BY <1>3, <1>16, <1>17, <3>1
    <3>3. Store!Reply(r, was) = Store!Answer(a.n, a.bytes)
      BY <1>2, <1>4, <2>1, <2>3, <3>2, ReadResult, ZenonT(40)
    <3>4. Result(reply'[t]) = Store!Answer(a.n, a.bytes)
      BY <2>2, <2>3 DEF Result, Store!Answer
    <3>5. QED
      BY <1>13, <1>15, <1>18, <2>1, <3>1, <3>3, <3>4
  <2>4. CASE r.kind = "verify"
    <3>1. /\ ReadOnly(r) /\ files[open] = was /\ was.exists /\ a.bytes = <<>>
          /\ Compared(old, r.data, from, a.n)
      BY <1>3, <1>16, <1>17, <2>4 DEF ReadOnly, Progress
    <3>2. Store!Covered(r, old) = r.data
      BY <1>2, <1>4, <2>1, <3>1, VerifyResult
    <3>3. Result(reply'[t]) = Store!Reply(r, was)
      BY <2>2, <2>4, <3>1, <3>2 DEF Result, Store!Reply, Store!Answer
    <3>4. QED
      BY <1>13, <1>15, <1>18, <2>1, <3>1, <3>3
  <2>5. CASE r.kind \in {"write", "append"}
    <3>1. Overwritten(files[open].bytes, old, r.data, from, Len(r.data)) /\ a.bytes = <<>>
      BY <1>3, <1>16, <1>17, <2>1, <2>5 DEF Progress
    <3>2. files[open].bytes = Store!Put(r, old)
      BY <1>2, <3>1, PutBytes
    <3>3. files[open] = Store!Present(Store!Put(r, old))
      BY <1>2, <1>3, <1>16, <1>17, <3>2 DEF Files, Store!Present
    <3>4. Store!After(r, was) = files[open]
      BY <2>5, <3>3 DEF Store!After, Store!ReadOnly
    <3>5. Result(reply'[t]) = Store!Reply(r, was)
      BY <2>1, <2>2, <2>5, <3>1 DEF Result, Store!Reply, Store!Answer
    <3>6. QED
      BY <1>13, <1>15, <2>1, <3>4, <3>5
  <2>6. QED
    BY <1>2, <1>3, <1>16, <1>17, <2>1, <2>3, <2>4, <2>5 DEF Kinds
<1>26. QED
  BY <1>21, <1>22, <1>23, <1>24, <1>25 DEF Transfer

LEMMA CloseStep ==
    ASSUME StoreInv, TypeInv', NEW t \in Threads, NEW ok \in CardOutcomes, Close(t, ok)
    PROVE  StoreInv' /\ StoreStep
<1> DEFINE r == req[t]
           a == reply[t]
           file == files[open]
<1>1. /\ pc[t] = "close" /\ req' = req /\ open' = Closed /\ was' = Absent
      /\ pc' = [pc EXCEPT ![t] = "unlock"] /\ Count(t, a.n, ok)
  BY DEF Close, At, Goto
<1>2. /\ r.id \in FileIds /\ open = Name(r.id) /\ open \in Names /\ was \in Files /\ file \in Files
      /\ a \in [sound : BOOLEAN, n : Nat, bytes : Seq(Bytes)] /\ WhileOpen(t)
      /\ Len(was.bytes) \in Nat
  BY <1>1, OpenFile, Requested DEF Typed
<1>3. CardOK /\ RepliesOK /\ ok \in BOOLEAN /\ pc \in [Threads -> Steps]
  BY TypeParts, OutcomesTyped DEF StoreInv, TypeInv, TypeOK
<1>4. /\ pc'[t] = "unlock" /\ \A u \in Threads \ {t} : pc'[u] = pc[u] /\ reply'[u] = reply[u]
      /\ reply'[t] = [a EXCEPT !.sound = @ /\ ok]
  BY <1>1, <1>2, <1>3 DEF Count, RepliesOK
<1>5. /\ reply'[t].sound \in BOOLEAN /\ reply'[t].n = a.n /\ reply'[t].bytes = a.bytes
      /\ reply'[t].sound => a.sound /\ ok
  BY <1>2, <1>3, <1>4
<1>6. /\ \A f \in Names \ {open} : files'[f] = files[f]
      /\ files'[open].exists
      /\ ok \/ ReadOnly(r) => files'[open] = file
  <2>1. CASE files' = files
    BY <1>2, <2>1 DEF WhileOpen
  <2>2. CASE files' # files
    <3>1. /\ ~ok /\ Len(file.bytes) > Len(was.bytes)
          /\ files' = [files EXCEPT ![open].bytes = SubSeq(@, 1, Len(was.bytes))]
      BY <1>2, <2>2 DEF Close, Contents, Files
    <3>2. ~ReadOnly(r)
      BY <1>2, <3>1 DEF WhileOpen
    <3>3. QED
      BY <1>2, <1>3, <3>1, <3>2 DEF CardOK, Files, WhileOpen
  <2>3. QED
    BY <2>1, <2>2
<1>7. AbsentAreEmpty'
  BY <1>1, <1>6 DEF StoreInv, AbsentAreEmpty, EmptyIfAbsent, Absent
<1>8. StoreInv'
  BY <1>1, <1>4, <1>7, InvKept
<1>9. \A id \in FileIds : Name(id) \in Names /\ Name(id) # Closed /\ (Name(id) = open => id = r.id)
  BY <1>2, NotClosed, NamesDiffer DEF Names
<1>10. /\ KeptFiles[r.id] = was /\ KeptFiles'[r.id] = files'[open]
       /\ \A id \in FileIds \ {r.id} : KeptFiles'[id] = KeptFiles[id]
       /\ KeptFiles = [id \in FileIds |-> KeptFiles[id]]
       /\ KeptFiles' = [id \in FileIds |-> KeptFiles'[id]]
  BY <1>1, <1>2, <1>6, <1>9 DEF KeptFiles
<1>11. \A id \in FileIds : id # r.id \/ ReadOnly(r) => KeptFiles'[id] = KeptFiles[id]
  BY <1>2, <1>6, <1>10 DEF WhileOpen
<1>12. ASSUME reply'[t].sound
       PROVE  /\ KeptFiles' = [KeptFiles EXCEPT ![r.id] = Store!After(r, @)]
              /\ Result(reply'[t]) = Store!Reply(r, KeptFiles[r.id])
  <2>1. file = Store!After(r, was) /\ Result(a) = Store!Reply(r, was) /\ a.sound /\ ok
    BY <1>1, <1>2, <1>5, <1>12 DEF WhileOpen
  <2>2. Result(reply'[t]) = Result(a)
    BY <1>2, <1>5, <1>12, <2>1 DEF Result
  <2>3. KeptFiles'[r.id] = Store!After(r, KeptFiles[r.id])
    BY <1>6, <1>10, <2>1
  <2>4. KeptFiles' = [KeptFiles EXCEPT ![r.id] = Store!After(r, @)]
    BY <1>10, <2>3
  <2>5. QED
    BY <1>10, <2>1, <2>2, <2>4
<1>13. ~stuck /\ stuck' = stuck /\ stuck' \in BOOLEAN
  BY <1>1, <1>3, NotStuck DEF Close, StoreInv, TypeInv, Transferring, CardOK
<1>14. StoreStep
  BY <1>1, <1>4, <1>5, <1>11, <1>12, <1>13, Finishes
<1>15. QED
  BY <1>8, <1>14

\* Each operation is atomic, acts on the file of its id alone and is exact unless
\* the card failed it, or a failed open before has left the handle open, when it is
\* refused: for all keys, buffers and addresses, three threads may share
\* ASIF_CurrentFile and the name buffer.
THEOREM ImplementsStore == Spec => StoresFiles
<1>1. Init => Fresh /\ AbsentAreEmpty /\ Transfers /\ Store!Init
  <2> SUFFICES ASSUME Init PROVE Fresh /\ AbsentAreEmpty /\ Transfers /\ Store!Init
    OBVIOUS
  <2>1. Fresh /\ AbsentAreEmpty /\ Transfers
    BY DEF Init, Fresh, AbsentAreEmpty, EmptyIfAbsent, Absent, Transfers
  <2>2. \A id \in FileIds : KeptFiles[id] = Store!Absent
    BY DEF Init, KeptFiles, Names, Absent, Store!Absent
  <2>3. \A t \in Threads : Answered(t) = Store!NoAnswer
    BY DEF Init, Answered, At, Store!NoAnswer
  <2>4. KeptFiles = [id \in FileIds |-> Store!Absent]
    BY <2>2 DEF KeptFiles
  <2>5. Answers = [t \in Threads |-> Store!NoAnswer]
    BY <2>3 DEF Answers
  <2>6. req = [t \in Threads |-> Store!NoRequest] /\ stuck = FALSE
    BY DEF Init, NoRequest, Ask, Store!NoRequest
  <2>7. QED
    BY <2>1, <2>4, <2>5, <2>6 DEF Store!Init
<1>2. StoreInv /\ TypeInv' /\ [Next]_vars => StoreInv' /\ StoreStep
  <2> SUFFICES ASSUME StoreInv, TypeInv', [Next]_vars PROVE StoreInv' /\ StoreStep
    OBVIOUS
  <2>1. CASE Next
    BY <2>1, EnterStep, OpenStep, CloseStep, TransferStep, UnlockStep DEF Next, Inside
  <2>2. CASE UNCHANGED vars
    <3>1. Fresh' /\ AbsentAreEmpty' /\ Transfers'
      BY <2>2 DEF vars, StoreInv, Fresh, AbsentAreEmpty, EmptyIfAbsent, Transfers, WhileOpen, Progress
    <3>2. StoreStep
      BY <2>2, KeptSame, AnswersSame, Stutters DEF vars
    <3>3. QED
      BY <3>1, <3>2 DEF StoreInv
  <2>3. QED
    BY <2>1, <2>2
<1>3. LockInv /\ TypeOK /\ Fresh /\ AbsentAreEmpty /\ Transfers => StoreInv
  BY DEF StoreInv, TypeInv
<1>4. StoreInv => Fresh /\ AbsentAreEmpty /\ Transfers
  BY DEF StoreInv
<1>5. LockInv' /\ TypeOK' => TypeInv'
  BY DEF TypeInv
<1>6. QED
  BY <1>1, <1>2, <1>3, <1>4, <1>5, LockInvariant, TypeCorrect, PTL
     DEF Spec, StoresFiles, Store!Spec, StoreStep
=============================================================================
