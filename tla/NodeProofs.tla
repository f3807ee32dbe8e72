----------------------------- MODULE NodeProofs -----------------------------
(* Theorems about the two lines to the experiment node.  I2CPort: for every *)
(* size of the buffer and of a message, and any timing of the interrupt and *)
(* of the two threads.  StreamProgrammer: when the ENODE thread begins a    *)
(* program, the node's flash is that program, for every number of pages and *)
(* tries, whatever the line does and whatever the node prints.  The two     *)
(* share no variable.                                                       *)
EXTENDS StreamProgrammer, I2CPort, SequenceTheorems, TLAPS

(***************************************************************************)
(* I2CPort                                                                 *)
(***************************************************************************)

-----------------------------------------------------------------------------
(* The inductive invariant of NeverBackwards                               *)

\* Bytes fill() has copied, and bytes of the port its reset has been over
Copied == IF step.SENSOR = "copy" THEN 1..(at.SENSOR - 1)
          ELSE IF step.SENSOR \in {"clear", "reset", "deliver"} THEN 1..len
          ELSE {}

Cleared == IF step.SENSOR = "clear" THEN 1..(at.SENSOR - 1)
           ELSE IF step.SENSOR \in {"reset", "deliver"} THEN Index
           ELSE {}

\* A byte of a message that was sent, newer than those given to the thread
New(byte) == /\ byte.msg <= sent
             /\ byte = Zero \/ \A n \in seen : byte.msg > n

AtStart == step.SENSOR \in {"idle", "length", "reset", "deliver"} => at.SENSOR = 1
SeenSent == \A n \in seen : n <= sent
PortNew == \A i \in Index : New(content[i])
CopyNew == \A i \in Copied : New(message[i])

\* What came into the port after its reset went by is newer than the copy
ClearedNew == \A i \in Cleared, j \in Copied :
                  content[i] = Zero \/ content[i].msg > message[j].msg

OrderInv == PortTypeOK /\ AtStart /\ SeenSent /\ PortNew /\ CopyNew /\ ClearedNew

LEMMA BytesMsg ==
    \A b \in PortBytes : b.msg \in Nat /\ (b.msg = 0 <=> b = Zero) /\ Zero.msg = 0
BY SizesAssumption DEF PortBytes, Zero, Messages

LEMMA OrderInit == PortInit => OrderInv
<1> SUFFICES ASSUME PortInit PROVE OrderInv
  OBVIOUS
<1>1. Zero \in PortBytes /\ Zero.msg = 0 /\ 1 \in Index
  BY SizesAssumption DEF PortBytes, Zero, Index
<1>2. PortTypeOK
  BY <1>1, SizesAssumption
  DEF PortInit, PortTypeOK, SensorSteps, EnodeSteps, Messages, Index
<1>3. QED
  BY <1>1, <1>2
  DEF PortInit, OrderInv, AtStart, SeenSent, PortNew, CopyNew, ClearedNew, New, Copied,
      Cleared

\* The interrupt writes a message newer than everything else.
LEMMA InterruptOrder == OrderInv /\ Interrupt => OrderInv'
<1> SUFFICES ASSUME OrderInv, NEW size \in Lengths, pullI2c(size)
             PROVE  OrderInv'
  BY DEF Interrupt
<1> DEFINE new == [msg |-> sent + 1, size |-> size]
<1> USE DEF OrderInv
<1>1. /\ size \in 1..BufLen
      /\ sent \in Nat /\ sent + 1 \in Messages /\ MaxMessages \in Nat
  BY SizesAssumption DEF pullI2c, PortTypeOK, Messages
<1>2. new \in PortBytes
  BY <1>1 DEF PortBytes
<1>3. PortTypeOK'
  BY <1>1, <1>2 DEF pullI2c, PortTypeOK, Messages
<1>4. \A i \in Index : content'[i] = new \/ content'[i] = content[i]
  BY DEF pullI2c, PortTypeOK
<1>5. Copied' = Copied /\ Cleared' = Cleared
  BY DEF pullI2c, Copied, Cleared
<1>6. \A i \in Copied : message[i] \in PortBytes
  <2>1. Copied \subseteq Index
    BY SizesAssumption DEF Copied, PortTypeOK, Index
  <2>2. QED
    BY <2>1 DEF PortTypeOK
<1>7. \A b \in PortBytes : New(b) => /\ b.msg <= sent'
                                     /\ b = Zero \/ \A n \in seen' : b.msg > n
  BY <1>1, BytesMsg DEF New, pullI2c
<1>8. new.msg <= sent' /\ \A n \in seen' : new.msg > n
  <2>1. \A n \in seen : n \in Nat /\ n <= sent
    BY DEF SeenSent, PortTypeOK, Messages
  <2>2. QED
    BY <1>1, <2>1 DEF pullI2c
<1>9. SeenSent'
  BY <1>1 DEF SeenSent, pullI2c, PortTypeOK, Messages
<1>10. PortNew'
  BY <1>4, <1>7, <1>8 DEF PortNew, New, PortTypeOK
<1>11. CopyNew'
  BY <1>5, <1>6, <1>7 DEF CopyNew, New, pullI2c
<1>12. ClearedNew'
  <2> SUFFICES ASSUME NEW i \in Cleared, NEW j \in Copied
               PROVE  content'[i] = Zero \/ content'[i].msg > message[j].msg
    BY <1>5 DEF ClearedNew, pullI2c
  <2>1. i \in Index
    BY SizesAssumption DEF Cleared, PortTypeOK, Index
  <2>2. CASE content'[i] = new
    <3>1. message[j].msg <= sent /\ message[j].msg \in Nat
      BY <1>6, BytesMsg DEF CopyNew, New
    <3>2. QED
      BY <1>1, <2>2, <3>1
  <2>3. CASE content'[i] = content[i]
    BY <2>3 DEF ClearedNew
  <2>4. QED
    BY <1>4, <2>1, <2>2, <2>3
<1>13. AtStart'
  BY DEF AtStart, pullI2c
<1>14. QED
  BY <1>3, <1>9, <1>10, <1>11, <1>12, <1>13

\* memset only makes bytes older.
LEMMA ClearOrder ==
    ASSUME OrderInv, NEW t \in {"SENSOR", "ENODE"}, ClearByte(t)
    PROVE  OrderInv'
<1> USE DEF OrderInv
<1>1. Zero \in PortBytes /\ Zero.msg = 0 /\ 1 \in Index /\ at[t] \in Index
  BY SizesAssumption DEF PortBytes, Zero, Index, PortTypeOK
<1>2. PortTypeOK'
  <2>1. content' \in [Index -> PortBytes]
    BY <1>1 DEF ClearByte, PortTypeOK
  <2>2. at' \in [SENSOR : Index, ENODE : Index]
    <3>1. CASE at[t] < BufLen
      <4>1. at[t] + 1 \in Index
        BY <1>1, <3>1, SizesAssumption DEF Index
      <4>2. QED
        BY <3>1, <4>1 DEF ClearByte, PortTypeOK
    <3>2. CASE ~(at[t] < BufLen)
      BY <1>1, <3>2 DEF ClearByte, PortTypeOK
    <3>3. QED
      BY <3>1, <3>2
  <2>3. step' \in [SENSOR : SensorSteps, ENODE : EnodeSteps]
    BY DEF ClearByte, PortTypeOK, SensorSteps, EnodeSteps
  <2>4. QED
    BY <2>1, <2>2, <2>3 DEF ClearByte, PortTypeOK
<1>3. \A i \in Index :
          content'[i] = IF i = at[t] THEN Zero ELSE content[i]
  BY DEF ClearByte, PortTypeOK
<1>4. SeenSent' /\ New(Zero)'
  BY <1>1 DEF SeenSent, New, ClearByte, PortTypeOK, Messages
<1>5. PortNew'
  BY <1>3, <1>4 DEF PortNew, New, ClearByte
<1>6. Copied' = Copied
  BY DEF ClearByte, Copied, PortTypeOK
<1>7. CopyNew'
  BY <1>6 DEF CopyNew, New, ClearByte
<1>8. \A i \in Cleared' : i \in Index /\ (i \in Cleared \/ i = at[t])
  <2>1. CASE t = "ENODE"
    <3>1. Cleared' = Cleared
      BY <2>1 DEF ClearByte, Cleared, PortTypeOK
    <3>2. Cleared \subseteq Index
      BY SizesAssumption DEF Cleared, PortTypeOK, Index
    <3>3. QED
      BY <3>1, <3>2
  <2>2. CASE t = "SENSOR" /\ at[t] < BufLen
    <3>1. at'.SENSOR = at.SENSOR + 1 /\ at.SENSOR \in Index
      BY <1>1, <2>2 DEF ClearByte, PortTypeOK
    <3>2. Cleared = 1..(at.SENSOR - 1) /\ Cleared' = 1..(at'.SENSOR - 1)
      BY <2>2 DEF ClearByte, Cleared, PortTypeOK
    <3>3. at[t] = at.SENSOR
      BY <2>2
    <3>4. Cleared' = 1..at.SENSOR
      BY <3>1, <3>2 DEF Index
    <3>5. QED
      BY <2>2, <3>1, <3>2, <3>3, <3>4, SizesAssumption DEF Index
  <2>3. CASE t = "SENSOR" /\ ~(at[t] < BufLen)
    <3>1. Cleared = 1..(at.SENSOR - 1) /\ Cleared' = Index
      BY <2>3 DEF ClearByte, Cleared, PortTypeOK
    <3>2. at[t] = at.SENSOR /\ at.SENSOR = BufLen
      BY <1>1, <2>3, SizesAssumption DEF Index
    <3>3. QED
      BY <3>1, <3>2, SizesAssumption DEF Index
  <2>4. QED
    BY <2>1, <2>2, <2>3
<1>9. ClearedNew'
  BY <1>3, <1>6, <1>8 DEF ClearedNew, ClearByte
<1>10. AtStart'
  BY DEF AtStart, ClearByte, PortTypeOK
<1>11. QED
  BY <1>2, <1>4, <1>5, <1>7, <1>9, <1>10

LEMMA ResetOrder ==
    ASSUME OrderInv, NEW t \in {"SENSOR", "ENODE"}, ResetLength(t)
    PROVE  OrderInv'
<1> USE DEF OrderInv
<1>1. PortTypeOK'
  BY SizesAssumption DEF ResetLength, PortTypeOK, SensorSteps, EnodeSteps
<1>2. Copied' = Copied /\ Cleared' = Cleared
  BY DEF ResetLength, Copied, Cleared, PortTypeOK
<1>3. QED
  BY <1>1, <1>2
  DEF ResetLength, AtStart, SeenSent, PortNew, CopyNew, ClearedNew, New

\* The thread copies from the port what is new there.
LEMMA SensorOrder ==
    ASSUME OrderInv, ReadLength \/ UseLength \/ CopyByte \/ Deliver
    PROVE  OrderInv'
<1> USE DEF OrderInv
<1>1. CASE ReadLength
  <2>1. PortTypeOK'
    BY <1>1 DEF ReadLength, PortTypeOK, SensorSteps
  <2>2. Copied' = {} /\ Cleared' = {}
    BY <1>1 DEF ReadLength, PortTypeOK, Copied, Cleared
  <2>3. QED
    BY <1>1, <2>1, <2>2
    DEF ReadLength, AtStart, SeenSent, PortNew, CopyNew, ClearedNew, New
<1>2. CASE UseLength
  <2>1. PICK read \in {len, length} \cup {0} :
            /\ len' = IF read > MsgLen THEN MsgLen ELSE read
            /\ \/ step' = [step EXCEPT !.SENSOR = "idle"]
               \/ step' = [step EXCEPT !.SENSOR = "clear"] /\ read = 0
               \/ step' = [step EXCEPT !.SENSOR = "copy"]
    BY <1>2, SizesAssumption DEF UseLength, PortTypeOK
  <2>2. PortTypeOK'
    BY <1>2, <2>1, SizesAssumption DEF UseLength, PortTypeOK, SensorSteps
  <2>3. content' = content /\ at' = at /\ sent' = sent /\ seen' = seen
    BY <1>2 DEF UseLength
  <2>4. at.SENSOR = 1 /\ AtStart'
    BY <1>2, <2>3 DEF UseLength, AtStart
  <2>5. Cleared' = {} /\ Copied' = {}
    <3>1. step'.SENSOR = "clear" => len' = 0
      BY <2>1, SizesAssumption DEF PortTypeOK
    <3>2. step'.SENSOR \in {"idle", "clear", "copy"}
      BY <2>1 DEF PortTypeOK
    <3>3. QED
      BY <2>3, <2>4, <3>1, <3>2 DEF Copied, Cleared
  <2>6. QED
    BY <2>2, <2>3, <2>4, <2>5 DEF SeenSent, PortNew, CopyNew, ClearedNew, New
<1>3. CASE CopyByte
  <2>1. PortTypeOK'
    <3>1. at.SENSOR < len => at.SENSOR + 1 \in Index
      BY SizesAssumption DEF PortTypeOK, Index
    <3>2. 1 \in Index /\ content[at.SENSOR] \in PortBytes
      BY SizesAssumption DEF PortTypeOK, Index
    <3>3. at' \in [SENSOR : Index, ENODE : Index]
      BY <1>3, <3>1, <3>2 DEF CopyByte, PortTypeOK
    <3>4. QED
      BY <1>3, <3>2, <3>3 DEF CopyByte, PortTypeOK, SensorSteps
  <2>2. Cleared' = {}
    BY <1>3 DEF CopyByte, PortTypeOK, Cleared, Index
  <2>3. \A j \in Copied' : j \in Copied \/ j = at.SENSOR
    <3>1. CASE at.SENSOR < len
      <4>1. at'.SENSOR = at.SENSOR + 1 /\ at.SENSOR \in Index
        BY <1>3, <3>1 DEF CopyByte, PortTypeOK
      <4>2. Copied = 1..(at.SENSOR - 1) /\ Copied' = 1..(at'.SENSOR - 1)
        BY <1>3, <3>1 DEF CopyByte, PortTypeOK, Copied
      <4>3. QED
        BY <4>1, <4>2, SizesAssumption DEF Index
    <3>2. CASE ~(at.SENSOR < len)
      <4>1. Copied = 1..(at.SENSOR - 1) /\ Copied' = 1..len
        BY <1>3, <3>2 DEF CopyByte, PortTypeOK, Copied
      <4>2. QED
        BY <3>2, <4>1, SizesAssumption DEF PortTypeOK, Index
    <3>3. QED
      BY <3>1, <3>2
  <2>4. \A j \in Index :
            message'[j] = IF j = at.SENSOR THEN content[j] ELSE message[j]
    BY <1>3 DEF CopyByte, PortTypeOK
  <2>5. Copied' \subseteq Index
    BY <2>1, SizesAssumption DEF Copied, PortTypeOK, Index
  <2>6. CopyNew'
    BY <1>3, <2>3, <2>4, <2>5 DEF CopyNew, PortNew, New, CopyByte
  <2>7. AtStart'
    BY <1>3 DEF AtStart, CopyByte, PortTypeOK
  <2>8. QED
    BY <1>3, <2>1, <2>2, <2>6, <2>7
    DEF CopyByte, SeenSent, PortNew, ClearedNew, New
<1>4. CASE Deliver
  <2>1. Copied = 1..len /\ Cleared = Index /\ Copied' = {} /\ Cleared' = {}
    BY <1>4 DEF Deliver, PortTypeOK, Copied, Cleared
  <2>2. \A j \in Copied : message[j] \in PortBytes
    BY <2>1, SizesAssumption DEF PortTypeOK, Index
  <2>3. \A m \in From : /\ m \in Messages
                        /\ \E j \in Copied : m = message[j].msg
    BY <2>1, <2>2 DEF From, Filled, PortBytes
  <2>4. PortTypeOK'
    BY <1>4, <2>3 DEF Deliver, PortTypeOK, SensorSteps
  <2>5. SeenSent'
    BY <1>4, <2>3 DEF Deliver, SeenSent, CopyNew, New
  <2>6. PortNew'
    <3> SUFFICES ASSUME NEW i \in Index, content[i] # Zero, NEW n \in seen'
                 PROVE  content[i].msg <= sent /\ content[i].msg > n
      BY <1>4, BytesMsg DEF PortNew, New, Deliver, PortTypeOK
    <3>1. CASE n \in seen
      BY <3>1 DEF PortNew, New
    <3>2. CASE n \in From
      BY <2>1, <2>3, <3>2 DEF ClearedNew, PortNew, New
    <3>3. QED
      BY <1>4, <3>1, <3>2 DEF Deliver
  <2>7. AtStart'
    BY <1>4 DEF AtStart, Deliver, PortTypeOK
  <2>8. QED
    BY <2>1, <2>4, <2>5, <2>6, <2>7 DEF CopyNew, ClearedNew
<1>5. QED
  BY <1>1, <1>2, <1>3, <1>4

LEMMA EnodeOrder ==
    ASSUME OrderInv, ProgramStarts \/ flushInput
    PROVE  OrderInv'
<1>1. PortTypeOK'
  BY SizesAssumption
  DEF OrderInv, ProgramStarts, flushInput, PortTypeOK, EnodeSteps
<1>2. Copied' = Copied /\ Cleared' = Cleared
  BY DEF OrderInv, ProgramStarts, flushInput, Copied, Cleared, PortTypeOK
<1>3. QED
  BY <1>1, <1>2
  DEF OrderInv, ProgramStarts, flushInput, AtStart, SeenSent, PortNew,
      CopyNew, ClearedNew, New, PortTypeOK

LEMMA StepOrder == OrderInv /\ [PortNext]_portVars => OrderInv'
<1> SUFFICES ASSUME OrderInv, [PortNext]_portVars PROVE OrderInv'
  OBVIOUS
<1>1. CASE Interrupt
  BY <1>1, InterruptOrder
<1>2. CASE Sensor
  BY <1>2, SensorOrder, ClearOrder, ResetOrder DEF Sensor
<1>3. CASE Enode
  BY <1>3, EnodeOrder, ClearOrder, ResetOrder DEF Enode
<1>4. CASE UNCHANGED portVars
  BY <1>4
  DEF portVars, OrderInv, PortTypeOK, AtStart, SeenSent, PortNew, CopyNew, ClearedNew,
      New, Copied, Cleared
<1>5. QED
  BY <1>1, <1>2, <1>3, <1>4 DEF PortNext

-----------------------------------------------------------------------------
(* A paced node: the inductive invariant of PacedIsWhole, PacedIsDelivered *)

\* The first n bytes of a buffer are those of the last message, whole
Holds(store, n, size) == \A i \in 1..n : store[i] = [msg |-> sent, size |-> size]

\* A message is in the port or in the hands of the SENSOR thread
Pending == length > 0 \/ step.SENSOR # "idle"

FlushAlone == step.ENODE # "idle" => ~Pending
AllSeen == ~Pending => seen = 1..sent
LastPending == Pending => sent > 0 /\ seen = 1..(sent - 1)
PortWhole == step.SENSOR \in {"idle", "length", "copy"} => Holds(content, length, length)
LengthKept == step.SENSOR \in {"length", "copy", "clear", "reset"} => length = len /\ len > 0
CopyWhole ==
    /\ step.SENSOR = "copy" => at.SENSOR <= len /\ Holds(message, at.SENSOR - 1, len)
    /\ step.SENSOR \in {"clear", "reset", "deliver"} => Holds(message, len, len)
    /\ step.SENSOR = "deliver" => len > 0 /\ length = 0

WholeInv == /\ FlushAlone /\ AllSeen /\ LastPending
            /\ PortWhole /\ LengthKept /\ CopyWhole

PacedInv == paced => WholeInv

LEMMA PacedInit == PortInit => PacedInv
<1> SUFFICES ASSUME PortInit PROVE WholeInv
  BY DEF PacedInv
<1>1. seen = 1..sent
  BY DEF PortInit
<1>2. QED
  BY <1>1 DEF PortInit, WholeInv, FlushAlone, AllSeen, LastPending, PortWhole, LengthKept,
              CopyWhole, Pending, Holds

\* The node sends into an empty port that nobody is looking at.
LEMMA InterruptPaced == PortTypeOK /\ PacedInv /\ Interrupt => PacedInv'
<1> SUFFICES ASSUME PortTypeOK, WholeInv, paced, NEW size \in Lengths, pullI2c(size)
             PROVE  WholeInv'
  BY DEF Interrupt, PacedInv, pullI2c
<1>1. /\ size \in 1..BufLen /\ sent \in Nat /\ BufLen \in Nat
      /\ step.SENSOR = "idle" /\ step.ENODE = "idle" /\ length = 0
  BY SizesAssumption DEF pullI2c, Quiet, PortTypeOK
<1>2. seen = 1..sent
  BY <1>1 DEF WholeInv, AllSeen, Pending
<1>3. sent' = sent + 1 /\ seen' = 1..(sent' - 1) /\ sent' > 0
  BY <1>1, <1>2 DEF pullI2c
<1>4. Holds(content, length, length)'
  BY <1>1 DEF pullI2c, Holds, Index
<1>5. QED
  BY <1>1, <1>3, <1>4
  DEF pullI2c, WholeInv, FlushAlone, AllSeen, LastPending, PortWhole, LengthKept,
      CopyWhole, Pending

\* While the port is flushed there is nothing in it.
LEMMA EnodePaced == PortTypeOK /\ PacedInv /\ Enode => PacedInv'
<1> SUFFICES ASSUME PortTypeOK, WholeInv, paced, Enode
             PROVE  WholeInv'
  BY DEF PacedInv, Enode, ProgramStarts, flushInput, ClearByte, ResetLength
<1>1. ~Pending /\ length = 0 /\ step.SENSOR = "idle"
  <2>1. length \in Nat
    BY SizesAssumption DEF PortTypeOK
  <2>2. Quiet \/ step.ENODE # "idle"
    BY DEF Enode, ProgramStarts, flushInput, ClearByte, ResetLength
  <2>3. Quiet => ~Pending
    BY <2>1 DEF Quiet, Pending
  <2>4. QED
    BY <2>1, <2>2, <2>3 DEF WholeInv, FlushAlone, Pending
<1>2. /\ length' = 0 /\ step'.SENSOR = "idle" /\ seen' = seen /\ sent' = sent
  BY <1>1
  DEF Enode, ProgramStarts, flushInput, ClearByte, ResetLength, PortTypeOK
<1>3. QED
  BY <1>1, <1>2
  DEF WholeInv, FlushAlone, AllSeen, LastPending, PortWhole, LengthKept, CopyWhole,
      Pending, Holds

\* The thread copies, resets and hands on the one message there is.
LEMMA SensorPaced == PortTypeOK /\ AtStart /\ PacedInv /\ Sensor => PacedInv'
<1> SUFFICES ASSUME PortTypeOK, AtStart, WholeInv, paced, Sensor
             PROVE  WholeInv'
  BY DEF PacedInv, Sensor, ReadLength, UseLength, CopyByte, ClearByte, ResetLength,
         Deliver
<1> USE DEF WholeInv, FlushAlone, AllSeen, LastPending, LengthKept, CopyWhole, Pending
<1>1. Pending /\ step.ENODE = "idle" /\ sent > 0 /\ seen = 1..(sent - 1)
  BY DEF Sensor, ReadLength, UseLength, CopyByte, ClearByte, ResetLength, Deliver
<1>2. sent \in Nat /\ length \in Nat /\ len \in Nat /\ at.SENSOR \in Index
  BY SizesAssumption DEF PortTypeOK
<1>3. CASE ReadLength
  BY <1>1, <1>2, <1>3 DEF ReadLength, PortWhole, Holds, PortTypeOK
<1>4. CASE UseLength
  <2>1. length = len /\ len > 0 /\ len <= MsgLen /\ at.SENSOR = 1
    BY <1>4, SizesAssumption DEF UseLength, PortTypeOK, AtStart
  <2>2. len' = len /\ step' = [step EXCEPT !.SENSOR = "copy"]
    BY <1>2, <1>4, <2>1, SizesAssumption DEF UseLength
  <2>3. QED
    BY <1>1, <1>2, <1>4, <2>1, <2>2 DEF UseLength, PortWhole, Holds, PortTypeOK
<1>5. CASE CopyByte
  <2>1. /\ at.SENSOR \in 1..len /\ len = length
        /\ content[at.SENSOR] = [msg |-> sent, size |-> len]
    BY <1>2, <1>5 DEF CopyByte, PortWhole, Holds, Index
  <2>2. message' = [message EXCEPT ![at.SENSOR] = [msg |-> sent, size |-> len]]
    BY <1>5, <2>1 DEF CopyByte
  <2>3. Holds(message', at.SENSOR, len)
    BY <1>2, <1>5, <2>2 DEF CopyByte, Holds, PortTypeOK, Index
  <2>4. CASE at.SENSOR < len
    BY <1>1, <1>2, <1>5, <2>1, <2>3, <2>4 DEF CopyByte, PortWhole, Holds, PortTypeOK
  <2>5. CASE ~(at.SENSOR < len)
    <3>1. at.SENSOR = len
      BY <1>2, <2>1, <2>5
    <3>2. step'.SENSOR = "clear" /\ step'.ENODE = step.ENODE
      BY <1>5, <2>5 DEF CopyByte, PortTypeOK
    <3>3. QED
      BY <1>1, <1>2, <1>5, <2>1, <2>3, <3>1, <3>2 DEF CopyByte, PortWhole, Holds
  <2>6. QED
    BY <2>4, <2>5
<1>6. CASE ClearByte("SENSOR")
  BY <1>1, <1>2, <1>6 DEF ClearByte, PortWhole, Holds, PortTypeOK
<1>7. CASE ResetLength("SENSOR")
  BY <1>1, <1>2, <1>7 DEF ResetLength, PortWhole, Holds, PortTypeOK
<1>8. CASE Deliver
  <2>1. len > 0 /\ length = 0 /\ Holds(message, len, len)
    BY <1>8 DEF Deliver
  <2>2. From = {sent}
    <3>1. [msg |-> sent, size |-> len] # Zero
      BY <1>1, <1>2 DEF Zero
    <3>2. \A i \in 1..len : message[i] = [msg |-> sent, size |-> len]
      BY <2>1 DEF Holds
    <3>3. 1 \in 1..len
      BY <1>2, <2>1
    <3>4. Filled = {[msg |-> sent, size |-> len]}
      <4>1. \A b \in Filled : b = [msg |-> sent, size |-> len]
        BY <3>2 DEF Filled
      <4>2. [msg |-> sent, size |-> len] \in Filled
        BY <3>2, <3>3 DEF Filled
      <4>3. QED
        BY <4>1, <4>2
    <3>5. Filled \ {Zero} = {[msg |-> sent, size |-> len]}
      BY <3>1, <3>4
    <3>6. From = {b.msg : b \in {[msg |-> sent, size |-> len]}}
      BY <3>5, Zenon DEF From
    <3>7. QED
      BY <3>6
  <2>3. seen' = 1..sent
    <3>1. seen' = (1..(sent - 1)) \cup {sent}
      BY <1>1, <1>8, <2>2 DEF Deliver
    <3>2. QED
      BY <1>1, <1>2, <3>1
  <2>4. QED
    BY <1>1, <1>2, <1>8, <2>1, <2>3 DEF Deliver, PortWhole, Holds, PortTypeOK
<1>9. QED
  BY <1>3, <1>4, <1>5, <1>6, <1>7, <1>8 DEF Sensor

LEMMA StepPaced == OrderInv /\ PacedInv /\ [PortNext]_portVars => PacedInv'
<1> SUFFICES ASSUME OrderInv, PacedInv, [PortNext]_portVars PROVE PacedInv'
  OBVIOUS
<1>1. PortTypeOK /\ AtStart
  BY DEF OrderInv
<1>2. CASE PortNext
  BY <1>1, <1>2, InterruptPaced, SensorPaced, EnodePaced DEF PortNext
<1>3. CASE UNCHANGED portVars
  BY <1>3
  DEF portVars, PacedInv, WholeInv, FlushAlone, AllSeen, LastPending, PortWhole, LengthKept,
      CopyWhole, Pending, Holds
<1>4. QED
  BY <1>2, <1>3

-----------------------------------------------------------------------------
\* The port and its threads keep their types: the copy stays inside message[]
\* and inside _i2c_content, however the length changes under fill().
THEOREM PortTypeCorrect == PortSpec => []PortTypeOK
<1>1. PortSpec => []OrderInv
  BY OrderInit, StepOrder, PTL DEF PortSpec
<1>2. QED
  BY <1>1, PTL DEF OrderInv

\* No race between the interrupt, fill() and the flush makes the SENSOR thread
\* act on a message twice, or on an older one after a newer one.
THEOREM InOrder == PortSpec => []NeverBackwards
<1>1. OrderInv => NeverBackwards
  <2> SUFFICES ASSUME OrderInv, step.SENSOR = "deliver",
                      NEW i \in 1..len, message[i] # Zero, NEW n \in seen
               PROVE  message[i].msg > n
    BY DEF NeverBackwards, From, Filled
  <2>1. i \in Copied
    BY DEF Copied
  <2>2. QED
    BY <2>1 DEF OrderInv, CopyNew, New
<1>2. PortSpec => []OrderInv
  BY OrderInit, StepOrder, PTL DEF PortSpec
<1>3. QED
  BY <1>1, <1>2, PTL

LEMMA PacedInvariant == PortSpec => [](OrderInv /\ PacedInv)
<1>1. PortInit => OrderInv /\ PacedInv
  BY OrderInit, PacedInit
<1>2. OrderInv /\ PacedInv /\ [PortNext]_portVars => (OrderInv /\ PacedInv)'
  BY StepOrder, StepPaced
<1>3. QED
  BY <1>1, <1>2, PTL DEF PortSpec

\* If the node leaves the master the time to take each message, fill() returns
\* the bytes of one message and all of them.
THEOREM AlwaysWhole == PortSpec => []PacedIsWhole
<1>1. OrderInv /\ PacedInv => PacedIsWhole
  <2> SUFFICES ASSUME OrderInv, WholeInv, step.SENSOR = "deliver"
               PROVE  \E m \in Messages : \A i \in 1..len :
                          message[i] = [msg |-> m, size |-> len]
    BY DEF PacedInv, PacedIsWhole, DeliveredWhole
  <2>1. sent \in Messages
    BY DEF WholeInv, LastPending, Pending, OrderInv, PortTypeOK, Messages
  <2>2. QED
    BY <2>1 DEF WholeInv, CopyWhole, Holds
<1>2. QED
  BY <1>1, PacedInvariant, PTL

\* And of such a node no message is lost: when the port is quiet, all that was
\* sent has been acted on.
THEOREM AlwaysDelivered == PortSpec => []PacedIsDelivered
<1>1. OrderInv /\ PacedInv => PacedIsDelivered
  BY DEF PacedInv, PacedIsDelivered, WholeInv, AllSeen, Pending, Quiet, OrderInv, PortTypeOK
<1>2. QED
  BY <1>1, PacedInvariant, PTL

(***************************************************************************)
(* StreamProgrammer                                                        *)
(***************************************************************************)

-----------------------------------------------------------------------------
(* What the line does to a sequence, index by index                         *)

LEMMA TailIndex ==
    ASSUME NEW S, NEW s \in Seq(S), s # <<>>
    PROVE  /\ Tail(s) \in Seq(S) /\ Len(Tail(s)) = Len(s) - 1
           /\ 1 \in DOMAIN s /\ Head(s) = s[1]
           /\ \A i \in DOMAIN Tail(s) : i \in Nat /\ i + 1 \in DOMAIN s /\ Tail(s)[i] = s[i + 1]
<1>1. /\ Len(s) \in Nat /\ DOMAIN s = 1..Len(s) /\ Len(s) # 0
      /\ Tail(s) \in Seq(S) /\ Len(Tail(s)) = Len(s) - 1 /\ DOMAIN Tail(s) = 1..(Len(s) - 1)
  BY HeadTailProperties, LenProperties, EmptySeq
<1>2. Head(s) = s[1]
  OBVIOUS
<1>3. QED
  BY <1>1, <1>2, HeadTailProperties

LEMMA Glued == ASSUME NEW S, NEW a \in Seq(S), NEW b \in Seq(S), NEW m \in Nat, Len(a) = m
      PROVE /\ a \o b \in Seq(S) /\ Len(a \o b) = m + Len(b)
            /\ \A j \in 1..m : (a \o b)[j] = a[j]
            /\ \A j \in 1..Len(b) : (a \o b)[m + j] = b[j]
OBVIOUS
LEMMA RemovedIndex ==
    ASSUME NEW S, NEW s \in Seq(S), NEW k \in 1..Len(s)
    PROVE  /\ RemoveAt(s, k) \in Seq(S) /\ Len(RemoveAt(s, k)) = Len(s) - 1
           /\ \A j \in 1..(Len(s) - 1) : RemoveAt(s, k)[j] = IF j < k THEN s[j] ELSE s[j + 1]
<1> DEFINE a == SubSeq(s, 1, k - 1)
           b == SubSeq(s, k + 1, Len(s))
<1>1. /\ a \in Seq(S) /\ Len(a) = k - 1 /\ \A i \in 1..(k - 1) : a[i] = s[i]
  OBVIOUS
<1>2. /\ b \in Seq(S) /\ Len(b) = Len(s) - k /\ \A i \in 1..(Len(s) - k) : b[i] = s[k + i]
  OBVIOUS
<1>3. RemoveAt(s, k) = a \o b
  BY DEF RemoveAt
<1>4. k \in Nat /\ Len(s) \in Nat /\ k <= Len(s) /\ k >= 1 /\ k - 1 \in Nat
  OBVIOUS
<1> HIDE DEF a, b
<1>5. /\ a \o b \in Seq(S) /\ Len(a \o b) = k - 1 + Len(b)
      /\ \A j \in 1..(k - 1) : (a \o b)[j] = a[j]
      /\ \A j \in 1..Len(b) : (a \o b)[k - 1 + j] = b[j]
  <2>1. a \in Seq(S) /\ b \in Seq(S) /\ k - 1 \in Nat /\ Len(a) = k - 1
    BY <1>1, <1>2, <1>4
  <2> DEFINE m == k - 1
  <2>2. a \in Seq(S) /\ b \in Seq(S) /\ m \in Nat /\ Len(a) = m
    BY <2>1
  <2> HIDE DEF m
  <2>3. /\ a \o b \in Seq(S) /\ Len(a \o b) = m + Len(b)
        /\ \A j \in 1..m : (a \o b)[j] = a[j]
        /\ \A j \in 1..Len(b) : (a \o b)[m + j] = b[j]
    BY <2>2, Glued
  <2>4. QED
    BY <2>3 DEF m
<1>6. ASSUME NEW j \in 1..(Len(s) - 1)
      PROVE  (a \o b)[j] = IF j < k THEN s[j] ELSE s[j + 1]
  <2>2. CASE j < k
    BY <1>1, <1>4, <1>5, <2>2
  <2>3. CASE j >= k
    <3> DEFINE i == j - (k - 1)
    <3>1. i \in 1..(Len(s) - k) /\ k + i = j + 1 /\ k - 1 + i = j
      BY <1>4, <2>3
    <3> HIDE DEF i
    <3>2. b[i] = s[k + i]
      BY <1>2, <3>1
    <3>3. (a \o b)[k - 1 + i] = b[i]
      BY <1>2, <1>5, <3>1
    <3>4. (a \o b)[j] = s[j + 1]
      BY <3>1, <3>2, <3>3, Zenon
    <3>5. QED
      BY <1>4, <2>3, <3>4
  <2>4. j < k \/ j >= k
    BY <1>4
  <2>5. QED
    BY <2>2, <2>3, <2>4, Zenon
<1>7. Len(a \o b) = Len(s) - 1
  <2>1. Len(b) = Len(s) - k /\ Len(a \o b) = k - 1 + Len(b)
    BY <1>2, <1>5
  <2>2. k \in Nat /\ Len(s) \in Nat
    BY <1>4
  <2> HIDE DEF b
  <2>3. QED
    BY ONLY <2>1, <2>2
<1>8. QED
  BY <1>3, <1>5, <1>6, <1>7, Zenon

LEMMA RemoveAtIndex ==
    ASSUME NEW S, NEW s \in Seq(S), NEW k \in DOMAIN s
    PROVE  /\ RemoveAt(s, k) \in Seq(S)
           /\ \A j \in DOMAIN RemoveAt(s, k) :
                  /\ j \in Nat /\ j \in DOMAIN s /\ j + 1 \in DOMAIN s
                  /\ RemoveAt(s, k)[j] = IF j < k THEN s[j] ELSE s[j + 1]
<1>1. k \in 1..Len(s) /\ DOMAIN s = 1..Len(s) /\ Len(s) \in Nat
  BY LenProperties
<1>2. /\ RemoveAt(s, k) \in Seq(S) /\ Len(RemoveAt(s, k)) = Len(s) - 1
      /\ \A j \in 1..(Len(s) - 1) : RemoveAt(s, k)[j] = IF j < k THEN s[j] ELSE s[j + 1]
  BY <1>1, RemovedIndex
<1>3. DOMAIN RemoveAt(s, k) = 1..(Len(s) - 1)
  BY <1>2, LenProperties
<1>4. \A j \in 1..(Len(s) - 1) : j \in Nat /\ j \in DOMAIN s /\ j + 1 \in DOMAIN s
  BY <1>1
<1>5. QED
  BY <1>2, <1>3, <1>4, Zenon

LEMMA AppendIndex ==
    ASSUME NEW S, NEW s \in Seq(S), NEW e \in S
    PROVE  /\ Append(s, e) \in Seq(S) /\ Len(Append(s, e)) = Len(s) + 1 /\ Len(s) \in Nat
           /\ \A i \in DOMAIN Append(s, e) :
                  \/ i \in DOMAIN s /\ i <= Len(s) /\ Append(s, e)[i] = s[i]
                  \/ i = Len(s) + 1 /\ Append(s, e)[i] = e
           /\ \A i \in DOMAIN s : i \in Nat /\ i <= Len(s)
BY AppendProperties, LenProperties

LEMMA ConcatIndex ==
    ASSUME NEW S, NEW s \in Seq(S), NEW t \in Seq(S)
    PROVE  /\ s \o t \in Seq(S) /\ Len(s) \in Nat
           /\ \A i \in DOMAIN (s \o t) :
                  \/ i \in DOMAIN s /\ i <= Len(s) /\ (s \o t)[i] = s[i]
                  \/ i - Len(s) \in DOMAIN t /\ (s \o t)[i] = t[i - Len(s)]
           /\ \A i \in DOMAIN s : i \in Nat /\ i <= Len(s)
BY ConcatProperties, LenProperties

-----------------------------------------------------------------------------
(* The inductive invariant.  Commands and answers carry no number, so until *)
(* a page is read back an acknowledgement may be that of an older command.  *)
(* A page that was read back is the answer to the last command that was     *)
(* sent: behind it the line is empty, and from there on every answer is the *)
(* answer to the command before it.                                         *)

IsPage(b) == b.kind = "page"
NoPage == \A i \in DOMAIN fromNode : ~IsPage(fromNode[i])
LineHas(cmds) == \A i \in DOMAIN toNode : toNode[i].cmd \in cmds
NothingComes == toNode = <<>> /\ \A i \in DOMAIN fromNode : fromNode[i] = PRINTED

\* The delay is for another try
TriesAreLeft == pc = "delay" => tries # MaxTries

\* Only a node of the right kind sends the right signature
Recognised ==
    /\ \A i \in DOMAIN fromNode : fromNode[i] = SIGNATURE(TRUE) => node.right
    /\ stage \in {"sync2", "load", "prog", "verifyLoad", "read", "leave"} => node.right

\* No answer to a read is on its way before the first read of this try
NoEarlyRead ==
    /\ stage = "sync" \/ (stage = "init" /\ pc = "answer") => LineHas({"init", "sync"})
    /\ \/ stage \in {"params", "enter", "sign", "sync2", "load", "prog", "verifyLoad"}
       \/ stage = "read" /\ pc = "send"
       => NoPage /\ LineHas(Stages \ {"read"})

\* The answer to a read comes last and is what the flash holds
ReadComesLast ==
    stage = "read" /\ pc = "answer" =>
        /\ \A i \in DOMAIN toNode : toNode[i].cmd = "read" => i = Len(toNode)
        /\ \A i \in DOMAIN fromNode : IsPage(fromNode[i]) =>
               /\ toNode = <<>>
               /\ fromNode[i].data = node.flash[node.addr]
               /\ \A j \in DOMAIN fromNode : j > i =>
                      fromNode[j] = PRINTED \/ (fromNode[j] = OK /\ j = i + 1)

\* Pages 2 to p - 1 are right, and some page holds what page 1 should
ReadBack(p) ==
    /\ \E a \in Pages : node.flash[a] = 1
    /\ \A q \in Pages : 1 < q /\ q < p => node.flash[q] = q

\* The last command is the load of the page, and its answer comes last
LoadComesLast ==
    /\ \A i \in DOMAIN toNode : toNode[i].cmd = "verifyLoad" /\ toNode[i].page = page
    /\ Len(toNode) <= 1
    /\ \A i \in DOMAIN fromNode :
           \/ fromNode[i] = PRINTED
           \/ /\ toNode = <<>> /\ node.addr = page
              /\ fromNode[i] = OK => \A j \in DOMAIN fromNode : j > i => fromNode[j] = PRINTED

\* From the second page on, an acknowledgement is that of the last command
InStep ==
    page > 1 /\ stage \in {"verifyLoad", "read"} /\ pc \in {"send", "answer"} =>
        /\ ReadBack(page)
        /\ pc = "send" => NothingComes
        /\ pc = "answer" /\ stage = "verifyLoad" => LoadComesLast
        /\ stage = "read" => node.addr = page /\ LineHas({"read"})

\* The whole program was read back and nothing on the line can change it
Uploaded == node.flash = Program /\ LineHas({"leave"})
WhenUploaded ==
    /\ stage = "leave" => Uploaded
    /\ outcome = "begun" => pc = "done" /\ Uploaded /\ node.right
    /\ ret = "BUTFINE" /\ pc \in {"delay", "done"} => Uploaded

UploadInv ==
    /\ TypeOK /\ TriesAreLeft /\ Recognised
    /\ NoEarlyRead /\ ReadComesLast /\ InStep /\ WhenUploaded

-----------------------------------------------------------------------------
(* Type correctness                                                         *)

LEMMA Answers ==
    ASSUME fromNode \in Seq(Bytes)
    PROVE  /\ Rest \in Seq(Bytes)
           /\ Received \in Nat /\ Received <= Expected /\ Received <= Len(fromNode)
           /\ Len(Answer) = Received
           /\ \A i \in 1..Received : i \in DOMAIN fromNode /\ Answer[i] = fromNode[i]
           /\ \A i \in DOMAIN Rest : /\ i \in Nat /\ Received + i \in DOMAIN fromNode
                                     /\ Rest[i] = fromNode[Received + i]
<1>1. /\ Len(fromNode) \in Nat /\ DOMAIN fromNode = 1..Len(fromNode)
      /\ \A i \in 1..Len(fromNode) : fromNode[i] \in Bytes
  BY LenProperties, ElementOfSeq
<1>2. Received \in 0..Len(fromNode) /\ Received <= Expected
  BY <1>1 DEF Received, Expected
<1>3. Len(Answer) = Received /\ \A i \in 1..Received : Answer[i] = fromNode[i]
  BY <1>1, <1>2, SubSeqProperties DEF Answer
<1>4. /\ Rest \in Seq(Bytes) /\ Len(Rest) = Len(fromNode) - Received
      /\ \A i \in 1..(Len(fromNode) - Received) : Rest[i] = fromNode[Received + i]
  <2>1. \A i \in (Received + 1)..Len(fromNode) : fromNode[i] \in Bytes
    BY <1>1, <1>2
  <2>2. QED
    <3>1. Received + 1 \in Int /\ Len(fromNode) \in Int
      BY <1>1, <1>2
    <3>2. /\ Rest \in Seq(Bytes)
          /\ Len(Rest) = IF Received + 1 <= Len(fromNode)
                           THEN Len(fromNode) - (Received + 1) + 1 ELSE 0
          /\ \A i \in 1..(Len(fromNode) - (Received + 1) + 1) :
                 Rest[i] = fromNode[Received + 1 + i - 1]
      BY <2>1, <3>1, SubSeqProperties DEF Rest
    <3>3. Len(fromNode) - (Received + 1) + 1 = Len(fromNode) - Received
      BY <1>1, <1>2
    <3>4. Len(Rest) = Len(fromNode) - Received
      <4>1. CASE Received + 1 <= Len(fromNode)
        BY <3>2, <3>3, <4>1
      <4>2. CASE ~(Received + 1 <= Len(fromNode))
        <5>1. Received \in Nat /\ Len(fromNode) \in Nat /\ Received <= Len(fromNode)
          BY <1>1, <1>2
        <5>2. Received = Len(fromNode)
          BY <4>2, <5>1
        <5>3. Len(Rest) = 0 /\ Len(fromNode) - Received = 0
          BY <3>2, <4>2, <5>1, <5>2
        <5>4. QED
          BY <5>3
      <4>3. QED
        BY <4>1, <4>2
    <3>5. \A i \in 1..(Len(fromNode) - Received) : Received + 1 + i - 1 = Received + i
      BY <1>1, <1>2
    <3>6. QED
      BY <3>2, <3>3, <3>4, <3>5
<1>5. QED
  BY <1>1, <1>2, <1>3, <1>4, LenProperties

LEMMA BytesTyped ==
    /\ INSYNC \in Bytes /\ OK \in Bytes /\ PRINTED \in Bytes
    /\ \A right \in BOOLEAN : SIGNATURE(right) \in Bytes
    /\ \A data \in Pages \cup {Wrong} : Byte("page", data) \in Bytes
    /\ 1 \in Pages /\ Wrong \notin Pages /\ Pages \subseteq Nat
BY BoundsAssumption
DEF INSYNC, OK, PRINTED, SIGNATURE, Bytes, Byte, Pages, Wrong, BoundsAssumption

LEMMA AnswerTyped ==
    ASSUME node \in Nodes, NEW c \in Commands
    PROVE  AnswerTo(c) \in Seq(Bytes) /\ Execute(c) \in Nodes
<1>1. /\ c.page \in Pages /\ c.data \in Pages \cup {Wrong}
      /\ node.addr \in Pages /\ node.right \in BOOLEAN
      /\ node.flash[node.addr] \in Pages \cup {Wrong}
  BY DEF Commands, Nodes
<1>2. AnswerTo(c) \in Seq(Bytes)
  BY <1>1, BytesTyped DEF AnswerTo
<1>3. Execute(c) \in Nodes
  BY <1>1 DEF Execute, Nodes
<1>4. QED
  BY <1>2, <1>3

LEMMA EnvironmentType == TypeOK /\ (Node \/ Line) => TypeOK'
<1> SUFFICES ASSUME TypeOK, Node \/ Line PROVE TypeOK'
  OBVIOUS
<1>1. fromNode \in Seq(Bytes) /\ toNode \in Seq(Commands)
  BY DEF TypeOK
<1>2. Fault => faults' \in 0..MaxFaults
  BY BoundsAssumption DEF TypeOK, Fault, BoundsAssumption
<1>3. CASE NodeTakes
  <2>1. Head(toNode) \in Commands /\ Tail(toNode) \in Seq(Commands)
    BY <1>1, <1>3, HeadTailProperties DEF NodeTakes
  <2>2. /\ AnswerTo(Head(toNode)) \in Seq(Bytes) /\ Execute(Head(toNode)) \in Nodes
        /\ fromNode \o AnswerTo(Head(toNode)) \in Seq(Bytes)
    BY <1>1, <2>1, AnswerTyped, ConcatProperties DEF TypeOK
  <2>3. QED
    BY <1>3, <2>1, <2>2 DEF NodeTakes, TypeOK
<1>4. CASE NodePrints
  <2>1. Append(fromNode, PRINTED) \in Seq(Bytes)
    BY <1>1, BytesTyped, AppendProperties
  <2>2. QED
    BY <1>4, <2>1 DEF NodePrints, TypeOK
<1>5. CASE NodeLeavesBoot
  BY <1>5 DEF NodeLeavesBoot, TypeOK, Nodes
<1>6. CASE LineLosesCommand
  <2>1. Tail(toNode) \in Seq(Commands)
    BY <1>1, <1>6, HeadTailProperties DEF LineLosesCommand
  <2>2. QED
    BY <1>2, <1>6, <2>1 DEF LineLosesCommand, TypeOK
<1>7. CASE LineLosesByte
  <2>1. fromNode' \in Seq(Bytes)
    BY <1>1, <1>7, RemoveAtIndex DEF LineLosesByte
  <2>2. QED
    BY <1>2, <1>7, <2>1 DEF LineLosesByte, TypeOK
<1>8. CASE LineDamagesPage
  <2>1. PICK i \in DOMAIN toNode : toNode' = [toNode EXCEPT ![i].data = Wrong]
    BY <1>8 DEF LineDamagesPage
  <2>2. i \in 1..Len(toNode) /\ toNode[i] \in Commands
    BY <1>1, LenProperties, ElementOfSeq
  <2>3. [toNode[i] EXCEPT !.data = Wrong] \in Commands
    BY <2>2 DEF Commands
  <2>4. toNode' \in Seq(Commands)
    BY <1>1, <2>1, <2>2, <2>3, ExceptSeq
  <2>5. QED
    BY <1>2, <1>8, <2>4 DEF LineDamagesPage, TypeOK
<1>9. QED
  BY <1>3, <1>4, <1>5, <1>6, <1>7, <1>8 DEF Node, Line

LEMMA CommandTyped ==
    ASSUME TypeOK, NEW data \in Pages \cup {Wrong}
    PROVE  /\ Command(data) \in Commands
           /\ Append(toNode, Command(data)) \in Seq(Commands)
           /\ <<Command(data)>> \in Seq(Commands)
<1>1. Command(data) \in Commands
  BY DEF Command, Commands, TypeOK
<1>2. QED
  BY <1>1, AppendProperties DEF TypeOK

\* What programNode may do to the locals when an answer, or none, has come
LEMMA StepTyped ==
    ASSUME TypeOK, fill, toNode' = toNode, node' = node, fromNode' \in Seq(Bytes),
           \/ \E next \in Stages, p \in Pages : Continue(next, p)
           \/ \E result \in Results : Return(result)
    PROVE  TypeOK'
<1>1. faults' \in 0..MaxFaults
  BY BoundsAssumption DEF TypeOK, fill, Fault, BoundsAssumption
<1>2. CASE \E next \in Stages, p \in Pages : Continue(next, p)
  BY <1>1, <1>2 DEF TypeOK, Continue
<1>3. CASE \E result \in Results : Return(result)
  BY <1>1, <1>3 DEF TypeOK, Return
<1>4. QED
  BY <1>2, <1>3

LEMMA AcknowledgedTyped ==
    ASSUME TypeOK, stage \notin {"init", "sync", "sign", "sync2"}, Acknowledged
    PROVE  \/ \E next \in Stages, p \in Pages : Continue(next, p)
           \/ \E result \in Results : Return(result)
<1>1. page \in Pages /\ 1 \in Pages /\ (page < NumPages => page + 1 \in Pages)
  BY BytesTyped, BoundsAssumption DEF TypeOK, Pages, BoundsAssumption
<1>2. stage \in {"params", "enter", "load", "prog", "verifyLoad", "read", "leave"}
  BY DEF TypeOK, Stages
<1>3. CASE stage \in {"params", "enter", "load", "verifyLoad", "leave"}
  BY <1>1, <1>3 DEF Acknowledged, Stages, Results
<1>4. CASE stage = "prog"
  BY <1>1, <1>4 DEF Acknowledged, Stages
<1>5. CASE stage = "read"
  BY <1>1, <1>5 DEF Acknowledged, Stages
<1>6. QED
  BY <1>2, <1>3, <1>4, <1>5

LEMMA FailureTyped ==
    ASSUME TypeOK, stage \notin {"init", "sync", "sign", "sync2"}
    PROVE  FailureAt(stage) \in Results
BY DEF TypeOK, FailureAt, Stages, Results

LEMMA ProgramNodeType == TypeOK /\ TriesAreLeft /\ (ProgramNode \/ Retry) => TypeOK'
<1> SUFFICES ASSUME TypeOK, TriesAreLeft, ProgramNode \/ Retry PROVE TypeOK'
  OBVIOUS
<1>1. Rest \in Seq(Bytes) /\ <<>> \in Seq(Bytes) /\ 1 \in Pages
  BY Answers, BytesTyped DEF TypeOK
<1>2. CASE ResetNode
  BY <1>2, CommandTyped DEF ResetNode, TypeOK, Nodes
<1>3. CASE SendCommand
  <2>1. PICK data \in Pages \cup {Wrong} : Send(Command(data))
    BY <1>3 DEF SendCommand, TypeOK, Program
  <2>2. QED
    BY <1>3, <2>1, CommandTyped DEF SendCommand, Send, TypeOK
<1>4. CASE InitAnswered
  BY <1>1, <1>4, StepTyped DEF InitAnswered, Stages
<1>5. CASE Synced
  BY <1>1, <1>5, StepTyped DEF Synced, Stages, Results
<1>6. CASE SyncAgain \/ GiveUpSync
  BY <1>1, <1>6, StepTyped DEF SyncAgain, GiveUpSync, NoSync, Stages, Results
<1>7. CASE Signed
  BY <1>1, <1>7, StepTyped DEF Signed, Stages, Results
<1>8. CASE Answered
  BY <1>1, <1>8, StepTyped, AcknowledgedTyped, FailureTyped DEF Answered
<1>9. CASE Retry
  BY <1>1, <1>9, BoundsAssumption DEF Retry, TypeOK, TriesAreLeft, Stages, BoundsAssumption
<1>10. QED
  BY <1>2, <1>3, <1>4, <1>5, <1>6, <1>7, <1>8, <1>9 DEF ProgramNode

-----------------------------------------------------------------------------
(* What the node and the line may do                                        *)

\* The locals of programNode and of the ENODE thread
LocalsKept == UNCHANGED <<pc, stage, page, tries, ret, outcome>>

LEMMA KindsDiffer ==
    /\ PRINTED # SIGNATURE(TRUE) /\ INSYNC # SIGNATURE(TRUE) /\ OK # SIGNATURE(TRUE)
    /\ SIGNATURE(FALSE) # SIGNATURE(TRUE) /\ PRINTED # INSYNC /\ PRINTED # OK /\ INSYNC # OK
    /\ ~IsPage(PRINTED) /\ ~IsPage(INSYNC) /\ ~IsPage(OK)
    /\ \A right \in BOOLEAN : ~IsPage(SIGNATURE(right)) /\ SIGNATURE(right) # OK
    /\ \A data : /\ IsPage(Byte("page", data)) /\ Byte("page", data).data = data
                  /\ Byte("page", data) # SIGNATURE(TRUE)
BY DEF PRINTED, SIGNATURE, INSYNC, OK, Byte, IsPage, Wrong

LEMMA PrintsKeep == UploadInv /\ NodePrints => UploadInv'
<1> SUFFICES ASSUME UploadInv, NodePrints PROVE UploadInv'
  OBVIOUS
<1> USE DEF UploadInv
<1>1. TypeOK' /\ fromNode \in Seq(Bytes)
  BY EnvironmentType DEF Node, TypeOK
<1>2. UNCHANGED <<pc, stage, page, tries, ret, outcome, toNode, node>>
  BY DEF NodePrints
<1>3. /\ \A i \in DOMAIN fromNode' : \/ i \in DOMAIN fromNode /\ fromNode'[i] = fromNode[i]
                                     \/ i = Len(fromNode) + 1 /\ fromNode'[i] = PRINTED
      /\ \A i \in DOMAIN fromNode : i \in Nat /\ i <= Len(fromNode)
      /\ Len(fromNode) \in Nat
  BY <1>1, BytesTyped, AppendIndex DEF NodePrints
<1>4. TriesAreLeft' /\ Recognised'
  BY <1>2, <1>3, KindsDiffer DEF TriesAreLeft, Recognised
<1>5. NoPage => NoPage'
  BY <1>3, KindsDiffer DEF NoPage
<1>6. NothingComes => NothingComes'
  BY <1>2, <1>3 DEF NothingComes
<1>7. NoEarlyRead'
  BY <1>2, <1>5 DEF NoEarlyRead, LineHas
<1>8. ReadComesLast'
  BY <1>2, <1>3, KindsDiffer DEF ReadComesLast
<1>9. LoadComesLast => LoadComesLast'
  BY <1>2, <1>3, KindsDiffer DEF LoadComesLast
<1>10. InStep'
  BY <1>2, <1>6, <1>9 DEF InStep, ReadBack, LineHas
<1>11. WhenUploaded'
  BY <1>2 DEF WhenUploaded, Uploaded, LineHas
<1>12. QED
  BY <1>1, <1>4, <1>7, <1>8, <1>10, <1>11

LEMMA LeavingKeeps == UploadInv /\ NodeLeavesBoot => UploadInv'
<1> SUFFICES ASSUME UploadInv, NodeLeavesBoot PROVE UploadInv'
  OBVIOUS
<1> USE DEF UploadInv
<1>1. TypeOK'
  BY EnvironmentType DEF Node
<1>2. UNCHANGED <<pc, stage, page, tries, ret, outcome, toNode, fromNode>>
  BY DEF NodeLeavesBoot
<1>3. node'.flash = node.flash /\ node'.addr = node.addr /\ node'.right = node.right
  BY DEF NodeLeavesBoot, TypeOK, Nodes
<1>4. TriesAreLeft' /\ Recognised' /\ NoEarlyRead' /\ ReadComesLast'
  BY <1>2, <1>3 DEF TriesAreLeft, Recognised, NoEarlyRead, NoPage, LineHas, ReadComesLast
<1>5. InStep' /\ WhenUploaded'
  BY <1>2, <1>3
  DEF InStep, ReadBack, NothingComes, LoadComesLast, LineHas, WhenUploaded, Uploaded
<1>6. QED
  BY <1>1, <1>4, <1>5

\* The command at the head goes and nothing comes for it
LEMMA CommandGoneKeeps ==
    ASSUME UploadInv, TypeOK', LocalsKept, UNCHANGED <<fromNode, node>>,
           toNode # <<>>, toNode' = Tail(toNode)
    PROVE  UploadInv'
<1> USE DEF UploadInv, LocalsKept
<1>1. /\ \A i \in DOMAIN toNode' : i \in Nat /\ i + 1 \in DOMAIN toNode /\ toNode'[i] = toNode[i + 1]
      /\ Len(toNode') = Len(toNode) - 1 /\ Len(toNode) \in Nat
  BY TailIndex, LenProperties DEF TypeOK
<1>2. \A cmds : LineHas(cmds) => LineHas(cmds)'
  BY <1>1 DEF LineHas
<1>3. TriesAreLeft' /\ Recognised' /\ NoEarlyRead'
  BY <1>2 DEF TriesAreLeft, Recognised, NoEarlyRead, NoPage
<1>4. ReadComesLast'
  BY <1>1 DEF ReadComesLast
<1>5. LoadComesLast => LoadComesLast'
  BY <1>1 DEF LoadComesLast
<1>6. InStep'
  BY <1>2, <1>5 DEF InStep, ReadBack, NothingComes
<1>7. WhenUploaded'
  BY <1>2 DEF WhenUploaded, Uploaded
<1>8. QED
  BY <1>3, <1>4, <1>6, <1>7

LEMMA CommandLostKeeps == UploadInv /\ LineLosesCommand => UploadInv'
<1> SUFFICES ASSUME UploadInv, LineLosesCommand PROVE UploadInv'
  OBVIOUS
<1>1. TypeOK'
  BY EnvironmentType DEF Line, UploadInv
<1>2. QED
  BY <1>1, CommandGoneKeeps DEF LineLosesCommand, LocalsKept

LEMMA DamageKeeps == UploadInv /\ LineDamagesPage => UploadInv'
<1> SUFFICES ASSUME UploadInv, LineDamagesPage PROVE UploadInv'
  OBVIOUS
<1> USE DEF UploadInv
<1>1. TypeOK' /\ toNode \in Seq(Commands)
  BY EnvironmentType DEF Line, TypeOK
<1>2. UNCHANGED <<pc, stage, page, tries, ret, outcome, fromNode, node>>
  BY DEF LineDamagesPage
<1>3. PICK k \in DOMAIN toNode : toNode' = [toNode EXCEPT ![k].data = Wrong]
  BY DEF LineDamagesPage
<1>4. k \in 1..Len(toNode) /\ toNode[k] \in Commands
  BY <1>1, LenProperties, ElementOfSeq
<1>5. [toNode[k] EXCEPT !.data = Wrong] \in Commands
  BY <1>4 DEF Commands
<1>6. Len(toNode') = Len(toNode) /\ DOMAIN toNode' = DOMAIN toNode
  BY <1>1, <1>3, <1>4, <1>5, ExceptSeq
<1>7. \A i \in DOMAIN toNode : toNode'[i].cmd = toNode[i].cmd /\ toNode'[i].page = toNode[i].page
  BY <1>3, <1>4 DEF Commands
<1>8. toNode' = <<>> <=> toNode = <<>>
  BY <1>1, <1>6, EmptySeq DEF TypeOK
<1>9. \A cmds : LineHas(cmds) => LineHas(cmds)'
  BY <1>6, <1>7 DEF LineHas
<1>10. TriesAreLeft' /\ Recognised' /\ NoEarlyRead'
  BY <1>2, <1>9 DEF TriesAreLeft, Recognised, NoEarlyRead, NoPage
<1>11. ReadComesLast'
  BY <1>2, <1>6, <1>7, <1>8 DEF ReadComesLast
<1>12. LoadComesLast => LoadComesLast'
  BY <1>2, <1>6, <1>7, <1>8 DEF LoadComesLast
<1>13. NothingComes => NothingComes'
  BY <1>2, <1>8 DEF NothingComes
<1>14. InStep'
  BY <1>2, <1>9, <1>12, <1>13 DEF InStep, ReadBack
<1>15. WhenUploaded'
  BY <1>2, <1>9 DEF WhenUploaded, Uploaded
<1>16. QED
  BY <1>1, <1>10, <1>11, <1>14, <1>15

LEMMA ByteLostKeeps == UploadInv /\ LineLosesByte => UploadInv'
<1> SUFFICES ASSUME UploadInv, LineLosesByte PROVE UploadInv'
  OBVIOUS
<1> USE DEF UploadInv
<1>1. TypeOK' /\ fromNode \in Seq(Bytes)
  BY EnvironmentType DEF Line, TypeOK
<1>2. UNCHANGED <<pc, stage, page, tries, ret, outcome, toNode, node>>
  BY DEF LineLosesByte
<1>3. PICK k \in DOMAIN fromNode : fromNode' = RemoveAt(fromNode, k)
  BY DEF LineLosesByte
<1> DEFINE old(i) == IF i < k THEN i ELSE i + 1
<1>4. \A i \in DOMAIN fromNode' : /\ i \in Nat /\ old(i) \in DOMAIN fromNode
                                  /\ fromNode'[i] = fromNode[old(i)]
  BY <1>1, <1>3, RemoveAtIndex
<1>5. k \in Nat
  BY <1>1, LenProperties
<1>6. \A i, j \in DOMAIN fromNode' : /\ j > i => old(j) > old(i)
                                     /\ j > i /\ old(j) = old(i) + 1 => j = i + 1
  BY <1>4, <1>5
<1> HIDE DEF old
<1>7. TriesAreLeft' /\ Recognised'
  BY <1>2, <1>4 DEF TriesAreLeft, Recognised
<1>8. (NoPage => NoPage') /\ (NothingComes => NothingComes')
  BY <1>2, <1>4 DEF NoPage, NothingComes
<1>9. NoEarlyRead'
  BY <1>2, <1>8 DEF NoEarlyRead, LineHas
<1>10. ReadComesLast'
  BY <1>2, <1>4, <1>6 DEF ReadComesLast
<1>11. LoadComesLast => LoadComesLast'
  BY <1>2, <1>4, <1>6 DEF LoadComesLast
<1>12. InStep'
  BY <1>2, <1>8, <1>11 DEF InStep, ReadBack, LineHas
<1>13. WhenUploaded'
  BY <1>2 DEF WhenUploaded, Uploaded, LineHas
<1>14. QED
  BY <1>1, <1>7, <1>9, <1>10, <1>12, <1>13

\* What a command makes of the node and what it answers
LEMMA ExecuteFrame ==
    ASSUME node \in Nodes, NEW c \in Commands
    PROVE  /\ Execute(c).right = node.right
           /\ c.cmd # "prog" => Execute(c).flash = node.flash
           /\ c.cmd \notin {"load", "verifyLoad"} => Execute(c).addr = node.addr
           /\ c.cmd = "verifyLoad" => Execute(c).addr = c.page
BY DEF Execute, Nodes

LEMMA AnswerBytes ==
    ASSUME node \in Nodes, NEW c \in Commands
    PROVE  /\ \A i \in DOMAIN AnswerTo(c) : i \in 1..3
           /\ \A i \in DOMAIN AnswerTo(c) : AnswerTo(c)[i] = SIGNATURE(TRUE) => node.right
           /\ c.cmd # "read" => \A i \in DOMAIN AnswerTo(c) : ~IsPage(AnswerTo(c)[i])
           /\ c.cmd = "read" =>
                  \A i \in DOMAIN AnswerTo(c) :
                      /\ IsPage(AnswerTo(c)[i]) =>
                             i = 2 /\ AnswerTo(c)[i].data = node.flash[node.addr]
                      /\ i > 2 => AnswerTo(c)[i] = OK /\ i = 3
           /\ c.cmd = "verifyLoad" =>
                  \A i \in DOMAIN AnswerTo(c) : AnswerTo(c)[i] = OK => i = 2
           /\ c.cmd = "verifyLoad" => \A i \in DOMAIN AnswerTo(c) : i <= 2
<1>1. node.right \in BOOLEAN
  BY DEF Nodes
<1>2. CASE c.cmd = "sign"
  <2>1. AnswerTo(c) = <<INSYNC, SIGNATURE(node.right), OK>>
    BY <1>2 DEF AnswerTo
  <2>2. SIGNATURE(node.right) = SIGNATURE(TRUE) => node.right
    BY <1>1, KindsDiffer
  <2>3. /\ \A i \in DOMAIN AnswerTo(c) : i = 1 \/ i = 2 \/ i = 3
        /\ AnswerTo(c)[1] = INSYNC /\ AnswerTo(c)[2] = SIGNATURE(node.right) /\ AnswerTo(c)[3] = OK
    BY <2>1
  <2>4. \A i \in DOMAIN AnswerTo(c) : i \in 1..3
    BY <2>3
  <2>5. \A i \in DOMAIN AnswerTo(c) : ~IsPage(AnswerTo(c)[i])
    BY <1>1, <2>3, KindsDiffer
  <2>6. \A i \in DOMAIN AnswerTo(c) : AnswerTo(c)[i] = SIGNATURE(TRUE) => node.right
    BY <2>2, <2>3, KindsDiffer
  <2>7. QED
    BY <1>2, <2>4, <2>5, <2>6
<1>3. CASE c.cmd = "read"
  <2>1. AnswerTo(c) = <<INSYNC, Byte("page", node.flash[node.addr]), OK>>
    BY <1>3 DEF AnswerTo
  <2>2. /\ \A i \in DOMAIN AnswerTo(c) : i = 1 \/ i = 2 \/ i = 3
        /\ AnswerTo(c)[1] = INSYNC /\ AnswerTo(c)[3] = OK
        /\ AnswerTo(c)[2] = Byte("page", node.flash[node.addr])
    BY <2>1
  <2>3. \A i \in DOMAIN AnswerTo(c) : i \in 1..3
    BY <2>2
  <2>4. \A i \in DOMAIN AnswerTo(c) : AnswerTo(c)[i] # SIGNATURE(TRUE)
    BY <2>2, KindsDiffer
  <2>5. \A i \in DOMAIN AnswerTo(c) :
           IsPage(AnswerTo(c)[i]) => i = 2 /\ AnswerTo(c)[i].data = node.flash[node.addr]
    BY <2>2, KindsDiffer
  <2>6. \A i \in DOMAIN AnswerTo(c) : i > 2 => AnswerTo(c)[i] = OK /\ i = 3
    BY <2>2
  <2>7. QED
    BY <1>3, <2>3, <2>4, <2>5, <2>6
<1>4. CASE c.cmd \notin {"sign", "read"}
  <2>1. AnswerTo(c) = <<INSYNC, OK>>
    BY <1>4 DEF AnswerTo
  <2>2. /\ \A i \in DOMAIN AnswerTo(c) : i = 1 \/ i = 2
        /\ AnswerTo(c)[1] = INSYNC /\ AnswerTo(c)[2] = OK
    BY <2>1
  <2>3. \A i \in DOMAIN AnswerTo(c) : i \in 1..3 /\ i <= 2 /\ ~(i > 2)
    BY <2>2
  <2>4. \A i \in DOMAIN AnswerTo(c) : AnswerTo(c)[i] # SIGNATURE(TRUE) /\ ~IsPage(AnswerTo(c)[i])
    BY <2>2, KindsDiffer
  <2>5. \A i \in DOMAIN AnswerTo(c) : AnswerTo(c)[i] = OK => i = 2
    BY <2>2, KindsDiffer
  <2>6. QED
    BY <1>4, <2>3, <2>4, <2>5
<1>5. QED
  BY <1>2, <1>3, <1>4

LEMMA TakesKeep == UploadInv /\ NodeTakes => UploadInv'
<1> SUFFICES ASSUME UploadInv, NodeTakes PROVE UploadInv'
  OBVIOUS
<1> USE DEF UploadInv
<1>1. /\ TypeOK' /\ fromNode \in Seq(Bytes) /\ toNode \in Seq(Commands) /\ toNode # <<>>
      /\ node \in Nodes /\ LocalsKept /\ toNode' = Tail(toNode)
  BY EnvironmentType DEF Node, TypeOK, NodeTakes, LocalsKept
<1>2. CASE node.mode # "boot"
  BY <1>1, <1>2, CommandGoneKeeps DEF NodeTakes
<1>3. CASE node.mode = "boot"
  <2> DEFINE c == Head(toNode)
  <2>1. /\ fromNode' = fromNode \o AnswerTo(c) /\ node' = Execute(c)
        /\ UNCHANGED <<pc, stage, page, tries, ret, outcome>>
    BY <1>3 DEF NodeTakes
  <2>2. /\ \A i \in DOMAIN toNode' : i \in Nat /\ i + 1 \in DOMAIN toNode /\ toNode'[i] = toNode[i + 1]
        /\ Len(toNode') = Len(toNode) - 1 /\ Len(toNode) \in Nat
        /\ c \in Commands /\ 1 \in DOMAIN toNode /\ c = toNode[1]
    BY <1>1, TailIndex, LenProperties, HeadTailProperties
  <2> HIDE DEF c
  <2> DEFINE new(i) == i - Len(fromNode)
  <2>3. /\ \A i \in DOMAIN fromNode' :
               \/ i \in DOMAIN fromNode /\ i <= Len(fromNode) /\ fromNode'[i] = fromNode[i]
               \/ new(i) \in DOMAIN AnswerTo(c) /\ fromNode'[i] = AnswerTo(c)[new(i)]
        /\ \A i \in DOMAIN fromNode' : i \in Nat
        /\ Len(fromNode) \in Nat
    BY <1>1, <2>1, <2>2, AnswerTyped, ConcatIndex, LenProperties
  <2>4. \A i, j : new(i) \in Nat /\ i \in Nat /\ j \in Nat =>
               /\ new(j) = new(i) + 1 => j = i + 1
               /\ j > i => new(j) > new(i) /\ j > Len(fromNode)
    BY <2>3
  <2> HIDE DEF new
  <2>5. \A cmds : LineHas(cmds) => LineHas(cmds)' /\ c.cmd \in cmds
    BY <2>2 DEF LineHas
  <2>6. TriesAreLeft' /\ Recognised'
    <3>1. node'.right = node.right
      BY <1>1, <2>1, <2>2, ExecuteFrame
    <3>2. \A i \in DOMAIN AnswerTo(c) : AnswerTo(c)[i] = SIGNATURE(TRUE) => node.right
      BY <1>1, <2>2, AnswerBytes
    <3>3. QED
      BY <2>1, <2>3, <3>1, <3>2 DEF TriesAreLeft, Recognised
  <2>7. NoPage /\ c.cmd # "read" => NoPage'
    BY <1>1, <2>2, <2>3, AnswerBytes DEF NoPage
  <2>8. NoEarlyRead'
    BY <2>1, <2>5, <2>7 DEF NoEarlyRead
  <2>9. ReadComesLast'
    <3> SUFFICES ASSUME stage = "read", pc = "answer" PROVE ReadComesLast'
      BY <2>1 DEF ReadComesLast
    <3>1. /\ \A i \in DOMAIN toNode : toNode[i].cmd = "read" => i = Len(toNode)
          /\ NoPage
      BY <1>1 DEF ReadComesLast, NoPage
    <3>2. \A i \in DOMAIN toNode' : toNode'[i].cmd = "read" => i = Len(toNode')
      BY <2>2, <3>1
    <3>3. CASE c.cmd # "read"
      BY <2>7, <3>1, <3>2, <3>3 DEF ReadComesLast, NoPage
    <3>4. CASE c.cmd = "read"
      <4>1. toNode' = <<>>
        <5>1. Len(toNode') = 0
          BY <2>2, <3>1, <3>4
        <5>2. toNode' \in Seq(Commands)
          BY <1>1 DEF TypeOK
        <5>3. QED
          BY <5>1, <5>2, EmptySeq
      <4>2. node'.flash = node.flash /\ node'.addr = node.addr
        BY <1>1, <2>1, <2>2, <3>4, ExecuteFrame
      <4>3. ASSUME NEW i \in DOMAIN fromNode', IsPage(fromNode'[i])
            PROVE  /\ fromNode'[i].data = node.flash[node.addr]
                   /\ \A j \in DOMAIN fromNode' : j > i => fromNode'[j] = OK /\ j = i + 1
        <5>1. /\ new(i) \in DOMAIN AnswerTo(c) /\ new(i) = 2
              /\ fromNode'[i].data = node.flash[node.addr]
          <6>1. new(i) \in DOMAIN AnswerTo(c) /\ fromNode'[i] = AnswerTo(c)[new(i)]
            BY <2>3, <3>1, <4>3 DEF NoPage
          <6>2. \A k \in DOMAIN AnswerTo(c) :
                   IsPage(AnswerTo(c)[k]) => k = 2 /\ AnswerTo(c)[k].data = node.flash[node.addr]
            BY <1>1, <2>2, <3>4, AnswerBytes
          <6>3. QED
            BY <4>3, <6>1, <6>2
        <5>2. ASSUME NEW j \in DOMAIN fromNode', j > i PROVE fromNode'[j] = OK /\ j = i + 1
          <6>1. new(j) > 2 /\ j > Len(fromNode)
            BY <2>3, <2>4, <5>1, <5>2
          <6>2. \A k \in DOMAIN AnswerTo(c) : k > 2 => AnswerTo(c)[k] = OK /\ k = 3
            BY <1>1, <2>2, <3>4, AnswerBytes
          <6>3. new(j) \in DOMAIN AnswerTo(c) /\ fromNode'[j] = AnswerTo(c)[new(j)]
            BY <2>3, <6>1
          <6>4. fromNode'[j] = OK /\ new(j) = 3
            BY <6>1, <6>2, <6>3
          <6>5. QED
            BY <2>3, <2>4, <5>1, <6>4
        <5>3. QED
          BY <5>1, <5>2
      <4>4. QED
        BY <3>2, <4>1, <4>2, <4>3 DEF ReadComesLast
    <3>5. QED
      BY <3>3, <3>4
  <2>10. LoadComesLast /\ page > 1 => LoadComesLast'
    <3> SUFFICES ASSUME LoadComesLast, page > 1 PROVE LoadComesLast'
      OBVIOUS
    <3>1. c.cmd = "verifyLoad" /\ c.page = page /\ toNode' = <<>> /\ Len(toNode') <= 1
      BY <1>1, <2>2, EmptySeq DEF LoadComesLast, TypeOK
    <3>2. \A i \in DOMAIN fromNode : fromNode[i] = PRINTED
      BY <1>1 DEF LoadComesLast
    <3>3. node'.addr = page
      BY <1>1, <2>1, <2>2, <3>1, ExecuteFrame
    <3>4. \A k \in DOMAIN AnswerTo(c) : k \in Nat /\ k <= 2 /\ (AnswerTo(c)[k] = OK => k = 2)
      <4>1. \A k \in DOMAIN AnswerTo(c) : k \in 1..3
        BY <1>1, <2>2, AnswerBytes
      <4>2. \A k \in DOMAIN AnswerTo(c) : k <= 2 /\ (AnswerTo(c)[k] = OK => k = 2)
        BY <1>1, <2>2, <3>1, AnswerBytes
      <4>3. QED
        BY <4>1, <4>2
    <3>5. ASSUME NEW i \in DOMAIN fromNode', fromNode'[i] = OK,
                 NEW j \in DOMAIN fromNode', j > i
          PROVE  FALSE
      <4>1. new(i) \in DOMAIN AnswerTo(c) /\ new(i) = 2
        BY <2>3, <3>2, <3>4, <3>5, KindsDiffer
      <4>2. new(j) > 2 /\ j > Len(fromNode)
        BY <2>3, <2>4, <3>5, <4>1
      <4>3. new(j) \in DOMAIN AnswerTo(c)
        BY <2>3, <4>2
      <4>4. QED
        BY <3>4, <4>2, <4>3
    <3>6. QED
      BY <2>1, <2>2, <2>3, <3>1, <3>2, <3>3, <3>5 DEF LoadComesLast
  <2>11. InStep'
    <3> SUFFICES ASSUME page > 1, stage \in {"verifyLoad", "read"}, pc \in {"send", "answer"}
                 PROVE  InStep'
      BY <2>1 DEF InStep
    <3>1. /\ pc = "answer" /\ ReadBack(page) /\ c.cmd # "prog"
          /\ stage = "verifyLoad" => LoadComesLast
          /\ stage = "read" => c.cmd = "read" /\ node.addr = page /\ LineHas({"read"})
      BY <1>1, <2>2 DEF InStep, NothingComes, LoadComesLast, LineHas
    <3>2. ReadBack(page)'
      BY <1>1, <2>1, <2>2, <3>1, ExecuteFrame DEF ReadBack
    <3>3. CASE stage = "verifyLoad"
      BY <2>1, <2>10, <3>1, <3>2, <3>3 DEF InStep
    <3>4. CASE stage = "read"
      <4>1. node'.addr = page /\ LineHas({"read"})'
        BY <1>1, <2>1, <2>2, <2>5, <3>1, <3>4, ExecuteFrame
      <4>2. QED
        BY <2>1, <3>1, <3>2, <3>4, <4>1 DEF InStep
    <3>5. QED
      BY <3>3, <3>4
  <2>12. Uploaded => Uploaded'
    <3> SUFFICES ASSUME Uploaded PROVE Uploaded'
      OBVIOUS
    <3>1. c.cmd = "leave" /\ LineHas({"leave"})'
      BY <2>5 DEF Uploaded
    <3>2. node'.flash = node.flash
      BY <1>1, <2>1, <2>2, <3>1, ExecuteFrame
    <3>3. QED
      BY <3>1, <3>2 DEF Uploaded, Program
  <2>13. WhenUploaded'
    <3>1. node'.right = node.right
      BY <1>1, <2>1, <2>2, ExecuteFrame
    <3>2. QED
      BY <2>1, <2>12, <3>1 DEF WhenUploaded
  <2>14. QED
    BY <1>1, <2>6, <2>8, <2>9, <2>11, <2>13
<1>4. QED
  BY <1>2, <1>3

-----------------------------------------------------------------------------
(* What programNode may do                                                  *)

\* What is read from the port goes; nothing comes to it meanwhile
Read == /\ \A i \in DOMAIN fromNode' :
               \E j \in DOMAIN fromNode : fromNode'[i] = fromNode[j]
        /\ UNCHANGED <<toNode, node>>

LEMMA ReadSome == TypeOK /\ UNCHANGED <<toNode, node>> /\ fromNode' \in {Rest, <<>>} => Read
BY Answers DEF TypeOK, Read

LEMMA ReadKeeps ==
    Read => /\ NoPage => NoPage'
            /\ NothingComes => NothingComes'
            /\ \A cmds : LineHas(cmds) => LineHas(cmds)'
            /\ Uploaded => Uploaded'
            /\ \A p : ReadBack(p) => ReadBack(p)'
BY DEF Read, NoPage, NothingComes, LineHas, Uploaded, ReadBack

\* Any result but "OK" and "BUTFINE" promises nothing of the node
LEMMA ReturnKeeps ==
    ASSUME UploadInv, TypeOK', Read, pc = "answer", NEW result, Return(result),
           result = "OK" => Uploaded /\ node.right,
           result = "BUTFINE" => Uploaded
    PROVE  UploadInv'
<1> USE DEF UploadInv
<1>1. /\ pc' \in {"delay", "done"} /\ stage' = stage /\ page' = page /\ ret' = result
      /\ outcome' = "begun" => result = "OK" /\ pc' = "done"
      /\ pc' = "delay" => tries' # MaxTries
      /\ UNCHANGED <<toNode, node>>
  BY DEF Return, Read
<1>2. TriesAreLeft' /\ Recognised'
  BY <1>1 DEF TriesAreLeft, Recognised, Read
<1>3. NoEarlyRead'
  BY <1>1, ReadKeeps DEF NoEarlyRead
<1>4. ReadComesLast' /\ InStep'
  BY <1>1 DEF ReadComesLast, InStep
<1>5. WhenUploaded'
  BY <1>1, ReadKeeps DEF WhenUploaded
<1>6. QED
  BY <1>2, <1>3, <1>4, <1>5

\* What the next command needs of what came before it
LEMMA ContinueKeeps ==
    ASSUME UploadInv, TypeOK', Read, pc = "answer",
           NEW next \in Stages, NEW p \in Pages, Continue(next, p),
           next = "sync" => LineHas({"init", "sync"}),
           next # "init",
           next \in {"params", "enter", "sign", "sync2", "load", "prog", "verifyLoad", "read"}
               => NoPage' /\ LineHas(Stages \ {"read"}),
           next \in {"sync2", "load", "prog", "verifyLoad", "read", "leave"} => node.right,
           p > 1 /\ next \in {"verifyLoad", "read"} => ReadBack(p) /\ NothingComes',
           p > 1 /\ next = "read" => node.addr = p,
           next = "leave" => Uploaded
    PROVE  UploadInv'
<1> USE DEF UploadInv
<1>1. pc' = "send" /\ stage' = next /\ page' = p /\ UNCHANGED <<tries, ret, outcome, toNode, node>>
  BY DEF Continue, Read
<1>2. TriesAreLeft' /\ Recognised'
  BY <1>1 DEF TriesAreLeft, Recognised, Read
<1>3. NoEarlyRead'
  BY <1>1, ReadKeeps DEF NoEarlyRead
<1>4. ReadComesLast'
  BY <1>1 DEF ReadComesLast
<1>5. InStep'
  <2> SUFFICES ASSUME p > 1, next \in {"verifyLoad", "read"} PROVE InStep'
    BY <1>1 DEF InStep
  <2>1. ReadBack(p)' /\ NothingComes'
    BY ReadKeeps
  <2>2. LineHas({"read"})'
    BY <2>1 DEF NothingComes, LineHas
  <2>3. QED
    BY <1>1, <2>1, <2>2 DEF InStep
<1>6. WhenUploaded'
  BY <1>1, ReadKeeps DEF WhenUploaded
<1>7. QED
  BY <1>2, <1>3, <1>4, <1>5, <1>6

LEMMA SendKeeps == UploadInv /\ (ResetNode \/ SendCommand) => UploadInv'
<1> SUFFICES ASSUME UploadInv, ResetNode \/ SendCommand PROVE UploadInv'
  OBVIOUS
<1> USE DEF UploadInv
<1>1. TypeOK'
  BY ProgramNodeType DEF ProgramNode
<1>2. CASE ResetNode
  <2>1. /\ pc' = "answer" /\ stage = "init" /\ pc = "send" /\ LineHas({"init", "sync"})'
        /\ UNCHANGED <<stage, page, tries, ret, outcome, fromNode>> /\ node'.right = node.right
    BY <1>2 DEF ResetNode, LineHas, Command, TypeOK, Nodes
  <2>2. QED
    BY <1>1, <2>1
    DEF TriesAreLeft, Recognised, NoEarlyRead, ReadComesLast, InStep, WhenUploaded
<1>3. CASE SendCommand
  <2>1. PICK data \in Pages \cup {Wrong} : Send(Command(data))
    BY <1>3 DEF SendCommand, TypeOK, Program
  <2>2. /\ pc = "send" /\ pc' = "answer" /\ stage # "init" /\ toNode' = Append(toNode, Command(data))
        /\ UNCHANGED <<stage, page, tries, ret, outcome, fromNode, node>>
    BY <1>3, <2>1 DEF SendCommand, Send
  <2>3. /\ Command(data).cmd = stage /\ Command(data).page = page
        /\ Len(toNode') = Len(toNode) + 1 /\ Len(toNode) \in Nat
        /\ \A i \in DOMAIN toNode' :
               \/ i \in DOMAIN toNode /\ i <= Len(toNode) /\ toNode'[i] = toNode[i]
               \/ i = Len(toNode) + 1 /\ toNode'[i] = Command(data)
        /\ \A i \in DOMAIN toNode : i \in Nat /\ i <= Len(toNode)
    BY <2>2, CommandTyped, AppendIndex DEF TypeOK, Command
  <2>4. \A cmds : LineHas(cmds) /\ stage \in cmds => LineHas(cmds)'
    BY <2>3 DEF LineHas
  <2>5. TriesAreLeft' /\ Recognised'
    BY <2>2 DEF TriesAreLeft, Recognised
  <2>6. NoEarlyRead'
    BY <2>2, <2>4 DEF NoEarlyRead, NoPage, Stages
  <2>7. ReadComesLast'
    <3> SUFFICES ASSUME stage = "read" PROVE ReadComesLast'
      BY <2>2 DEF ReadComesLast
    <3>1. NoPage /\ \A i \in DOMAIN toNode : toNode[i].cmd # "read"
      BY <2>2 DEF NoEarlyRead, LineHas
    <3>2. QED
      BY <2>2, <2>3, <3>1 DEF ReadComesLast, NoPage
  <2>8. InStep'
    <3> SUFFICES ASSUME page > 1, stage \in {"verifyLoad", "read"} PROVE InStep'
      BY <2>2 DEF InStep
    <3>1. ReadBack(page) /\ NothingComes /\ (stage = "read" => node.addr = page /\ LineHas({"read"}))
      BY <2>2 DEF InStep
    <3>2. /\ \A i \in DOMAIN toNode' : toNode'[i] = Command(data)
          /\ Len(toNode') = 1
      BY <2>3, <3>1 DEF NothingComes
    <3>3. ReadBack(page)'
      BY <2>2, <3>1 DEF ReadBack
    <3>4. CASE stage = "verifyLoad"
      <4>1. LoadComesLast'
        BY <2>2, <2>3, <3>1, <3>2, <3>4 DEF LoadComesLast, NothingComes
      <4>2. QED
        BY <2>2, <3>3, <3>4, <4>1 DEF InStep
    <3>5. CASE stage = "read"
      BY <2>2, <2>4, <3>1, <3>3, <3>5 DEF InStep
    <3>6. QED
      BY <3>4, <3>5
  <2>9. WhenUploaded'
    BY <2>2, <2>4 DEF WhenUploaded, Uploaded, Program
  <2>10. QED
    BY <1>1, <2>5, <2>6, <2>7, <2>8, <2>9
<1>4. QED
  BY <1>2, <1>3

LEMMA SyncKeeps == UploadInv /\ (InitAnswered \/ Synced \/ SyncAgain \/ GiveUpSync) => UploadInv'
<1> SUFFICES ASSUME UploadInv, InitAnswered \/ Synced \/ SyncAgain \/ GiveUpSync PROVE UploadInv'
  OBVIOUS
<1>1. TypeOK /\ TypeOK' /\ 1 \in Pages
  BY ProgramNodeType, BytesTyped DEF ProgramNode, UploadInv
<1>2. Read /\ pc = "answer"
  BY <1>1, ReadSome DEF InitAnswered, Synced, SyncAgain, GiveUpSync, NoSync
<1>3. stage \in {"init", "sync"} => LineHas({"init", "sync"}) /\ LineHas(Stages \ {"read"})
  BY <1>2 DEF UploadInv, NoEarlyRead, LineHas, Stages
<1>4. stage = "sync2" => NoPage' /\ LineHas(Stages \ {"read"}) /\ node.right
  BY <1>2, ReadKeeps DEF UploadInv, NoEarlyRead, Recognised
<1>5. CASE InitAnswered
  BY <1>1, <1>2, <1>3, <1>5, ContinueKeeps DEF InitAnswered, Stages
<1>6. CASE Synced
  <2>1. CASE stage = "sync"
    <3>1. Continue("params", 1) /\ NoPage'
      BY <1>6, <2>1 DEF Synced, NoPage
    <3>2. QED
      BY <1>1, <1>2, <1>3, <2>1, <3>1, ContinueKeeps DEF Stages
  <2>2. CASE stage = "sync2"
    <3>1. Continue("load", 1) \/ Return("NOFILE")
      BY <1>6, <2>2 DEF Synced
    <3>2. CASE Continue("load", 1)
      BY <1>1, <1>2, <1>4, <2>2, <3>2, ContinueKeeps DEF Stages
    <3>3. CASE Return("NOFILE")
      BY <1>1, <1>2, <3>3, ReturnKeeps
    <3>4. QED
      BY <3>1, <3>2, <3>3
  <2>3. QED
    BY <1>6, <2>1, <2>2 DEF Synced
<1>7. CASE SyncAgain
  BY <1>1, <1>2, <1>3, <1>4, <1>7, ContinueKeeps DEF SyncAgain, NoSync, Stages
<1>8. CASE GiveUpSync
  BY <1>1, <1>2, <1>8, ReturnKeeps DEF GiveUpSync
<1>9. QED
  BY <1>5, <1>6, <1>7, <1>8

LEMMA SignedKeeps == UploadInv /\ Signed => UploadInv'
<1> SUFFICES ASSUME UploadInv, Signed PROVE UploadInv'
  OBVIOUS
<1>1. TypeOK /\ TypeOK' /\ 1 \in Pages
  BY ProgramNodeType, BytesTyped DEF ProgramNode, UploadInv
<1>2. Read /\ pc = "answer" /\ stage = "sign"
  BY <1>1, ReadSome DEF Signed
<1>3. NoPage' /\ LineHas(Stages \ {"read"})
  BY <1>2, ReadKeeps DEF UploadInv, NoEarlyRead
<1>4. CASE verifySignature /\ Continue("sync2", 1)
  <2>1. Answer[2] = SIGNATURE(TRUE) /\ Len(Answer) = 3
    BY <1>4 DEF verifySignature
  <2>2. 2 \in 1..Received
    BY <1>1, <2>1, Answers DEF TypeOK
  <2>3. node.right
    BY <1>1, <2>1, <2>2, Answers DEF TypeOK, UploadInv, Recognised
  <2>4. QED
    BY <1>1, <1>2, <1>3, <1>4, <2>3, ContinueKeeps DEF Stages
<1>5. CASE Return("NONFATAL") \/ Return("FATAL")
  BY <1>1, <1>2, <1>5, ReturnKeeps
<1>6. QED
  BY <1>4, <1>5 DEF Signed

\* An acknowledgement, byte by byte
LEMMA CheckedBytes ==
    ASSUME TypeOK, stk_checksyncanswer, stage # "sign"
    PROVE  /\ 1 \in DOMAIN fromNode /\ fromNode[1] = INSYNC
           /\ \/ Received = 2 /\ 2 \in DOMAIN fromNode /\ fromNode[2] = OK
              \/ stage = "read" /\ Received = 3 /\ 3 \in DOMAIN fromNode /\ fromNode[3] = OK
           /\ stage # "read" => Received = 2
<1>1. /\ Received \in Nat /\ Received <= Expected /\ Len(Answer) = Received
      /\ \A i \in 1..Received : i \in DOMAIN fromNode /\ Answer[i] = fromNode[i]
  BY Answers DEF TypeOK
<1>2. Received >= 2 /\ Answer[1] = INSYNC /\ Answer[Received] = OK
  BY <1>1 DEF stk_checksyncanswer, Last
<1>3. Expected = IF stage = "read" THEN 3 ELSE 2
  BY DEF Expected
<1>4. Received = 2 \/ (Received = 3 /\ stage = "read")
  BY <1>1, <1>2, <1>3
<1>5. 1 \in 1..Received /\ Received \in 1..Received
  BY <1>1, <1>2
<1>6. QED
  BY <1>1, <1>2, <1>4, <1>5

\* From the second page on, the acknowledgement of the load is its own
LEMMA LoadAcknowledged ==
    ASSUME UploadInv, TypeOK', Read, fromNode' = Rest, pc = "answer", stage = "verifyLoad",
           stk_checksyncanswer, page > 1
    PROVE  ReadBack(page) /\ NothingComes' /\ node.addr = page
<1>1. ReadBack(page) /\ LoadComesLast
  BY DEF UploadInv, InStep
<1>2. /\ 1 \in DOMAIN fromNode /\ fromNode[1] = INSYNC /\ Received = 2
      /\ 2 \in DOMAIN fromNode /\ fromNode[2] = OK
  BY CheckedBytes DEF UploadInv
<1>3. /\ toNode = <<>> /\ node.addr = page
      /\ \A j \in DOMAIN fromNode : j > 2 => fromNode[j] = PRINTED
  BY <1>1, <1>2, KindsDiffer DEF LoadComesLast
<1>4. \A i \in DOMAIN Rest : 2 + i \in DOMAIN fromNode /\ i + 2 > 2 /\ Rest[i] = fromNode[2 + i]
  <2>1. \A i \in DOMAIN Rest : /\ i \in Nat /\ Received + i \in DOMAIN fromNode
                               /\ Rest[i] = fromNode[Received + i]
    BY Answers DEF UploadInv, TypeOK
  <2>2. DOMAIN Rest = 1..Len(Rest) /\ Len(Rest) \in Nat
    BY Answers, LenProperties DEF UploadInv, TypeOK
  <2>3. QED
    BY <1>2, <2>1, <2>2
<1>5. \A i \in DOMAIN Rest : i \in Nat /\ Rest[i] = PRINTED
  <2>1. \A i \in DOMAIN Rest : i \in Nat
    BY Answers DEF UploadInv, TypeOK
  <2>2. QED
    BY <1>3, <1>4, <2>1
<1>6. QED
  BY <1>1, <1>3, <1>5 DEF NothingComes, Read

\* A page read back right is on the node, and nothing comes after its answer
LEMMA PageIsRight ==
    ASSUME UploadInv, TypeOK', Read, fromNode' = Rest, pc = "answer", stage = "read",
           stk_checksyncanswer, NEW readable, verifyProgramPage(readable)
    PROVE  NothingComes' /\ toNode = <<>> /\ node.flash[node.addr] = page
<1>1. /\ Len(Answer) = 3 /\ Answer[2] = Byte("page", page)
  BY DEF verifyProgramPage, UploadInv, TypeOK, Program
<1>2. /\ Received = 3 /\ 2 \in DOMAIN fromNode /\ fromNode[2] = Byte("page", page)
      /\ \A i \in DOMAIN Rest : /\ i \in Nat /\ 3 + i \in DOMAIN fromNode
                                /\ Rest[i] = fromNode[3 + i]
      /\ DOMAIN Rest = 1..Len(Rest) /\ Len(Rest) \in Nat
  <2>1. Received = 3 /\ 2 \in 1..Received
    BY <1>1, Answers DEF UploadInv, TypeOK
  <2>2. QED
    BY <1>1, <2>1, Answers, LenProperties DEF UploadInv, TypeOK
<1>3. /\ toNode = <<>> /\ node.flash[node.addr] = page
      /\ \A j \in DOMAIN fromNode : j > 2 => fromNode[j] = PRINTED \/ j = 3
  <2>1. IsPage(fromNode[2]) /\ fromNode[2].data = page
    BY <1>2, KindsDiffer
  <2>2. QED
    BY <1>2, <2>1 DEF UploadInv, ReadComesLast
<1>4. \A i \in DOMAIN Rest : 3 + i > 2 /\ 3 + i # 3
  BY <1>2
<1>5. \A i \in DOMAIN Rest : Rest[i] = PRINTED
  BY <1>2, <1>3, <1>4
<1>6. QED
  BY <1>3, <1>5 DEF NothingComes, Read

\* The last page read back right makes the flash the program
LEMMA AllRight ==
    ASSUME TypeOK, ReadBack(NumPages + 1)
    PROVE  node.flash = Program
<1>1. PICK a \in Pages : node.flash[a] = 1
  BY DEF ReadBack
<1>2. \A q \in Pages : q > 1 => node.flash[q] = q
  BY BoundsAssumption DEF ReadBack, Pages, BoundsAssumption
<1>3. a = 1
  BY <1>1, <1>2, BytesTyped DEF Pages
<1>4. \A q \in Pages : node.flash[q] = q
  BY <1>1, <1>2, <1>3 DEF Pages
<1>5. node.flash \in [Pages -> Pages \cup {Wrong}]
  BY DEF TypeOK, Nodes
<1>6. QED
  BY <1>4, <1>5 DEF Program

LEMMA AnsweredKeeps == UploadInv /\ Answered => UploadInv'
<1> SUFFICES ASSUME UploadInv, Answered PROVE UploadInv'
  OBVIOUS
<1>1. TypeOK /\ TypeOK' /\ 1 \in Pages /\ page \in Pages
  BY ProgramNodeType, BytesTyped DEF ProgramNode, UploadInv, TypeOK
<1>2. Read /\ pc = "answer" /\ stage \notin {"init", "sync", "sign", "sync2"} /\ fromNode' = Rest
  BY <1>1, ReadSome DEF Answered
<1>3. PICK readable \in SDOutcomes :
         IF stk_checksyncanswer /\ (stage = "read" => verifyProgramPage(readable))
           THEN Acknowledged ELSE Return(FailureAt(stage))
  BY DEF Answered
<1>4. /\ stage = "leave" => Uploaded
      /\ stage \in {"load", "prog", "verifyLoad", "read", "leave"} => node.right
      /\ stage \in {"params", "enter", "load", "prog", "verifyLoad"}
             => NoPage' /\ LineHas(Stages \ {"read"})
  BY <1>2, ReadKeeps DEF UploadInv, WhenUploaded, Recognised, NoEarlyRead
<1>5. stage \in {"params", "enter", "load", "prog", "verifyLoad", "read", "leave"}
  BY <1>1, <1>2 DEF TypeOK, Stages
<1>6. page < NumPages => page + 1 \in Pages
  BY <1>1, BoundsAssumption DEF Pages, BoundsAssumption
<1>7. CASE Return(FailureAt(stage))
  <2>1. FailureAt(stage) # "OK" /\ (FailureAt(stage) = "BUTFINE" => stage = "leave")
    BY <1>5 DEF FailureAt
  <2>2. QED
    BY <1>1, <1>2, <1>4, <1>7, <2>1, ReturnKeeps
<1>8. CASE stk_checksyncanswer /\ (stage = "read" => verifyProgramPage(readable)) /\ Acknowledged
  <2>1. CASE stage = "params"
    BY <1>1, <1>2, <1>4, <1>8, <2>1, ContinueKeeps DEF Acknowledged, Stages
  <2>2. CASE stage = "enter"
    BY <1>1, <1>2, <1>4, <1>8, <2>2, ContinueKeeps DEF Acknowledged, Stages
  <2>3. CASE stage = "load"
    BY <1>1, <1>2, <1>4, <1>8, <2>3, ContinueKeeps DEF Acknowledged, Stages
  <2>4. CASE stage = "prog"
    <3>1. (page < NumPages /\ Continue("load", page + 1)) \/ Continue("verifyLoad", 1)
      BY <1>8, <2>4 DEF Acknowledged
    <3>2. CASE page < NumPages /\ Continue("load", page + 1)
      BY <1>1, <1>2, <1>4, <1>6, <2>4, <3>2, ContinueKeeps DEF Stages
    <3>3. CASE Continue("verifyLoad", 1)
      BY <1>1, <1>2, <1>4, <2>4, <3>3, ContinueKeeps DEF Stages
    <3>4. QED
      BY <3>1, <3>2, <3>3
  <2>5. CASE stage = "verifyLoad"
    <3>1. Continue("read", page)
      BY <1>8, <2>5 DEF Acknowledged
    <3>2. page > 1 => ReadBack(page) /\ NothingComes' /\ node.addr = page
      BY <1>1, <1>2, <1>8, <2>5, LoadAcknowledged
    <3>3. QED
      BY <1>1, <1>2, <1>4, <2>5, <3>1, <3>2, ContinueKeeps DEF Stages
  <2>6. CASE stage = "read"
    <3>1. NothingComes' /\ toNode = <<>> /\ node.flash[node.addr] = page
      BY <1>1, <1>2, <1>8, <2>6, PageIsRight
    <3>2. node.addr \in Pages
      BY <1>1 DEF TypeOK, Nodes
    <3>3. ReadBack(page + 1)
      <4>1. CASE page = 1
        BY <3>1, <3>2, <4>1 DEF ReadBack, Pages
      <4>2. CASE page > 1
        <5>1. ReadBack(page) /\ node.addr = page
          BY <1>2, <2>6, <4>2 DEF UploadInv, InStep
        <5>2. QED
          BY <1>1, <3>1, <5>1 DEF ReadBack, Pages
      <4>3. QED
        BY <1>1, <4>1, <4>2 DEF Pages
    <3>4. NoPage' /\ \A cmds : LineHas(cmds)
      BY <3>1, KindsDiffer DEF NothingComes, NoPage, LineHas
    <3>5. CASE page < NumPages
      <4>1. Continue("verifyLoad", page + 1)
        BY <1>8, <2>6, <3>5 DEF Acknowledged
      <4>2. QED
        BY <1>1, <1>2, <1>4, <1>6, <2>6, <3>1, <3>3, <3>4, <3>5, <4>1, ContinueKeeps DEF Stages
    <3>6. CASE ~(page < NumPages)
      <4>1. Continue("leave", 1)
        BY <1>8, <2>6, <3>6 DEF Acknowledged
      <4>2. page = NumPages
        BY <1>1, <3>6, BoundsAssumption DEF Pages, BoundsAssumption
      <4>3. Uploaded
        BY <1>1, <3>3, <3>4, <4>2, AllRight DEF Uploaded
      <4>4. QED
        BY <1>1, <1>2, <1>4, <2>6, <4>1, <4>3, ContinueKeeps DEF Stages
    <3>7. QED
      BY <3>5, <3>6
  <2>7. CASE stage = "leave"
    <3>1. Return("OK")
      BY <1>8, <2>7 DEF Acknowledged
    <3>2. QED
      BY <1>1, <1>2, <1>4, <2>7, <3>1, ReturnKeeps
  <2>8. QED
    BY <1>5, <2>1, <2>2, <2>3, <2>4, <2>5, <2>6, <2>7
<1>9. QED
  BY <1>3, <1>7, <1>8

LEMMA RetryKeeps == UploadInv /\ Retry => UploadInv'
<1> SUFFICES ASSUME UploadInv, Retry PROVE UploadInv'
  OBVIOUS
<1>1. TypeOK'
  BY ProgramNodeType DEF UploadInv
<1>2. /\ pc = "delay" /\ pc' = "send" /\ stage' = "init"
      /\ UNCHANGED <<ret, outcome, toNode, fromNode, node>>
  BY DEF Retry
<1>3. QED
  BY <1>1, <1>2
  DEF UploadInv, TriesAreLeft, Recognised, NoEarlyRead, ReadComesLast, InStep, WhenUploaded

-----------------------------------------------------------------------------
(* The theorems                                                             *)

LEMMA InitUpload == Init => UploadInv
<1> SUFFICES ASSUME Init PROVE UploadInv
  OBVIOUS
<1>1. TypeOK
  <2>1. node \in Nodes
    BY BytesTyped DEF Init, Nodes
  <2>2. /\ tries \in 1..MaxTries /\ faults \in 0..MaxFaults /\ page \in Pages
        /\ toNode \in Seq(Commands) /\ fromNode \in Seq(Bytes)
    BY BytesTyped, BoundsAssumption DEF Init, BoundsAssumption
  <2>3. QED
    BY <2>1, <2>2 DEF Init, TypeOK, Stages, Results
<1>2. Recognised
  BY DEF Init, Recognised
<1>3. NoEarlyRead /\ ReadComesLast /\ InStep
  BY DEF Init, NoEarlyRead, ReadComesLast, InStep
<1>4. TriesAreLeft /\ WhenUploaded
  BY DEF Init, TriesAreLeft, WhenUploaded
<1>5. QED
  BY <1>1, <1>2, <1>3, <1>4 DEF UploadInv

LEMMA NextUpload == UploadInv /\ [Next]_vars => UploadInv'
<1> SUFFICES ASSUME UploadInv, [Next]_vars PROVE UploadInv'
  OBVIOUS
<1>1. CASE UNCHANGED vars
  <2>1. TypeOK' /\ TriesAreLeft' /\ Recognised'
    BY <1>1 DEF vars, UploadInv, TypeOK, TriesAreLeft, Recognised
  <2>2. NoEarlyRead' /\ ReadComesLast'
    BY <1>1 DEF vars, UploadInv, NoEarlyRead, NoPage, LineHas, ReadComesLast
  <2>3. InStep' /\ WhenUploaded'
    BY <1>1
    DEF vars, UploadInv, InStep, ReadBack, NothingComes, LoadComesLast, LineHas, WhenUploaded,
        Uploaded, Program
  <2>4. QED
    BY <2>1, <2>2, <2>3 DEF UploadInv
<1>2. CASE ProgramNode
  BY <1>2, SendKeeps, SyncKeeps, SignedKeeps, AnsweredKeeps DEF ProgramNode
<1>3. CASE Retry
  BY <1>3, RetryKeeps
<1>4. CASE Node
  BY <1>4, TakesKeep, PrintsKeep, LeavingKeeps DEF Node
<1>5. CASE Line
  BY <1>5, CommandLostKeeps, ByteLostKeeps, DamageKeeps DEF Line
<1>6. QED
  BY <1>1, <1>2, <1>3, <1>4, <1>5 DEF Next

\* At every step of an upload, and of every retry of it, the stage programNode
\* is at tells what may be on the line and what the flash holds.
THEOREM UploadInvariant == Spec => []UploadInv
BY InitUpload, NextUpload, PTL DEF Spec

\* The variables keep their types; no more than MaxTries calls are made.
THEOREM TypeCorrect == Spec => []TypeOK
<1>1. UploadInv => TypeOK
  BY DEF UploadInv
<1>2. QED
  BY <1>1, UploadInvariant, PTL

\* Begin() is called on a program only when the flash of the node is that
\* program and the node has the right signature.
THEOREM BegunIsRight == Spec => []BegunIsProgrammed
<1>1. UploadInv => BegunIsProgrammed
  BY DEF UploadInv, WhenUploaded, Uploaded, BegunIsProgrammed
<1>2. QED
  BY <1>1, UploadInvariant, PTL

\* When programNode returns that only the last command was not acknowledged,
\* the flash of the node is the program.
THEOREM ButFineIsRight == Spec => []ButFineIsProgrammed
<1>1. UploadInv => ButFineIsProgrammed
  BY DEF UploadInv, WhenUploaded, Uploaded, ButFineIsProgrammed
<1>2. QED
  BY <1>1, UploadInvariant, PTL
=============================================================================
