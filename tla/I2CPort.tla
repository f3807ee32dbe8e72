------------------------------ MODULE I2CPort ------------------------------
(***************************************************************************)
(* ASIF_Port_I2CServer: the buffer through which the program on the        *)
(* experiment node talks to the master.  Three parties share it and none   *)
(* of them locks it:                                                       *)
(*                                                                         *)
(*   the receive interrupt    pullI2c() overwrites it with each message    *)
(*   the SENSOR thread        fill() copies it and resets it               *)
(*   the ENODE thread         beginProgram() flushes it                    *)
(*                                                                         *)
(* The interrupt runs to completion between two instructions of a thread;  *)
(* a step of a thread reads or writes one byte.  A byte is abstracted to   *)
(* the message it was sent in; the byte that memset writes is no message's.*)
(***************************************************************************)
EXTENDS Naturals

CONSTANTS
    BufLen,       \* size of _i2c_content: 32
    MsgLen,       \* sizeof(nanosat_message_t): 30, what fill() accepts
    Lengths,      \* lengths of the messages the node sends
    MaxMessages,  \* bound: messages sent
    MaxPrograms,  \* bound: programs uploaded
    Paces         \* values of paced to consider

ASSUME SizesAssumption ==
    /\ BufLen \in Nat
    /\ MsgLen \in 1..BufLen
    /\ Lengths \subseteq 1..BufLen
    /\ MaxMessages \in Nat /\ MaxPrograms \in Nat
    /\ Paces \subseteq BOOLEAN

VARIABLES
    content,    \* _i2c_content
    length,     \* _length
    message,    \* message[] of the SENSOR thread
    step,       \* where the two threads are
    len,        \* SENSOR: the length fill() works with
    at,         \* the byte each thread handles next
    sent,       \* number of messages sent: the last one's number
    programs,   \* number of programs uploaded
    seen,       \* messages of which the SENSOR thread was given a byte
    paced       \* the master has the time to take each message before the node
                \* sends the next one or is reset

portVars == <<content, length, message, step, len, at, sent, programs, seen,
              paced>>

Index == 1..BufLen
Messages == 1..MaxMessages
Zero == [msg |-> 0, size |-> 0]
PortBytes == [msg : Messages, size : 1..BufLen] \cup {Zero}

SensorSteps == {"idle", "length", "copy", "clear", "reset", "deliver"}
EnodeSteps == {"idle", "begin", "clear", "reset"}

PortTypeOK ==
    /\ content \in [Index -> PortBytes]
    /\ length \in 0..BufLen
    /\ message \in [Index -> PortBytes]
    /\ step \in [SENSOR : SensorSteps, ENODE : EnodeSteps]
    /\ len \in 0..MsgLen    \* never more than message[] was offered
    /\ at \in [SENSOR : Index, ENODE : Index]
    /\ sent \in 0..MaxMessages
    /\ programs \in 0..MaxPrograms
    /\ seen \in SUBSET Messages
    /\ paced \in Paces

PortInit ==
    /\ content = [i \in Index |-> Zero]
    /\ length = 0
    /\ message = [i \in Index |-> Zero]
    /\ step = [SENSOR |-> "idle", ENODE |-> "idle"]
    /\ len = 0
    /\ at = [SENSOR |-> 1, ENODE |-> 1]
    /\ sent = 0
    /\ programs = 0
    /\ seen = {}
    /\ paced \in Paces

\* No thread uses the port and nothing is in it
Quiet == step = [SENSOR |-> "idle", ENODE |-> "idle"] /\ length = 0

-----------------------------------------------------------------------------
(* The receive interrupt.  halt() is never called on this port.            *)

pullI2c(size) ==
    /\ sent < MaxMessages
    /\ paced => Quiet
    /\ sent' = sent + 1
    /\ content' = [i \in Index |-> IF i <= size
                                     THEN [msg |-> sent + 1, size |-> size]
                                     ELSE content[i]]
    /\ length' = size
    /\ UNCHANGED <<message, step, len, at, programs, seen, paced>>

-----------------------------------------------------------------------------
(* resetbuffer(): memset, then _length = 0                                 *)

ClearByte(t) ==
    /\ step[t] = "clear"
    /\ content' = [content EXCEPT ![at[t]] = Zero]
    /\ IF at[t] < BufLen
         THEN at' = [at EXCEPT ![t] = @ + 1] /\ UNCHANGED step
         ELSE /\ at' = [at EXCEPT ![t] = 1]
              /\ step' = [step EXCEPT ![t] = "reset"]
    /\ UNCHANGED <<length, message, len, sent, programs, seen, paced>>

\* Mutant: resetbuffer forgets _length
ResetLengthKept(t) ==
    /\ step[t] = "reset"
    /\ step' = [step EXCEPT ![t] = IF t = "SENSOR" THEN "deliver" ELSE "idle"]
    /\ UNCHANGED <<content, length, message, len, at, sent, programs,
                   seen, paced>>

ResetLength(t) ==
    /\ step[t] = "reset"
    /\ length' = 0
    /\ step' = [step EXCEPT ![t] = IF t = "SENSOR" THEN "deliver" ELSE "idle"]
    /\ UNCHANGED <<content, message, len, at, sent, programs, seen,
                   paced>>

-----------------------------------------------------------------------------
(* The SENSOR thread: isTriggered(), then fill(message, MsgLen)            *)

\* Mutant: the bound is off by one, and a refused message is reset
ReadLengthStrict ==
    /\ step.SENSOR = "idle"
    /\ length > 0
    /\ len' = IF length >= MsgLen THEN 0 ELSE length
    /\ step' = [step EXCEPT !.SENSOR = IF length >= MsgLen THEN "clear"
                                                           ELSE "length"]
    /\ UNCHANGED <<content, length, message, at, sent, programs, seen,
                   paced>>

\* A longer message than MsgLen is refused and stays in the port
ReadLength ==
    /\ step.SENSOR = "idle"
    /\ length > 0
    /\ length <= MsgLen
    /\ len' = length
    /\ step' = [step EXCEPT !.SENSOR = "length"]
    /\ UNCHANGED <<content, length, message, at, sent, programs, seen,
                   paced>>

\* Mutant: t_len is not bounded
UseLengthUnbounded ==
    /\ step.SENSOR = "length"
    /\ \/ /\ length = 0
          /\ step' = [step EXCEPT !.SENSOR = "idle"]
          /\ len' = 0
       \/ \E read \in {len, length} :
             /\ len' = read
             /\ step' = [step EXCEPT !.SENSOR = IF read = 0 THEN "clear"
                                                           ELSE "copy"]
    /\ UNCHANGED <<content, length, message, at, sent, programs, seen,
                   paced>>

\* _length is not volatile: the compiler may keep the value compared with
\* maxlen, or read it again for the test with zero, which ends fill(), and once
\* more for t_len: it copies nothing when that is zero, and resets the port.
UseLength ==
    /\ step.SENSOR = "length"
    /\ \/ /\ length = 0
          /\ step' = [step EXCEPT !.SENSOR = "idle"]
          /\ len' = 0
       \/ \E read \in {len, length} :
             /\ len' = IF read > MsgLen THEN MsgLen ELSE read
             /\ step' = [step EXCEPT !.SENSOR = IF read = 0 THEN "clear"
                                                           ELSE "copy"]
    /\ UNCHANGED <<content, length, message, at, sent, programs, seen,
                   paced>>

\* Mutant: fill() does not reset the port
CopyByteOnly ==
    /\ step.SENSOR = "copy"
    /\ message' = [message EXCEPT ![at.SENSOR] = content[at.SENSOR]]
    /\ IF at.SENSOR < len
         THEN at' = [at EXCEPT !.SENSOR = @ + 1] /\ UNCHANGED step
         ELSE /\ at' = [at EXCEPT !.SENSOR = 1]
              /\ step' = [step EXCEPT !.SENSOR = "deliver"]
    /\ UNCHANGED <<content, length, len, sent, programs, seen, paced>>

\* memcpy
CopyByte ==
    /\ step.SENSOR = "copy"
    /\ message' = [message EXCEPT ![at.SENSOR] = content[at.SENSOR]]
    /\ IF at.SENSOR < len
         THEN at' = [at EXCEPT !.SENSOR = @ + 1] /\ UNCHANGED step
         ELSE /\ at' = [at EXCEPT !.SENSOR = 1]
              /\ step' = [step EXCEPT !.SENSOR = "clear"]
    /\ UNCHANGED <<content, length, len, sent, programs, seen, paced>>

\* The bytes fill() returned, and the messages they come from
Filled == {message[i] : i \in 1..len}
From == {b.msg : b \in Filled \ {Zero}}

\* trigger() reads the message where it copied it and is done with it.  If
\* fill() copied nothing it does nothing.
Deliver ==
    /\ step.SENSOR = "deliver"
    /\ seen' = seen \cup From
    /\ step' = [step EXCEPT !.SENSOR = "idle"]
    /\ UNCHANGED <<content, length, message, len, at, sent, programs,
                   paced>>

-----------------------------------------------------------------------------
(* The ENODE thread.  The bootloader of the node has been told to leave    *)
(* programming mode, so the new program runs, before programNode returns   *)
(* and beginProgram flushes the port.  The program before it fell silent   *)
(* when the node was reset, more than a second earlier.                    *)

ProgramStarts ==
    /\ step.ENODE = "idle"
    /\ programs < MaxPrograms
    /\ paced => Quiet
    /\ programs' = programs + 1
    /\ step' = [step EXCEPT !.ENODE = "begin"]
    /\ UNCHANGED <<content, length, message, len, at, sent, seen, paced>>

\* flushInput(): the buffer of the Wire library, which pullI2c leaves empty,
\* then resetbuffer()
flushInput ==
    /\ step.ENODE = "begin"
    /\ step' = [step EXCEPT !.ENODE = "clear"]
    /\ UNCHANGED <<content, length, message, len, at, sent, programs,
                   seen, paced>>

-----------------------------------------------------------------------------
Interrupt == \E size \in Lengths : pullI2c(size)

Sensor == \/ ReadLength
          \/ UseLength
          \/ CopyByte
          \/ ClearByte("SENSOR")
          \/ ResetLength("SENSOR")
          \/ Deliver

Enode == \/ ProgramStarts
         \/ flushInput
         \/ ClearByte("ENODE")
         \/ ResetLength("ENODE")

PortNext == Interrupt \/ Sensor \/ Enode

PortSpec == PortInit /\ [][PortNext]_portVars

-----------------------------------------------------------------------------
\* Whatever the interrupt and the flush do meanwhile, each copy fill() makes
\* only has bytes of messages newer than all those of the copies before it: a
\* message is never acted on twice, and never after a later one.
NeverBackwards ==
    step.SENSOR = "deliver" => \A m \in From, n \in seen : m > n

\* fill() returns one message, whole.
DeliveredWhole ==
    step.SENSOR = "deliver" =>
        \E m \in Messages : \A i \in 1..len :
            message[i] = [msg |-> m, size |-> len]

\* It does if the node leaves the master the time to take each message,
PacedIsWhole == paced => DeliveredWhole

\* and once the port is quiet, every message that was sent has been delivered.
PacedIsDelivered == paced /\ Quiet => seen = 1..sent
=============================================================================
