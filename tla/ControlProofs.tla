--------------------------- MODULE ControlProofs ---------------------------
(* Theorems about Control, for every number of slots and of keys, and for  *)
(* every environment: whatever the host sends, whichever SD operations     *)
(* fail and whenever the power does.                                       *)
EXTENDS Control, TLAPS

-----------------------------------------------------------------------------
(* The table operators                                                     *)

LEMMA KeysNotEmpty == 0 \in Keys /\ FileIdMax \notin Keys
BY FileIdMaxAssumption DEF Keys

LEMMA SlotsNotEmpty == 1 \in Slots
BY NumSlotsAssumption DEF Slots

LEMMA NextKeyType == \A k \in Keys : NextKey(k) \in Keys
BY FileIdMaxAssumption DEF Keys, NextKey

LEMMA BlankTableType == \A k \in Keys : BlankTable(k) \in Tables
BY DEF BlankTable, Tables, PgmSlots, FileIds, ProgramId, PgmStates

LEMMA ResumedStateType ==
    \A state \in PgmStates :
        /\ ResumedState(state) \in PgmStates
        /\ ResumedState(state) # "RUNNING"
BY DEF PgmStates, ResumedState

LEMMA ResumedType == \A table \in Tables : Resumed(table) \in Tables
BY ResumedStateType DEF Tables, PgmSlots, Resumed

\* What a restart loads contains no running program.
LEMMA ResumedNotRunning ==
    \A table \in Tables : InState(Resumed(table), "RUNNING") = {}
BY ResumedStateType DEF Tables, PgmSlots, Resumed, InState

LEMMA LocalsType ==
    /\ NoSum \in Sums
    /\ BlankImage \in Images
    /\ ShortFile \in ConfigFiles
    /\ NoLocals \in Locals
<1>1. BlankTable(0) \in Tables
  BY KeysNotEmpty, BlankTableType
<1>2. NoSum \in Sums /\ BlankImage \in Images
  BY <1>1, KeysNotEmpty DEF NoSum, Sums, BlankImage, Images
<1>3. QED
  BY <1>2, KeysNotEmpty, SlotsNotEmpty
  DEF ShortFile, ConfigFiles, NoLocals, Locals, FileIds, ProgramId

\* What a proof about one slot or one thread needs of the types.
LEMMA Typed ==
    ASSUME TypeOK
    PROVE  /\ fsKey \in Nat /\ FileIdMax \in Nat
           /\ \A s \in Slots : slots[s] \in PgmSlots /\ slots[s].id.key \in Nat
           /\ \A t \in Threads : op[t] \in Locals /\ op[t].at \in Slots
           /\ \A t \in Threads : op[t].id \in FileIds /\ op[t].id.key \in Nat
           /\ Slots \subseteq Nat /\ 1 \in Slots
BY FileIdMaxAssumption, NumSlotsAssumption
DEF TypeOK, Keys, Slots, Tables, PgmSlots, FileIds, Locals

LEMMA GotoType ==
    ASSUME PcTypeOK, NEW t \in Threads, NEW step \in Steps[t], Goto(t, step)
    PROVE  PcTypeOK'
BY DEF PcTypeOK, Goto

LEMMA SharedSteps ==
    /\ \A t \in Threads : SaveSteps \subseteq Steps[t]
    /\ \A t \in {"ENODE", "SENSOR"} : EndSteps \cup {"idle"} \subseteq Steps[t]
    /\ {"idle", "create", "hooked"} \subseteq Steps["IDE"]
    /\ {"idle", "popScan", "popTake", "getSize", "lockBuffer", "program",
        "beginScan", "beginRun"} \subseteq Steps["ENODE"]
BY DEF Steps, Threads

LEMMA RecordType ==
    ASSUME NEW k \in Keys, NEW event \in {"new", "started", "ended", "exposed"},
           fate \in [Keys -> {"new", "started", "ended", "exposed"}],
           Record(k, event)
    PROVE  fate' \in [Keys -> {"new", "started", "ended", "exposed"}]
BY DEF Record

-----------------------------------------------------------------------------
(* Type correctness: one lemma for each thread, then the theorem           *)

LEMMA InitType == Init => TypeOK
<1> SUFFICES ASSUME Init PROVE TypeOK
  OBVIOUS
<1>1. slots \in Tables /\ pgmKey \in Keys /\ fsKey \in Keys
  BY KeysNotEmpty, BlankTableType DEF Init
<1>2. ideFile \in FileIds
  BY KeysNotEmpty DEF Init, ProgramId, FileIds
<1>3. PcTypeOK
  BY DEF Init, ResetPc, Threads, Steps, PcTypeOK
<1>4. QED
  BY <1>1, <1>2, <1>3, LocalsType DEF Init, TypeOK

LEMMA PowerLossType == TypeOK /\ PowerLoss => TypeOK'
<1> SUFFICES ASSUME TypeOK, PowerLoss PROVE TypeOK'
  OBVIOUS
<1>1. slots' \in Tables /\ pgmKey' \in Keys /\ fsKey' \in Keys
  BY KeysNotEmpty, BlankTableType DEF PowerLoss
<1>2. ideFile' \in FileIds
  BY KeysNotEmpty DEF PowerLoss, ProgramId, FileIds
<1>3. PcTypeOK'
  BY DEF PowerLoss, ResetPc, Threads, Steps, PcTypeOK
<1>4. QED
  BY <1>1, <1>2, <1>3, LocalsType DEF PowerLoss, TypeOK

LEMMA SaveStateType ==
    ASSUME TypeOK, NEW t \in Threads, SaveState(t)
    PROVE  TypeOK'
<1> USE SharedSteps DEF SaveSteps
<1>1. ASSUME NEW ok \in Outcomes, SaveCreate(t, ok) PROVE TypeOK'
  <2>1. PcTypeOK'
    BY <1>1, GotoType DEF SaveCreate, TypeOK
  <2>2. QED
    BY <1>1, <2>1, LocalsType DEF SaveCreate, TypeOK
<1>2. CASE SaveKey(t)
  <2>1. PcTypeOK'
    BY <1>2, GotoType DEF SaveKey, TypeOK
  <2>2. QED
    BY <1>2, <2>1 DEF SaveKey, TypeOK
<1>3. CASE SaveSum(t)
  <2>1. PcTypeOK'
    BY <1>3, GotoType DEF SaveSum, TypeOK
  <2>2. MemoryImage \in Sums
    BY DEF TypeOK, MemoryImage, Sums, Images
  <2>3. op' \in [Threads -> Locals]
    BY <1>3, <2>2 DEF SaveSum, TypeOK, Locals
  <2>4. QED
    BY <1>3, <2>1, <2>3 DEF SaveSum, TypeOK
<1>4. CASE SaveCrc(t)
  <2>1. PcTypeOK'
    BY <1>4, GotoType DEF SaveCrc, TypeOK
  <2>2. crc16' \in Sums /\ op' \in [Threads -> Locals]
    BY <1>4, LocalsType DEF SaveCrc, TypeOK, Locals
  <2>3. QED
    BY <1>4, <2>1, <2>2 DEF SaveCrc, TypeOK
<1>5. ASSUME NEW ok \in Outcomes, SaveWrite(t, ok) PROVE TypeOK'
  <2>1. PcTypeOK'
    BY <1>5, GotoType DEF SaveWrite, TypeOK
  <2>2. MemoryImage \in Images
    BY DEF TypeOK, MemoryImage, Images
  <2>3. config' \in ConfigFiles
    <3>1. CASE ok
      <4>1. config' = [full |-> TRUE, image |-> MemoryImage, crc |-> crc16]
        BY <1>5, <3>1 DEF SaveWrite
      <4>2. QED
        BY <2>2, <4>1 DEF TypeOK, ConfigFiles
    <3>2. CASE ~ok
      <4>1. config' \in {config, [config EXCEPT !.crc = NoSum]}
        BY <1>5, <3>2 DEF SaveWrite
      <4>2. QED
        BY <4>1, LocalsType DEF TypeOK, ConfigFiles
    <3>3. QED
      BY <3>1, <3>2
  <2>4. fate' \in [Keys -> {"new", "started", "ended", "exposed"}]
    BY <1>5 DEF SaveWrite, RecordSaved, TypeOK
  <2>5. QED
    BY <1>5, <2>1, <2>3, <2>4 DEF SaveWrite, TypeOK
<1>6. QED
  BY <1>1, <1>2, <1>3, <1>4, <1>5 DEF SaveState

LEMMA MainType == TypeOK /\ Main => TypeOK'
<1> SUFFICES ASSUME TypeOK, Main PROVE TypeOK'
  OBVIOUS
<1>1. ASSUME NEW ok \in Outcomes, Start(ok) PROVE TypeOK'
  <2>1. PcTypeOK'
    BY <1>1, GotoType, SharedSteps DEF Start, TypeOK, Threads, SaveSteps
  <2>2. PICK image \in Images : Load(image)
    BY <1>1, LocalsType DEF Start, TypeOK, ConfigFiles
  <2>3. /\ slots' \in Tables
        /\ pgmKey' \in Keys /\ fsKey' \in Keys
        /\ fate' \in [Keys -> {"new", "started", "ended", "exposed"}]
    BY <2>2, ResumedType DEF Load, Images, TypeOK
  <2>4. crc16' \in Sums
    BY <1>1 DEF Start, TypeOK, ConfigFiles
  <2>5. QED
    BY <1>1, <2>1, <2>3, <2>4 DEF Start, TypeOK
<1>2. CASE SaveState("MAIN")
  BY <1>2, SaveStateType DEF Threads
<1>3. CASE StartDone
  <2>1. PcTypeOK'
    BY <1>3 DEF StartDone, PcTypeOK, Threads, Steps
  <2>2. QED
    BY <1>3, <2>1 DEF StartDone, TypeOK
<1>4. QED
  BY <1>1, <1>2, <1>3 DEF Main

LEMMA IdeType == TypeOK /\ Ide => TypeOK'
<1> SUFFICES ASSUME TypeOK, Ide PROVE TypeOK'
  OBVIOUS
<1> USE SharedSteps DEF Threads, SaveSteps
<1>1. CASE EnterProgmode
  <2> DEFINE key == NextKey(fsKey)
  <2>1. key \in Keys
    BY NextKeyType DEF TypeOK
  <2>2. PcTypeOK'
    BY <1>1, GotoType DEF EnterProgmode, TypeOK
  <2>3. ideFile' \in FileIds
    BY <1>1, <2>1 DEF EnterProgmode, FileIds, ID2DAT, ProgramId
  <2>4. fate' \in [Keys -> {"new", "started", "ended", "exposed"}]
    BY <1>1, <2>1, RecordType DEF EnterProgmode, TypeOK
  <2>5. buffer' \in {Free, "MAIN", "IDE", "ENODE"}
    BY <1>1 DEF EnterProgmode, LockedBuffer, TypeOK
  <2>6. fsKey' \in Keys /\ hexFiles' \in SUBSET Keys
    BY <1>1, <2>1 DEF EnterProgmode, TypeOK
  <2>7. QED
    BY <1>1, <2>2, <2>3, <2>4, <2>5, <2>6 DEF EnterProgmode, TypeOK
<1>2. ASSUME NEW ok \in Outcomes, CreateProgram(ok) PROVE TypeOK'
  <2>1. PcTypeOK'
    BY <1>2, GotoType DEF CreateProgram, TypeOK
  <2>2. ideFile' \in FileIds
    BY <1>2 DEF CreateProgram, TypeOK, FileIds, ID2DAT
  <2>3. QED
    BY <1>2, <2>1, <2>2 DEF CreateProgram, TypeOK
<1>3. ASSUME NEW written \in BOOLEAN, ProgPage(written) PROVE TypeOK'
  BY <1>3 DEF ProgPage, TypeOK, PcTypeOK, ID2PGM, FileIds
<1>4. CASE LeaveProgmode
  <2>1. PcTypeOK'
    BY <1>4, GotoType DEF LeaveProgmode, CloseProgram, PushProgram, TypeOK
  <2>2. [id |-> ideFile, state |-> "READY_FOR_UPLOAD"] \in PgmSlots
    BY DEF TypeOK, PgmSlots, PgmStates
  <2>3. slots' \in Tables
    BY <1>4, <2>2 DEF LeaveProgmode, CloseProgram, PushProgram, TypeOK, Tables
  <2>4. QED
    BY <1>4, <2>1, <2>3 DEF LeaveProgmode, CloseProgram, PushProgram, TypeOK
<1>5. CASE SaveState("IDE")
  BY <1>5, SaveStateType
<1>6. CASE IdeDone
  <2>1. PcTypeOK'
    BY <1>6, GotoType DEF IdeDone, TypeOK
  <2>2. QED
    BY <1>6, <2>1 DEF IdeDone, TypeOK
<1>7. QED
  BY <1>1, <1>2, <1>3, <1>4, <1>5, <1>6 DEF Ide

LEMMA EndProgramType ==
    ASSUME TypeOK, NEW t \in {"ENODE", "SENSOR"}, EndProgram(t)
    PROVE  TypeOK'
<1> USE SharedSteps DEF EndSteps, SaveSteps
<1>1. t \in Threads
  BY DEF Threads
<1>2. op[t] \in Locals /\ op[t].id \in FileIds /\ op[t].at \in Slots
  BY <1>1 DEF TypeOK, Locals
<1>3. CASE EndCheck(t)
  <2>1. PcTypeOK'
    <3>1. CASE UNCHANGED pc
      BY <3>1 DEF TypeOK, PcTypeOK
    <3>2. CASE Goto(t, "endFree") \/ Goto(t, "saveCreate")
      BY <1>1, <3>2, GotoType DEF TypeOK
    <3>3. QED
      BY <1>3, <3>1, <3>2 DEF EndCheck
  <2>2. op' \in [Threads -> Locals]
    BY <1>1, <1>3 DEF EndCheck, TypeOK, Locals
  <2>3. QED
    BY <1>3, <2>1, <2>2 DEF EndCheck, TypeOK
<1>4. CASE EndFree(t)
  <2>1. PcTypeOK'
    BY <1>1, <1>4, GotoType DEF EndFree, TypeOK
  <2>2. op' \in [Threads -> Locals]
    BY <1>1, <1>4 DEF EndFree, TypeOK, Locals
  <2>3. slots' \in Tables
    BY <1>2, <1>4 DEF EndFree, TypeOK, Tables, PgmSlots, PgmStates
  <2>4. QED
    BY <1>4, <2>1, <2>2, <2>3 DEF EndFree, TypeOK
<1>5. QED
  BY <1>3, <1>4 DEF EndProgram

LEMMA TriggerDoneType ==
    ASSUME TypeOK, NEW t \in {"ENODE", "SENSOR"}, TriggerDone(t)
    PROVE  TypeOK'
<1>1. t \in Threads
  BY DEF Threads
<1>2. PcTypeOK'
  BY <1>1, GotoType, SharedSteps DEF TriggerDone, TypeOK
<1>3. op' \in [Threads -> Locals]
  BY <1>1, LocalsType DEF TriggerDone, TypeOK
<1>4. QED
  BY <1>2, <1>3 DEF TriggerDone, TypeOK

LEMMA EnodeType == TypeOK /\ Enode => TypeOK'
<1> SUFFICES ASSUME TypeOK, Enode PROVE TypeOK'
  OBVIOUS
<1> USE SharedSteps DEF Threads, SaveSteps, EndSteps
<1>0. op["ENODE"] \in Locals /\ op["ENODE"].id \in FileIds
      /\ op["ENODE"].at \in Slots
  BY DEF TypeOK, Locals
<1>1. CASE HasProgram
  <2>1. PcTypeOK'
    BY <1>1, GotoType DEF HasProgram, TypeOK
  <2>2. QED
    BY <1>1, <2>1 DEF HasProgram, TypeOK
<1>2. CASE PopScan
  <2>1. PcTypeOK'
    BY <1>2, GotoType DEF PopScan, TypeOK
  <2>2. op' \in [Threads -> Locals]
    BY <1>2 DEF PopScan, TypeOK, Locals
  <2>3. QED
    BY <1>2, <2>1, <2>2 DEF PopScan, TypeOK
<1>3. CASE PopTake
  <2>1. PcTypeOK'
    BY <1>3, GotoType DEF PopTake, TypeOK
  <2>2. slots' \in Tables
    BY <1>0, <1>3 DEF PopTake, TypeOK, Tables, PgmSlots, PgmStates
  <2>3. slots[op["ENODE"].at].id \in FileIds
    BY <1>0 DEF TypeOK, Tables, PgmSlots
  <2>4. op' \in [Threads -> Locals]
    BY <1>3, <2>3 DEF PopTake, TypeOK, Locals
  <2>5. QED
    BY <1>3, <2>1, <2>2, <2>4 DEF PopTake, TypeOK
<1>4. ASSUME NEW ok \in Outcomes, GetSize(ok) PROVE TypeOK'
  <2>1. PcTypeOK'
    BY <1>4, GotoType DEF GetSize, TypeOK
  <2>2. op' \in [Threads -> Locals]
    BY <1>4, LocalsType DEF GetSize, TypeOK
  <2>3. QED
    BY <1>4, <2>1, <2>2 DEF GetSize, TypeOK
<1>5. CASE LockBuffer
  <2>1. PcTypeOK'
    BY <1>5, GotoType DEF LockBuffer, TypeOK
  <2>2. QED
    BY <1>5, <2>1 DEF LockBuffer, TypeOK
<1>6. ASSUME NEW ok \in BOOLEAN, ProgramNode(ok) PROVE TypeOK'
  <2>1. PcTypeOK'
    BY <1>6, GotoType DEF ProgramNode, TypeOK
  <2>2. op' \in [Threads -> Locals]
    BY <1>6, SlotsNotEmpty DEF ProgramNode, TypeOK, Locals
  <2>3. QED
    BY <1>6, <2>1, <2>2 DEF ProgramNode, TypeOK
<1>7. CASE BeginScan
  <2>1. PcTypeOK'
    BY <1>7, GotoType DEF BeginScan, TypeOK
  <2>2. op' \in [Threads -> Locals]
    BY <1>7, LocalsType DEF BeginScan, TypeOK, Locals
  <2>3. QED
    BY <1>7, <2>1, <2>2 DEF BeginScan, TypeOK
<1>8. CASE BeginRun
  <2>1. PcTypeOK'
    BY <1>8, GotoType DEF BeginRun, TypeOK
  <2>2. slots' \in Tables
    BY <1>0, <1>8 DEF BeginRun, TypeOK, Tables, PgmSlots, PgmStates
  <2>3. QED
    BY <1>8, <2>1, <2>2 DEF BeginRun, TypeOK
<1>9. CASE EndProgram("ENODE") \/ SaveState("ENODE") \/ TriggerDone("ENODE")
  BY <1>9, EndProgramType, SaveStateType, TriggerDoneType
<1>10. QED
  BY <1>1, <1>2, <1>3, <1>4, <1>5, <1>6, <1>7, <1>8, <1>9 DEF Enode

LEMMA SensorType == TypeOK /\ Sensor => TypeOK'
<1> SUFFICES ASSUME TypeOK, Sensor PROVE TypeOK'
  OBVIOUS
<1>1. CASE EndingMessage
  <2>1. PcTypeOK'
    BY <1>1, GotoType, SharedSteps
    DEF EndingMessage, TypeOK, Threads, EndSteps
  <2>2. PICK id \in FileIds :
               op' = [op EXCEPT !["SENSOR"] =
                          [id |-> id, at |-> 1, sum |-> NoSum]]
    BY <1>1 DEF EndingMessage
  <2>3. [id |-> id, at |-> 1, sum |-> NoSum] \in Locals
    BY LocalsType, SlotsNotEmpty DEF Locals
  <2>4. op' \in [Threads -> Locals]
    BY <2>2, <2>3 DEF TypeOK
  <2>5. QED
    BY <1>1, <2>1, <2>4 DEF EndingMessage, TypeOK
<1>2. CASE EndProgram("SENSOR") \/ SaveState("SENSOR") \/ TriggerDone("SENSOR")
  BY <1>2, EndProgramType, SaveStateType, TriggerDoneType DEF Threads
<1>3. QED
  BY <1>1, <1>2 DEF Sensor

\* Every variable keeps its type, for every environment and every size.
THEOREM TypeCorrect == Spec => []TypeOK
<1>1. TypeOK /\ [Next]_vars => TypeOK'
  <2> SUFFICES ASSUME TypeOK, [Next]_vars PROVE TypeOK'
    OBVIOUS
  <2>1. CASE Next
    BY <2>1, MainType, IdeType, EnodeType, SensorType, PowerLossType DEF Next
  <2>2. CASE UNCHANGED vars
    BY <2>2 DEF vars, TypeOK, PcTypeOK
  <2>3. QED
    BY <2>1, <2>2
<1>2. QED
  BY InitType, <1>1, PTL DEF Spec

-----------------------------------------------------------------------------
(* At most one program runs.  The invariant is inductive once it says why: *)
(* from the moment hasProgram has found nothing running to the moment      *)
(* beginProgram makes its slot RUNNING, no slot is.                        *)

\* No slot is RUNNING while the ENODE thread has a program in hand
UploadExclusive ==
    pc["ENODE"] \in {"popScan", "popTake", "getSize", "lockBuffer", "program",
                     "beginScan", "beginRun"}
        => InState(slots, "RUNNING") = {}

RunningInv == TypeOK /\ UploadExclusive /\ AtMostOneRunning

\* A step that makes no slot RUNNING and puts no program in the ENODE thread's
\* hands keeps the invariant.
LEMMA QuietStep ==
    ASSUME RunningInv, TypeOK',
           InState(slots, "RUNNING")' \subseteq InState(slots, "RUNNING"),
           pc'["ENODE"] = pc["ENODE"] \/
               pc'["ENODE"] \notin {"popScan", "popTake", "getSize",
                                    "lockBuffer", "program", "beginScan",
                                    "beginRun"} \/
               InState(slots, "RUNNING") = {}
    PROVE  RunningInv'
BY DEF RunningInv, UploadExclusive, AtMostOneRunning, InState

\* Only beginProgram makes a slot RUNNING: no other write of a slot does.
LEMMA WriteNotRunning ==
    ASSUME slots \in Tables, NEW s \in Slots, NEW new \in PgmSlots,
           new.state # "RUNNING", slots' = [slots EXCEPT ![s] = new]
    PROVE  InState(slots, "RUNNING")' \subseteq InState(slots, "RUNNING")
BY DEF Tables, InState

LEMMA EnodeInHand ==
    ASSUME RunningInv,
           pc["ENODE"] \in {"popScan", "popTake", "getSize", "lockBuffer",
                            "program", "beginScan", "beginRun"}
    PROVE  InState(slots, "RUNNING") = {}
BY DEF RunningInv, UploadExclusive

LEMMA SaveStateRunning ==
    ASSUME RunningInv, TypeOK', NEW t \in Threads, SaveState(t)
    PROVE  RunningInv'
<1>1. slots' = slots
  BY DEF SaveState, SaveCreate, SaveKey, SaveSum, SaveCrc, SaveWrite
<1>2. pc'["ENODE"] = pc["ENODE"] \/ pc'["ENODE"] \in SaveSteps
  BY DEF SaveState, SaveCreate, SaveKey, SaveSum, SaveCrc, SaveWrite, Goto,
         RunningInv, TypeOK, PcTypeOK, SaveSteps, Threads
<1>3. QED
  BY <1>1, <1>2, QuietStep DEF SaveSteps

LEMMA EndProgramRunning ==
    ASSUME RunningInv, TypeOK', NEW t \in {"ENODE", "SENSOR"}, EndProgram(t)
    PROVE  RunningInv'
<1>1. InState(slots, "RUNNING")' \subseteq InState(slots, "RUNNING")
  BY DEF EndProgram, EndCheck, EndFree, RunningInv, TypeOK, Tables, InState
<1>2. pc'["ENODE"] = pc["ENODE"] \/ pc'["ENODE"] \in EndSteps \cup SaveSteps
  BY DEF EndProgram, EndCheck, EndFree, Goto, RunningInv, TypeOK, PcTypeOK,
         EndSteps, SaveSteps, Threads
<1>3. QED
  BY <1>1, <1>2, QuietStep DEF EndSteps, SaveSteps

LEMMA EnodeRunning ==
    ASSUME RunningInv, TypeOK', Enode
    PROVE  RunningInv'
<1> DEFINE hand == {"popScan", "popTake", "getSize", "lockBuffer", "program",
                    "beginScan", "beginRun"}
<1>1. CASE HasProgram
  BY <1>1, QuietStep DEF HasProgram
<1>2. CASE BeginRun
  <2>1. InState(slots, "RUNNING") = {}
    BY <1>2, EnodeInHand DEF BeginRun, At
  <2>2. AtMostOneRunning'
    BY <1>2, <2>1 DEF BeginRun, AtMostOneRunning, InState, RunningInv, TypeOK,
                      Tables
  <2>3. pc'["ENODE"] = "saveCreate"
    BY <1>2 DEF BeginRun, Goto, RunningInv, TypeOK, PcTypeOK, Threads
  <2>4. QED
    BY <2>2, <2>3 DEF RunningInv, UploadExclusive
<1>3. CASE PopTake
  <2>1. InState(slots, "RUNNING") = {}
    BY <1>3, EnodeInHand DEF PopTake, At
  <2>2. InState(slots, "RUNNING")' \subseteq InState(slots, "RUNNING")
    BY <1>3 DEF PopTake, InState, RunningInv, TypeOK, Tables
  <2>3. QED
    BY <2>1, <2>2, QuietStep
<1>4. CASE PopScan \/ LockBuffer \/ BeginScan
           \/ (\E ok \in Outcomes : GetSize(ok))
           \/ (\E ok \in BOOLEAN : ProgramNode(ok))
  <2>1. slots' = slots /\ pc["ENODE"] \in hand
    BY <1>4 DEF PopScan, LockBuffer, BeginScan, GetSize, ProgramNode, At
  <2>2. QED
    BY <2>1, EnodeInHand, QuietStep
<1>5. CASE TriggerDone("ENODE")
  <2>1. slots' = slots /\ pc'["ENODE"] = "idle"
    BY <1>5 DEF TriggerDone, Goto, RunningInv, TypeOK, PcTypeOK, Threads
  <2>2. QED
    BY <2>1, QuietStep
<1>6. CASE EndProgram("ENODE") \/ SaveState("ENODE")
  BY <1>6, EndProgramRunning, SaveStateRunning DEF Threads
<1>7. QED
  BY <1>1, <1>2, <1>3, <1>4, <1>5, <1>6 DEF Enode

LEMMA MainRunning ==
    ASSUME RunningInv, TypeOK', Main
    PROVE  RunningInv'
<1>1. ASSUME NEW ok \in Outcomes, Start(ok) PROVE RunningInv'
  <2>1. PICK image \in Images : Load(image)
    BY <1>1, LocalsType DEF Start, RunningInv, TypeOK, ConfigFiles
  <2>2. InState(slots, "RUNNING")' = {}
    BY <2>1, ResumedNotRunning DEF Load, Images, InState
  <2>3. QED
    BY <2>2 DEF RunningInv, UploadExclusive, AtMostOneRunning, InState
<1>2. CASE SaveState("MAIN")
  BY <1>2, SaveStateRunning DEF Threads
<1>3. CASE StartDone
  <2>1. slots' = slots /\ pc'["ENODE"] = "idle"
    BY <1>3 DEF StartDone, Threads
  <2>2. QED
    BY <2>1, QuietStep
<1>4. QED
  BY <1>1, <1>2, <1>3 DEF Main

LEMMA IdeRunning ==
    ASSUME RunningInv, TypeOK', Ide
    PROVE  RunningInv'
<1> USE DEF RunningInv, TypeOK, PcTypeOK, Threads
<1>1. ASSUME NEW ok \in BOOLEAN, EnterProgmode \/ CreateProgram(ok) \/ ProgPage(ok)
      PROVE  RunningInv'
  <2>1. slots' = slots /\ pc'["ENODE"] = pc["ENODE"]
    BY <1>1 DEF EnterProgmode, CreateProgram, ProgPage, Goto
  <2>2. QED
    BY <2>1, QuietStep
<1>2. CASE LeaveProgmode
  <2>1. pc'["ENODE"] = pc["ENODE"]
    BY <1>2 DEF LeaveProgmode, CloseProgram, PushProgram, Goto
  <2>2. InState(slots, "RUNNING")' \subseteq InState(slots, "RUNNING")
    <3> DEFINE new == [id |-> ideFile, state |-> "READY_FOR_UPLOAD"]
    <3>1. \/ slots' = slots
          \/ \E s \in Slots : slots' = [slots EXCEPT ![s] = new]
      BY <1>2 DEF LeaveProgmode, CloseProgram, PushProgram
    <3>2. new \in PgmSlots /\ new.state # "RUNNING"
      BY DEF PgmSlots, PgmStates
    <3>3. QED
      BY <3>1, <3>2, WriteNotRunning
  <2>3. QED
    BY <2>1, <2>2, QuietStep
<1>3. CASE IdeDone
  <2>1. slots' = slots /\ pc'["ENODE"] = pc["ENODE"]
    BY <1>3 DEF IdeDone, Goto
  <2>2. QED
    BY <2>1, QuietStep
<1>4. CASE SaveState("IDE")
  BY <1>4, SaveStateRunning
<1>5. QED
  BY <1>1, <1>2, <1>3, <1>4 DEF Ide, Outcomes

LEMMA SensorRunning ==
    ASSUME RunningInv, TypeOK', Sensor
    PROVE  RunningInv'
<1>1. CASE EndingMessage \/ TriggerDone("SENSOR")
  <2>1. slots' = slots /\ pc'["ENODE"] = pc["ENODE"]
    BY <1>1 DEF EndingMessage, TriggerDone, Goto, RunningInv, TypeOK, PcTypeOK,
                Threads
  <2>2. QED
    BY <2>1, QuietStep
<1>2. CASE EndProgram("SENSOR") \/ SaveState("SENSOR")
  BY <1>2, EndProgramRunning, SaveStateRunning DEF Threads
<1>3. QED
  BY <1>1, <1>2 DEF Sensor

\* The inductive invariant behind OneRunning.
THEOREM RunningInvariant == Spec => []RunningInv
<1>1. Init => RunningInv
  <2> SUFFICES ASSUME Init PROVE RunningInv
    OBVIOUS
  <2>1. InState(slots, "RUNNING") = {}
    BY DEF Init, InState, BlankTable
  <2>2. QED
    BY <2>1, InitType DEF RunningInv, UploadExclusive, AtMostOneRunning, InState
<1>2. RunningInv /\ [Next]_vars => RunningInv'
  <2> SUFFICES ASSUME RunningInv, [Next]_vars PROVE RunningInv'
    OBVIOUS
  <2>1. CASE Main
    BY <2>1, MainType, MainRunning DEF RunningInv
  <2>2. CASE Ide
    BY <2>2, IdeType, IdeRunning DEF RunningInv
  <2>3. CASE Enode
    BY <2>3, EnodeType, EnodeRunning DEF RunningInv
  <2>4. CASE Sensor
    BY <2>4, SensorType, SensorRunning DEF RunningInv
  <2>5. CASE PowerLoss
    <3>1. TypeOK' /\ InState(slots, "RUNNING")' = {}
      BY <2>5, PowerLossType DEF RunningInv, PowerLoss, InState, BlankTable
    <3>2. QED
      BY <3>1 DEF RunningInv, UploadExclusive, AtMostOneRunning, InState
  <2>6. CASE UNCHANGED vars
    BY <2>6 DEF vars, RunningInv, TypeOK, PcTypeOK, UploadExclusive,
                AtMostOneRunning, InState
  <2>7. QED
    BY <2>1, <2>2, <2>3, <2>4, <2>5, <2>6 DEF Next
<1>3. QED
  BY <1>1, <1>2, PTL DEF Spec

\* At most one program runs on the node, whatever the host and the sensor do
\* while the ENODE thread uploads, and across power losses.
THEOREM OneRunning == Spec => []AtMostOneRunning
<1>1. RunningInv => AtMostOneRunning
  BY DEF RunningInv
<1>2. QED
  BY <1>1, RunningInvariant, PTL

-----------------------------------------------------------------------------
(* What a power loss may do to the programs: one whose end was saved does   *)
(* not come back, and one that was running is not uploaded again, whichever *)
(* SD operations fail and whatever the host sends, as long as keys do not   *)
(* wrap and the host says LEAVE once a session (OnceEach).                  *)

OnceEach == ~KeyMayWrap /\ ~HostRepeatsLeave

-----------------------------------------------------------------------------
(* The inductive invariant.  It speaks of the programs whose key is covered *)
(* by the key that was stored with them: their key names one program, so a  *)
(* scan by id frees what it means to free, although a free slot keeps its   *)
(* id and the scans ignore the state of a slot.                             *)

Covered(key) == fate[key] # "exposed"
Live == {"READY_FOR_UPLOAD", "UPLOADING", "RUNNING"}

\* No slot RUNNING from hasProgram to the end of the upload, failed or not
UploadSteps == {"getSize", "lockBuffer", "program", "beginScan", "beginRun"} \cup EndSteps
NodeIsHis ==
    pc["ENODE"] \in {"popScan", "popTake"} \cup UploadSteps => InState(slots, "RUNNING") = {}

\* Until main has started the system nobody else does anything
StartsFirst ==
    pc["MAIN"] # "done" =>
        /\ \A t \in Threads \ {"MAIN"} : pc[t] = "off"
        /\ \A t \in Threads : op[t].id.key = 0

\* The id is older than that of the program that is being received
Hooked == pc["IDE"] \in {"create", "hooked"}
OldIfCovered(id) == Covered(id.key) => id.key <= fsKey /\ (Hooked => id.key < fsKey)
KeysAreOld ==
    /\ Covered(0)
    /\ \A s \in Slots : OldIfCovered(slots[s].id)
    /\ \A t \in Threads : OldIfCovered(op[t].id)
    /\ Hooked => /\ ideFile.key = fsKey /\ fsKey # 0
                 /\ Covered(fsKey) => fate[fsKey] = "new"

\* A covered key is in one slot of a table, and a slot without a program is free
OneSlotEach(table) ==
    /\ \A r, s \in Slots :
           table[r].id.key = table[s].id.key /\ Covered(table[r].id.key)
               => r = s \/ table[r].id.key = 0
    /\ \A s \in Slots : table[s].id.key = 0 => table[s].state = "FREE"
    /\ \A s \in Slots : table[s].state # "ERROR_UPLOADING"

\* A restart from the table would not bring back what has ended or run
IsSafe(table) ==
    \A s \in Slots :
        table[s].state \in {"READY_FOR_UPLOAD", "UPLOADING"} =>
            fate[table[s].id.key] \notin {"started", "ended"}

\* The SENSOR thread frees the program that it found running and nothing else
SensorOwns ==
    LET i == op["SENSOR"].id
        at == op["SENSOR"].at
        Gone == \A s \in Slots : slots[s].id.key = i.key => slots[s].state \notin Live
    IN  Covered(i.key) =>
            /\ pc["SENSOR"] = "endFree" =>
                   slots[at] = [id |-> i, state |-> "RUNNING"]
            /\ pc["SENSOR"] = "endCheck" =>
                   \/ \E r \in Slots : r >= at /\ slots[r] = [id |-> i, state |-> "RUNNING"]
                   \/ Gone /\ \A s \in Slots : s >= at => slots[s].id.key # i.key
            /\ pc["SENSOR"] \in SaveSteps => Gone

\* The slot in the hands of the ENODE thread holds what it may upload or run
EnodeOwns ==
    LET e == op["ENODE"].id
        at == op["ENODE"].at
    IN  /\ pc["ENODE"] = "popTake" /\ Covered(slots[at].id.key) =>
               slots[at].state = "READY_FOR_UPLOAD"
        /\ pc["ENODE"] = "beginRun" /\ Covered(slots[at].id.key) =>
               slots[at].state \in {"READY_FOR_UPLOAD", "UPLOADING"}
        /\ pc["ENODE"] \in UploadSteps => e.key # 0
        /\ pc["ENODE"] = "endFree" /\ Covered(e.key) =>
               \A s \in Slots : slots[s].id.key = e.key => s = at
        /\ (pc["ENODE"] \in UploadSteps /\ pc["SENSOR"] \in EndSteps \cup SaveSteps
                /\ Covered(e.key))
               => e.key # op["SENSOR"].id.key

TablesHold ==
    /\ KeysAreOld
    /\ OneSlotEach(slots) /\ OneSlotEach(config.image.table)
    /\ IsSafe(config.image.table)
    /\ EndedStaysEnded /\ RanIsNotRepeated

PowerInv ==
    TypeOK /\ NodeIsHis /\ StartsFirst /\ TablesHold /\ SensorOwns /\ EnodeOwns

-----------------------------------------------------------------------------
(* What a step leaves alone                                                 *)

LEMMA StoredTyped ==
    ASSUME TypeOK
    PROVE  /\ config.image.table \in Tables /\ config.image.key \in Keys
           /\ \A s \in Slots : config.image.table[s] \in PgmSlots
           /\ \A p \in PgmSlots : p.id \in FileIds /\ p.id.key \in Keys
           /\ \A id \in FileIds : id.key \in Keys
           /\ Keys \subseteq Nat /\ fsKey \in Keys
BY DEF TypeOK, ConfigFiles, Images, Tables, PgmSlots, FileIds, Keys

\* A step that changes no slot and records nothing, and puts SYSTEM.MEM back to
\* a blank one at most.
LEMMA QuietTables ==
    ASSUME PowerInv, UNCHANGED <<slots, fsKey, fate>>, ideFile'.key = ideFile.key,
           config'.image \in {config.image, BlankImage}, Hooked' => Hooked,
           \A u \in Threads : \/ op'[u].id = op[u].id \/ op'[u].id.key = 0
                              \/ \E s \in Slots : op'[u].id = slots[s].id
    PROVE  TablesHold'
<1> USE DEF PowerInv, TablesHold
<1>1. KeysAreOld'
  <2>1. \A s \in Slots : OldIfCovered(slots[s].id)'
    BY DEF KeysAreOld, OldIfCovered, Covered
  <2>2. ASSUME NEW u \in Threads PROVE OldIfCovered(op[u].id)'
    <3>1. Hooked => 0 < fsKey
      BY Typed DEF KeysAreOld
    <3>2. QED
      BY <3>1, Typed DEF KeysAreOld, OldIfCovered, Covered
  <2>3. QED
    BY <2>1, <2>2 DEF KeysAreOld, Covered
<1>2. OneSlotEach(slots)'
  BY DEF OneSlotEach, Covered
<1>3. OneSlotEach(config.image.table)' /\ IsSafe(config.image.table)'
  <2>1. CASE config'.image = config.image
    BY <2>1 DEF OneSlotEach, IsSafe, Covered
  <2>2. CASE config'.image = BlankImage
    BY <2>2 DEF OneSlotEach, IsSafe, BlankImage, BlankTable, ProgramId
  <2>3. QED
    BY <2>1, <2>2
<1>4. EndedStaysEnded' /\ RanIsNotRepeated'
  BY DEF EndedStaysEnded, RanIsNotRepeated
<1>5. QED
  BY <1>1, <1>2, <1>3, <1>4

\* A step that writes one slot and records nothing
LEMMA WriteTables ==
    ASSUME PowerInv, UNCHANGED <<fsKey, ideFile, fate, config>>, Hooked' => Hooked,
           \A u \in Threads : \/ op'[u].id = op[u].id
                              \/ \E s \in Slots : op'[u].id = slots[s].id,
           NEW at \in Slots, NEW new \in PgmSlots, slots' = [slots EXCEPT ![at] = new],
           new.state # "ERROR_UPLOADING",
           new.id.key = 0 => new.state = "FREE",
           Covered(new.id.key) =>
               /\ new.id.key <= fsKey /\ (Hooked' => new.id.key < fsKey)
               /\ \A s \in Slots : slots[s].id.key = new.id.key => s = at \/ new.id.key = 0,
           fate[new.id.key] = "ended" => new.state \notin Live,
           fate[new.id.key] = "started" =>
               new.state \notin {"READY_FOR_UPLOAD", "UPLOADING"}
    PROVE  TablesHold'
<1> USE DEF PowerInv, TablesHold
<1>1. slots'[at] = new /\ \A s \in Slots \ {at} : slots'[s] = slots[s]
  BY DEF TypeOK, Tables
<1>2. KeysAreOld'
  <2>1. ASSUME NEW s \in Slots PROVE OldIfCovered(slots[s].id)'
    BY <1>1 DEF KeysAreOld, OldIfCovered, Covered
  <2>2. ASSUME NEW u \in Threads PROVE OldIfCovered(op[u].id)'
    BY DEF KeysAreOld, OldIfCovered, Covered
  <2>3. QED
    BY <2>1, <2>2 DEF KeysAreOld, Covered
<1>3. OneSlotEach(slots)'
  BY <1>1 DEF OneSlotEach, Covered
<1>4. OneSlotEach(config.image.table)' /\ IsSafe(config.image.table)'
  BY DEF OneSlotEach, IsSafe, Covered
<1>5. EndedStaysEnded' /\ RanIsNotRepeated'
  BY <1>1 DEF EndedStaysEnded, RanIsNotRepeated, Live
<1>6. QED
  BY <1>2, <1>3, <1>4, <1>5

LEMMA NodeStaysHis ==
    ASSUME PowerInv, InState(slots, "RUNNING")' \subseteq InState(slots, "RUNNING"),
           \/ pc'["ENODE"] \notin {"popScan", "popTake"} \cup UploadSteps
           \/ pc["ENODE"] \in {"popScan", "popTake"} \cup UploadSteps
           \/ InState(slots, "RUNNING") = {}
    PROVE  NodeIsHis'
BY DEF PowerInv, NodeIsHis

\* What others do leaves the claim of the SENSOR thread alone, as long as they
\* write no running slot and not the id it has.
LEMMA SensorOutlives ==
    ASSUME PowerInv, op'["SENSOR"] = op["SENSOR"], pc'["SENSOR"] = pc["SENSOR"],
           \A k \in Keys : Covered(k)' = Covered(k),
           (pc["SENSOR"] \in EndSteps \cup SaveSteps /\ Covered(op["SENSOR"].id.key)) =>
               \A s \in Slots :
                   \/ slots'[s] = slots[s]
                   \/ /\ slots[s].state # "RUNNING"
                      /\ slots'[s].id.key # op["SENSOR"].id.key
    PROVE  SensorOwns'
<1> DEFINE i == op["SENSOR"].id
           at == op["SENSOR"].at
           mine == [id |-> i, state |-> "RUNNING"]
<1>1. SUFFICES ASSUME Covered(i.key)', pc["SENSOR"] \in EndSteps \cup SaveSteps
               PROVE  SensorOwns'
  BY DEF SensorOwns, EndSteps
<1>2. i.key \in Keys /\ Covered(i.key) /\ at \in Slots
  BY <1>1, Typed DEF PowerInv, Threads, FileIds
<1>3. mine.state = "RUNNING" /\ mine.id = i
  OBVIOUS
<1>4. \A s \in Slots : slots[s] = mine => slots'[s] = mine
  BY <1>1, <1>2, <1>3
<1>5. \A s \in Slots : slots'[s].id.key = i.key => slots'[s] = slots[s]
  BY <1>1, <1>2
<1>6. CASE pc["SENSOR"] = "endFree"
  BY <1>2, <1>4, <1>6 DEF PowerInv, SensorOwns, SaveSteps
<1>7. CASE pc["SENSOR"] = "endCheck"
  BY <1>2, <1>4, <1>5, <1>7 DEF PowerInv, SensorOwns, SaveSteps
<1>8. CASE pc["SENSOR"] \in SaveSteps
  BY <1>2, <1>5, <1>8 DEF PowerInv, SensorOwns, SaveSteps
<1>9. QED
  BY <1>1, <1>6, <1>7, <1>8 DEF EndSteps

\* What others do leaves the claims of the ENODE thread alone, as long as what
\* they write is not its id, and free if it is not a new program.
LEMMA EnodeOutlives ==
    ASSUME PowerInv, op'["ENODE"] = op["ENODE"], pc'["ENODE"] = pc["ENODE"],
           \A k \in Keys : Covered(k)' = Covered(k), TypeOK',
           pc["ENODE"] \in UploadSteps /\ pc'["SENSOR"] \in EndSteps \cup SaveSteps =>
               pc["SENSOR"] \in EndSteps \cup SaveSteps /\ op'["SENSOR"].id = op["SENSOR"].id,
           pc["ENODE"] \in {"popTake"} \cup UploadSteps =>
               \A s \in Slots :
                   \/ slots'[s] = slots[s]
                   \/ /\ Covered(op["ENODE"].id.key) => slots'[s].id.key # op["ENODE"].id.key
                      /\ Covered(slots'[s].id.key) => slots'[s].state = "READY_FOR_UPLOAD"
    PROVE  EnodeOwns'
<1> DEFINE e == op["ENODE"].id
           at == op["ENODE"].at
<1>1. e.key \in Keys /\ at \in Slots /\ slots'[at].id.key \in Keys
  BY Typed DEF PowerInv, Threads, FileIds, TypeOK, Tables, PgmSlots
<1>2. pc["ENODE"] = "popTake" /\ Covered(slots[at].id.key)' =>
          slots'[at].state = "READY_FOR_UPLOAD"
  BY <1>1 DEF PowerInv, EnodeOwns, Covered
<1>3. pc["ENODE"] = "beginRun" /\ Covered(slots[at].id.key)' =>
          slots'[at].state \in {"READY_FOR_UPLOAD", "UPLOADING"}
  BY <1>1 DEF PowerInv, EnodeOwns, Covered, UploadSteps
<1>4. pc["ENODE"] = "endFree" /\ Covered(e.key)' =>
          \A s \in Slots : slots'[s].id.key = e.key => s = at
  BY <1>1 DEF PowerInv, EnodeOwns, UploadSteps, EndSteps
<1>5. QED
  BY <1>1, <1>2, <1>3, <1>4 DEF PowerInv, EnodeOwns

LEMMA OthersAreOff ==
    ASSUME PowerInv, NEW t \in Threads \ {"MAIN"}, pc[t] # "off"
    PROVE  /\ pc["MAIN"] = "done"
           /\ pc'["MAIN"] = pc["MAIN"] => StartsFirst'
BY DEF PowerInv, StartsFirst

-----------------------------------------------------------------------------
(* saveState                                                                *)

\* What a successful save records of a program fits the table: the program that
\* the SENSOR thread ended is in no slot that would bring it back, and one that
\* runs is in one slot only.
LEMMA SaveRecords ==
    ASSUME PowerInv, NEW t \in Threads, pc[t] = "saveWrite", RecordSaved(t),
           UNCHANGED <<slots, fsKey, ideFile, op>>, Hooked' => Hooked,
           config'.image.table = slots
    PROVE  TablesHold' /\ \A k \in Keys : Covered(k)' = Covered(k)
<1> USE DEF PowerInv, TablesHold
<1> DEFINE Ran(k) == \E s \in InState(slots, "RUNNING") : slots[s].id.key = k
           Ends(k) == t = "SENSOR" /\ op[t].id.key = k
<1>1. \A k \in Keys : /\ Covered(k)' = Covered(k)
                      /\ fate'[k] = "ended" => fate[k] = "ended" \/ (Covered(k) /\ Ends(k))
                      /\ fate'[k] = "started" => fate[k] = "started" \/ (Covered(k) /\ Ran(k))
                      /\ ~Ends(k) /\ ~Ran(k) => fate'[k] = fate[k]
  BY DEF RecordSaved, Covered
<1>2. /\ \A s \in Slots : slots[s].id.key \in Keys
      /\ \A u \in Threads : op[u].id.key \in Keys
      /\ fsKey \in Keys /\ 0 \in Keys
  BY Typed, StoredTyped, KeysNotEmpty
<1>3. KeysAreOld'
  <2>1. \A s \in Slots : OldIfCovered(slots[s].id)'
    BY <1>1, <1>2 DEF KeysAreOld, OldIfCovered, Covered
  <2>2. \A u \in Threads : OldIfCovered(op[u].id)'
    BY <1>1, <1>2 DEF KeysAreOld, OldIfCovered, Covered
  <2>3. ASSUME Hooked, Covered(fsKey) PROVE ~Ends(fsKey) /\ ~Ran(fsKey)
    <3>1. \A s \in Slots : slots[s].id.key # fsKey
      BY <2>3, Typed DEF KeysAreOld, OldIfCovered
    <3>2. op[t].id.key # fsKey
      BY <2>3, Typed DEF KeysAreOld, OldIfCovered
    <3>3. QED
      BY <3>1, <3>2 DEF InState
  <2>4. QED
    BY <1>1, <1>2, <2>1, <2>2, <2>3 DEF KeysAreOld, Covered
<1>4. OneSlotEach(slots)' /\ OneSlotEach(config.image.table)'
  BY <1>1, <1>2 DEF OneSlotEach, Covered
<1>5. EndedStaysEnded'
  <2>1. ASSUME NEW s \in Slots, Covered(slots[s].id.key), Ends(slots[s].id.key)
        PROVE  slots[s].state \notin Live
    BY <2>1 DEF SensorOwns, SaveSteps
  <2>2. QED
    BY <1>1, <1>2, <2>1 DEF EndedStaysEnded, Live
<1>6. RanIsNotRepeated'
  <2>1. ASSUME NEW s \in Slots, Covered(slots[s].id.key), Ran(slots[s].id.key)
        PROVE  slots[s].state \notin {"READY_FOR_UPLOAD", "UPLOADING"}
    BY <2>1 DEF OneSlotEach, InState
  <2>2. QED
    BY <1>1, <1>2, <2>1 DEF RanIsNotRepeated
<1>7. IsSafe(config.image.table)'
  BY <1>5, <1>6 DEF IsSafe, EndedStaysEnded, RanIsNotRepeated
<1>8. QED
  BY <1>1, <1>3, <1>4, <1>5, <1>6, <1>7

LEMMA SaveStatePower ==
    ASSUME PowerInv, TypeOK', NEW t \in Threads, SaveState(t)
    PROVE  PowerInv'
<1> DEFINE Locally(step) ==
        /\ pc' = [pc EXCEPT ![t] = step]
        /\ op' = op \/ \E sum : op' = [op EXCEPT ![t].sum = sum]
<1>1. pc[t] \in SaveSteps /\ \E step \in SaveSteps : Locally(step)
  BY DEF SaveState, SaveCreate, SaveKey, SaveSum, SaveCrc, SaveWrite, Goto, At, SaveSteps
<1>2. UNCHANGED <<slots, fsKey, ideFile>>
  BY DEF SaveState, SaveCreate, SaveKey, SaveSum, SaveCrc, SaveWrite
<1>3. /\ \A u \in Threads \ {t} : pc'[u] = pc[u] /\ op'[u] = op[u]
      /\ op'[t].id = op[t].id /\ op'[t].at = op[t].at
      /\ pc'[t] \in SaveSteps
  BY <1>1 DEF PowerInv, TypeOK, PcTypeOK, Locals
<1>4. TablesHold' /\ \A k \in Keys : Covered(k)' = Covered(k)
  <2>1. Hooked' => Hooked
    BY <1>3 DEF Hooked, SaveSteps, Threads
  <2>2. \A u \in Threads : op'[u].id = op[u].id
    BY <1>3
  <2>3. CASE fate' = fate /\ config'.image \in {config.image, BlankImage}
    BY <1>2, <2>1, <2>2, <2>3, QuietTables DEF Covered
  <2>4. CASE SaveKey(t) \/ SaveSum(t) \/ SaveCrc(t)
    BY <2>3, <2>4 DEF SaveKey, SaveSum, SaveCrc
  <2>5. ASSUME NEW ok \in Outcomes, SaveCreate(t, ok)
        PROVE  fate' = fate /\ config'.image \in {config.image, BlankImage}
    BY <2>5 DEF SaveCreate, ShortFile
  <2>6. ASSUME NEW ok \in Outcomes, SaveWrite(t, ok), ~ok
        PROVE  fate' = fate /\ config'.image \in {config.image, BlankImage}
    BY <2>6 DEF SaveWrite, PowerInv, TypeOK, ConfigFiles
  <2>7. ASSUME NEW ok \in Outcomes, SaveWrite(t, ok), ok
        PROVE  /\ pc[t] = "saveWrite" /\ RecordSaved(t) /\ op' = op
               /\ config'.image.table = slots
    BY <2>7 DEF SaveWrite, MemoryImage, At
  <2>8. QED
    BY <1>2, <2>1, <2>3, <2>4, <2>5, <2>6, <2>7, SaveRecords DEF SaveState
<1>5. NodeIsHis'
  BY <1>1, <1>2, <1>3, NodeStaysHis DEF UploadSteps, SaveSteps, EndSteps, Threads, InState
<1>6. StartsFirst'
  BY <1>1, <1>3 DEF PowerInv, StartsFirst, SaveSteps, Threads
<1>7. SensorOwns'
  <2>1. CASE t # "SENSOR"
    BY <1>2, <1>3, <1>4, <2>1, SensorOutlives DEF Threads
  <2>2. CASE t = "SENSOR"
    <3>1. op["SENSOR"].id.key \in Keys
      BY Typed DEF PowerInv, Threads, FileIds
    <3>2. QED
      BY <1>1, <1>2, <1>3, <1>4, <2>2, <3>1 DEF PowerInv, SensorOwns, SaveSteps, Covered
  <2>3. QED
    BY <2>1, <2>2
<1>8. EnodeOwns'
  <2>1. CASE t = "ENODE"
    BY <1>3, <2>1 DEF EnodeOwns, SaveSteps, UploadSteps, EndSteps
  <2>2. CASE t # "ENODE"
    <3>1. op'["ENODE"] = op["ENODE"] /\ pc'["ENODE"] = pc["ENODE"]
      BY <1>3, <2>2 DEF Threads
    <3>2. op'["SENSOR"].id = op["SENSOR"].id /\
          (pc'["SENSOR"] = pc["SENSOR"] \/ pc["SENSOR"] \in SaveSteps)
      BY <1>1, <1>3 DEF Threads
    <3>3. QED
      BY <1>2, <1>4, <3>1, <3>2, EnodeOutlives
  <2>3. QED
    BY <2>1, <2>2
<1>9. QED
  BY <1>4, <1>5, <1>6, <1>7, <1>8 DEF PowerInv

-----------------------------------------------------------------------------
(* Power loss, and the start that follows it                                *)

LEMMA PowerLossPower ==
    ASSUME PowerInv, TypeOK', PowerLoss
    PROVE  PowerInv'
<1>1. /\ UNCHANGED <<config, fate>> /\ fsKey' = 0 /\ slots' = BlankTable(0)
      /\ pc' = ResetPc /\ op' = [t \in Threads |-> NoLocals]
  BY DEF PowerLoss
<1>2. /\ pc'["ENODE"] = "off" /\ pc'["SENSOR"] = "off" /\ pc'["IDE"] = "off"
      /\ pc'["MAIN"] = "start"
      /\ \A t \in Threads \ {"MAIN"} : pc'[t] = "off"
      /\ \A t \in Threads : op'[t].id.key = 0
      /\ \A s \in Slots : slots'[s].id.key = 0 /\ slots'[s].state = "FREE"
  BY <1>1 DEF ResetPc, Threads, NoLocals, BlankTable, ProgramId
<1>3. NodeIsHis' /\ StartsFirst' /\ SensorOwns' /\ EnodeOwns'
  BY <1>2 DEF NodeIsHis, StartsFirst, SensorOwns, EnodeOwns, UploadSteps, EndSteps, SaveSteps
<1>4. KeysAreOld'
  BY <1>1, <1>2 DEF KeysAreOld, OldIfCovered, Hooked, Covered, PowerInv, TablesHold
<1>5. OneSlotEach(slots)'
  BY <1>2 DEF OneSlotEach
<1>6. OneSlotEach(config.image.table)' /\ IsSafe(config.image.table)'
  BY <1>1 DEF OneSlotEach, IsSafe, Covered, PowerInv, TablesHold
<1>7. EndedStaysEnded' /\ RanIsNotRepeated'
  BY <1>2 DEF EndedStaysEnded, RanIsNotRepeated
<1>8. QED
  BY <1>3, <1>4, <1>5, <1>6, <1>7 DEF PowerInv, TablesHold

\* What resumeState makes of the stored states
LEMMA ResumedLive ==
    ASSUME NEW table \in Tables, NEW s \in Slots, table[s].state # "ERROR_UPLOADING"
    PROVE  /\ Resumed(table)[s].id = table[s].id
           /\ Resumed(table)[s].state \in {"READY_FOR_UPLOAD", "TERMINATED", "FREE"}
           /\ Resumed(table)[s].state = "READY_FOR_UPLOAD" =>
                  table[s].state \in {"READY_FOR_UPLOAD", "UPLOADING"}
           /\ table[s].state = "FREE" => Resumed(table)[s].state = "FREE"
BY DEF Resumed, ResumedState, Tables, PgmSlots, PgmStates

LEMMA StartPower ==
    ASSUME PowerInv, TypeOK', NEW ok \in Outcomes, Start(ok)
    PROVE  PowerInv'
<1> DEFINE image == IF ok /\ Loadable(config) THEN config.image ELSE BlankImage
           table == image.table
<1>1. /\ Load(image) /\ UNCHANGED <<config, ideFile, op>>
      /\ pc["MAIN"] = "start" /\ pc' = [pc EXCEPT !["MAIN"] = "saveCreate"]
  BY DEF Start, At, Goto
<1>2. /\ \A t \in Threads \ {"MAIN"} : pc'[t] = "off"
      /\ pc'["MAIN"] = "saveCreate"
      /\ \A t \in Threads : op'[t].id.key = 0
  BY <1>1 DEF PowerInv, StartsFirst, TypeOK, PcTypeOK, Threads
<1>3. NodeIsHis' /\ StartsFirst' /\ SensorOwns' /\ EnodeOwns' /\ ~Hooked'
  BY <1>2 DEF NodeIsHis, StartsFirst, SensorOwns, EnodeOwns, UploadSteps, EndSteps, SaveSteps,
              Threads, Hooked
<1>4. /\ table \in Tables /\ image.key \in Keys
      /\ OneSlotEach(table) /\ IsSafe(table)
  <2>1. CASE image = config.image
    BY <2>1, StoredTyped DEF PowerInv, TablesHold
  <2>2. CASE image = BlankImage
    <3>1. table = BlankTable(0) /\ image.key = 0
      BY <2>2 DEF BlankImage
    <3>2. \A s \in Slots : table[s].id.key = 0 /\ table[s].state = "FREE"
      BY <3>1 DEF BlankTable, ProgramId
    <3>3. table \in Tables /\ image.key \in Keys
      BY <3>1, KeysNotEmpty, BlankTableType
    <3>4. QED
      BY <3>2, <3>3 DEF OneSlotEach, IsSafe
  <2>3. QED
    BY <2>1, <2>2
<1>5. /\ fsKey' = image.key /\ slots' = Resumed(table)
      /\ \A k \in Keys : fate'[k] = IF k \in ExposedKeys(image) THEN "exposed" ELSE fate[k]
  BY <1>1 DEF Load
<1>6. \A s \in Slots :
          /\ slots'[s].id = table[s].id
          /\ slots'[s].state \in {"READY_FOR_UPLOAD", "TERMINATED", "FREE"}
          /\ slots'[s].state = "READY_FOR_UPLOAD" =>
                 table[s].state \in {"READY_FOR_UPLOAD", "UPLOADING"}
          /\ table[s].state = "FREE" => slots'[s].state = "FREE"
          /\ table[s].id.key \in Keys
  BY <1>4, <1>5, ResumedLive, StoredTyped DEF OneSlotEach, Tables, PowerInv
<1>7. KeysAreOld'
  <2>1. 0 \notin ExposedKeys(image)
    BY <1>4, StoredTyped DEF ExposedKeys, PowerInv
  <2>2. Covered(0)'
    BY <1>5, <2>1, KeysNotEmpty DEF PowerInv, TablesHold, KeysAreOld, Covered
  <2>3. ASSUME NEW s \in Slots PROVE OldIfCovered(slots[s].id)'
    <3>1. Covered(slots[s].id.key)' => table[s].id.key \notin ExposedKeys(image)
      BY <1>5, <1>6 DEF Covered
    <3>2. table[s].id.key \notin ExposedKeys(image) => ~(table[s].id.key > image.key)
      BY <1>6 DEF ExposedKeys
    <3>3. Covered(slots[s].id.key)' => slots'[s].id.key <= fsKey'
      BY <1>4, <1>5, <1>6, <3>1, <3>2, StoredTyped DEF PowerInv
    <3>4. QED
      BY <1>3, <3>3 DEF OldIfCovered
  <2>4. ASSUME NEW t \in Threads PROVE OldIfCovered(op[t].id)'
    BY <1>2, <1>3, <1>4, <1>5, StoredTyped DEF OldIfCovered, PowerInv
  <2>5. QED
    BY <1>3, <2>2, <2>3, <2>4 DEF KeysAreOld
<1>8. \A k \in Keys : Covered(k)' => Covered(k) /\ fate'[k] = fate[k]
  BY <1>5 DEF Covered
<1>9. OneSlotEach(slots)'
  BY <1>4, <1>6, <1>8 DEF OneSlotEach, Covered
<1>10. OneSlotEach(config.image.table)' /\ IsSafe(config.image.table)'
  <2>1. \A s \in Slots : config.image.table[s].id.key \in Keys
    BY StoredTyped DEF PowerInv
  <2>2. QED
    BY <1>1, <1>8, <2>1 DEF OneSlotEach, IsSafe, Covered, PowerInv, TablesHold
<1>11. EndedStaysEnded' /\ RanIsNotRepeated'
  BY <1>4, <1>6, <1>8 DEF EndedStaysEnded, RanIsNotRepeated, IsSafe, Covered
<1>12. QED
  BY <1>3, <1>7, <1>9, <1>10, <1>11 DEF PowerInv, TablesHold

LEMMA MainPower ==
    ASSUME PowerInv, TypeOK', Main
    PROVE  PowerInv'
<1>1. CASE StartDone
  <2>1. /\ UNCHANGED <<slots, fsKey, ideFile, op, fate, config>>
        /\ pc' = [t \in Threads |-> IF t = "MAIN" THEN "done" ELSE "idle"]
    BY <1>1 DEF StartDone
  <2>2. /\ pc'["MAIN"] = "done" /\ pc'["IDE"] = "idle"
        /\ pc'["ENODE"] = "idle" /\ pc'["SENSOR"] = "idle"
    BY <2>1 DEF Threads
  <2>3. NodeIsHis' /\ StartsFirst' /\ SensorOwns' /\ EnodeOwns' /\ ~Hooked'
    BY <2>2 DEF NodeIsHis, StartsFirst, SensorOwns, EnodeOwns, UploadSteps, EndSteps, SaveSteps,
                Hooked
  <2>4. TablesHold'
    BY <2>1, <2>3, QuietTables
  <2>5. QED
    BY <2>3, <2>4 DEF PowerInv
<1>2. QED
  BY <1>1, StartPower, SaveStatePower DEF Main, Threads

-----------------------------------------------------------------------------
(* The IDE thread                                                           *)

LEMMA IdePower ==
    ASSUME OnceEach, PowerInv, TypeOK', Ide
    PROVE  PowerInv'
<1>1. CASE EnterProgmode
  <2>1. /\ fsKey' = fsKey + 1 /\ fsKey' \in Keys /\ ideFile'.key = fsKey'
        /\ Record(fsKey', "new")
    BY <1>1, StoredTyped, FileIdMaxAssumption
    DEF EnterProgmode, NextKey, OnceEach, PowerInv, TypeOK, ID2DAT, ProgramId, Keys
  <2>2. /\ UNCHANGED <<slots, op, config>>
        /\ \A u \in Threads \ {"IDE"} : pc'[u] = pc[u]
        /\ pc["IDE"] # "off" /\ Hooked'
    BY <1>1 DEF EnterProgmode, LockedBuffer, At, Goto, PowerInv, TypeOK, PcTypeOK, Hooked, Threads
  <2>3. /\ \A k \in Keys : Covered(k)' = Covered(k)
        /\ \A k \in Keys : fate'[k] = fate[k] \/ fate'[k] = "new"
        /\ Covered(fsKey') => fate'[fsKey'] = "new"
    BY <2>1 DEF Record, Covered, PowerInv, TypeOK
  <2>4. /\ \A s \in Slots : slots[s].id.key \in Keys
        /\ \A s \in Slots : config.image.table[s].id.key \in Keys
        /\ \A u \in Threads : op[u].id.key \in Keys
        /\ 0 \in Keys
    BY Typed, StoredTyped, KeysNotEmpty DEF PowerInv
  <2>5. KeysAreOld'
    <3>1. fsKey < fsKey' /\ fsKey' # 0 /\ \A k \in Keys : k <= fsKey => k <= fsKey' /\ k < fsKey'
      <4>1. fsKey' = fsKey + 1 /\ fsKey \in Nat /\ Keys \subseteq Nat
        BY <2>1, StoredTyped DEF PowerInv
      <4>2. QED
        BY ONLY <4>1
    <3>2. \A s \in Slots : OldIfCovered(slots[s].id)'
      BY <2>2, <2>3, <2>4, <3>1 DEF PowerInv, TablesHold, KeysAreOld, OldIfCovered, Covered
    <3>3. \A u \in Threads : OldIfCovered(op[u].id)'
      BY <2>2, <2>3, <2>4, <3>1 DEF PowerInv, TablesHold, KeysAreOld, OldIfCovered, Covered
    <3>4. Covered(0)' /\ (Covered(fsKey)' => fate'[fsKey'] = "new")
      BY <2>1, <2>3, <2>4 DEF PowerInv, TablesHold, KeysAreOld, Covered
    <3>5. QED
      BY <2>1, <3>1, <3>2, <3>3, <3>4 DEF KeysAreOld
  <2>6. OneSlotEach(slots)' /\ OneSlotEach(config.image.table)' /\ IsSafe(config.image.table)'
    BY <2>2, <2>3, <2>4 DEF PowerInv, TablesHold, OneSlotEach, IsSafe, Covered
  <2>7. EndedStaysEnded' /\ RanIsNotRepeated'
    BY <2>2, <2>3, <2>4 DEF PowerInv, TablesHold, EndedStaysEnded, RanIsNotRepeated
  <2>8. SensorOwns' /\ EnodeOwns' /\ NodeIsHis'
    BY <2>2, <2>3, SensorOutlives, EnodeOutlives, NodeStaysHis DEF Threads, InState
  <2>9. StartsFirst'
    BY <2>2, OthersAreOff DEF Threads
  <2>10. QED
    BY <2>5, <2>6, <2>7, <2>8, <2>9 DEF PowerInv, TablesHold
<1>2. ASSUME NEW ok \in BOOLEAN, CreateProgram(ok) \/ ProgPage(ok) PROVE PowerInv'
  <2>1. /\ UNCHANGED <<slots, fsKey, config, op, fate>> /\ ideFile'.key = ideFile.key
        /\ pc["IDE"] # "off" /\ (Hooked' => Hooked)
        /\ \A u \in Threads \ {"IDE"} : pc'[u] = pc[u]
    BY <1>2 DEF CreateProgram, ProgPage, OutOfSession, ID2PGM, ID2DAT, At, Goto, Hooked, PowerInv,
                TypeOK, PcTypeOK, Threads
  <2>2. TablesHold' /\ \A k \in Keys : Covered(k)' = Covered(k)
    BY <2>1, QuietTables DEF Covered
  <2>3. SensorOwns' /\ EnodeOwns' /\ NodeIsHis'
    BY <2>1, <2>2, SensorOutlives, EnodeOutlives, NodeStaysHis DEF InState, Threads
  <2>4. StartsFirst'
    BY <2>1, OthersAreOff DEF Threads
  <2>5. QED
    BY <2>2, <2>3, <2>4 DEF PowerInv
<1>3. CASE LeaveProgmode
  <2> DEFINE new == [id |-> ideFile, state |-> "READY_FOR_UPLOAD"]
  <2>1. /\ Hooked /\ pc["IDE"] # "off" /\ ~Hooked'
        /\ UNCHANGED <<fsKey, op, config, ideFile, fate>>
        /\ \A u \in Threads \ {"IDE"} : pc'[u] = pc[u]
    BY <1>3 DEF LeaveProgmode, CloseProgram, PushProgram, OnceEach, Hooked, At, Goto, PowerInv,
                TypeOK, PcTypeOK, Threads
  <2>2. /\ new \in PgmSlots /\ new.id.key = fsKey /\ fsKey # 0
        /\ Covered(fsKey) => fate[fsKey] = "new"
        /\ \A s \in Slots : Covered(slots[s].id.key) => slots[s].id.key # fsKey
        /\ \A u \in Threads : Covered(op[u].id.key) => op[u].id.key # fsKey
    BY <2>1, Typed DEF PowerInv, TypeOK, TablesHold, KeysAreOld, OldIfCovered, PgmSlots, PgmStates
  <2>3. \/ slots' = slots
        \/ \E s \in Slots : slots[s].state = "FREE" /\ slots' = [slots EXCEPT ![s] = new]
    BY <1>3 DEF LeaveProgmode, CloseProgram, PushProgram, IsFirst, InState
  <2>4. \A s \in Slots : slots'[s] = slots[s] \/ (slots[s].state = "FREE" /\ slots'[s] = new)
    BY <2>3 DEF PowerInv, TypeOK, Tables
  <2>5. TablesHold'
    <3>1. CASE slots' = slots
      BY <2>1, <3>1, QuietTables
    <3>2. ASSUME NEW s \in Slots, slots' = [slots EXCEPT ![s] = new] PROVE TablesHold'
      <4>1. /\ new.state \notin {"ERROR_UPLOADING"}
            /\ fate[fsKey] \notin {"started", "ended"}
            /\ fsKey <= fsKey
        BY <2>2, Typed DEF Covered, PowerInv
      <4>2. QED
        BY <2>1, <2>2, <3>2, <4>1, WriteTables
    <3>3. QED
      BY <2>3, <3>1, <3>2
  <2>6. \A k \in Keys : Covered(k)' = Covered(k)
    BY <2>1 DEF Covered
  <2>7. SensorOwns'
    BY <2>1, <2>2, <2>4, <2>6, SensorOutlives DEF Threads
  <2>8. EnodeOwns'
    BY <2>1, <2>2, <2>4, <2>6, EnodeOutlives DEF Threads
  <2>9. NodeIsHis'
    BY <2>1, <2>4, NodeStaysHis DEF Threads, InState
  <2>10. StartsFirst'
    BY <2>1, OthersAreOff DEF Threads
  <2>11. QED
    BY <2>5, <2>7, <2>8, <2>9, <2>10 DEF PowerInv
<1>4. CASE IdeDone
  <2>1. /\ UNCHANGED <<slots, fsKey, ideFile, op, config, fate>>
        /\ \A u \in Threads \ {"IDE"} : pc'[u] = pc[u]
        /\ pc["IDE"] # "off" /\ ~Hooked'
    BY <1>4 DEF IdeDone, At, Goto, PowerInv, TypeOK, PcTypeOK, Threads, Hooked
  <2>2. TablesHold' /\ \A k \in Keys : Covered(k)' = Covered(k)
    BY <2>1, QuietTables DEF Covered
  <2>3. SensorOwns' /\ EnodeOwns' /\ NodeIsHis'
    BY <2>1, <2>2, SensorOutlives, EnodeOutlives, NodeStaysHis DEF InState, Threads
  <2>4. StartsFirst'
    BY <2>1, OthersAreOff DEF Threads
  <2>5. QED
    BY <2>2, <2>3, <2>4 DEF PowerInv
<1>5. QED
  BY <1>1, <1>2, <1>3, <1>4, SaveStatePower DEF Ide, Outcomes, Threads

-----------------------------------------------------------------------------
(* The ENODE thread                                                         *)

\* A step of the ENODE thread that writes nothing but its own locals
LEMMA QuietEnode ==
    ASSUME PowerInv, TypeOK', UNCHANGED <<slots, fsKey, ideFile, fate, config>>,
           pc["ENODE"] # "off",
           \A u \in Threads \ {"ENODE"} : pc'[u] = pc[u] /\ op'[u] = op[u],
           op'["ENODE"].id = op["ENODE"].id \/ op'["ENODE"].id.key = 0,
           \/ pc'["ENODE"] \notin {"popScan", "popTake"} \cup UploadSteps
           \/ pc["ENODE"] \in {"popScan", "popTake"} \cup UploadSteps
           \/ InState(slots, "RUNNING") = {},
           EnodeOwns'
    PROVE  PowerInv'
<1>1. TablesHold' /\ \A k \in Keys : Covered(k)' = Covered(k)
  BY QuietTables DEF Hooked, Threads, Covered
<1>2. SensorOwns' /\ NodeIsHis'
  BY <1>1, SensorOutlives, NodeStaysHis DEF Threads, InState
<1>3. StartsFirst'
  BY OthersAreOff DEF Threads
<1>4. QED
  BY <1>1, <1>2, <1>3 DEF PowerInv

\* A step of the ENODE thread that writes the slot it is at, with an id that the
\* SENSOR thread does not have
LEMMA WriteEnode ==
    ASSUME PowerInv, TypeOK', UNCHANGED <<fsKey, ideFile, fate, config>>,
           pc["ENODE"] \in {"popTake"} \cup UploadSteps,
           \A u \in Threads \ {"ENODE"} : pc'[u] = pc[u] /\ op'[u] = op[u],
           NEW at \in Slots, NEW new \in PgmSlots, slots' = [slots EXCEPT ![at] = new],
           \/ pc'["ENODE"] \notin {"popScan", "popTake"} \cup UploadSteps
           \/ new.state # "RUNNING",
           pc["SENSOR"] \in EndSteps \cup SaveSteps /\ Covered(new.id.key) =>
               new.id.key # op["SENSOR"].id.key,
           TablesHold', EnodeOwns'
    PROVE  PowerInv'
<1>1. slots'[at] = new /\ \A s \in Slots \ {at} : slots'[s] = slots[s]
  BY DEF PowerInv, TypeOK, Tables
<1>2. InState(slots, "RUNNING") = {}
  BY DEF PowerInv, NodeIsHis
<1>3. NodeIsHis'
  BY <1>1, <1>2 DEF NodeIsHis, InState
<1>4. \A k \in Keys : Covered(k)' = Covered(k)
  BY DEF Covered
<1>5. SensorOwns'
  BY <1>1, <1>2, <1>4, SensorOutlives DEF InState, Threads
<1>6. StartsFirst'
  BY OthersAreOff DEF Threads, UploadSteps, EndSteps
<1>7. QED
  BY <1>3, <1>5, <1>6 DEF PowerInv

\* While the ENODE thread holds a program, what the SENSOR thread is ending or
\* has ended is in no slot that may be uploaded or run.
LEMMA SensorIsElsewhere ==
    ASSUME PowerInv, pc["ENODE"] \in {"popTake"} \cup UploadSteps,
           pc["SENSOR"] \in EndSteps \cup SaveSteps, NEW s \in Slots,
           slots[s].state \in Live, Covered(slots[s].id.key)
    PROVE  slots[s].id.key # op["SENSOR"].id.key
<1>1. \A r \in Slots : slots[r].state # "RUNNING"
  BY DEF PowerInv, NodeIsHis, InState
<1>2. op["SENSOR"].at \in Slots
  BY Typed DEF PowerInv, Threads
<1>3. QED
  BY <1>1, <1>2 DEF PowerInv, SensorOwns, EndSteps

LEMMA EnodePower ==
    ASSUME PowerInv, TypeOK', HasProgram \/ PopScan \/ (\E ok \in Outcomes : GetSize(ok))
                                \/ LockBuffer \/ (\E ok \in BOOLEAN : ProgramNode(ok))
                                \/ BeginScan \/ TriggerDone("ENODE")
    PROVE  PowerInv'
<1> DEFINE Moves(step) == pc' = [pc EXCEPT !["ENODE"] = step]
<1> USE DEF Threads
<1>1. /\ UNCHANGED <<slots, fsKey, ideFile, fate, config>>
      /\ pc["ENODE"] # "off"
      /\ \A u \in Threads \ {"ENODE"} : op'[u] = op[u]
      /\ op'["ENODE"].id = op["ENODE"].id \/ op'["ENODE"].id.key = 0
  BY DEF HasProgram, PopScan, GetSize, LockBuffer, ProgramNode, BeginScan, TriggerDone, At,
         PowerInv, TypeOK, Locals, NoLocals, ProgramId
<1>2. \A step : Moves(step) =>
          pc'["ENODE"] = step /\ \A u \in Threads \ {"ENODE"} : pc'[u] = pc[u]
  BY DEF PowerInv, TypeOK, PcTypeOK
<1>3. CASE HasProgram
  <2>1. Moves("popScan") /\ InState(slots, "RUNNING") = {}
    BY <1>3 DEF HasProgram, Goto
  <2>2. pc'["ENODE"] = "popScan"
    BY <1>2, <2>1
  <2>3. EnodeOwns'
    BY <2>2 DEF EnodeOwns, UploadSteps, EndSteps
  <2>4. QED
    BY <1>1, <1>2, <2>1, <2>3, QuietEnode
<1>4. CASE PopScan
  <2>1. /\ pc["ENODE"] = "popScan"
        /\ \/ Moves("idle")
           \/ Moves("popTake") /\ slots[op'["ENODE"].at].state = "READY_FOR_UPLOAD"
    BY <1>4 DEF PopScan, At, Goto, IsFirst, InState, PowerInv, TypeOK, Locals
  <2>2. EnodeOwns'
    BY <1>1, <1>2, <2>1 DEF EnodeOwns, UploadSteps, EndSteps
  <2>3. QED
    BY <1>1, <1>2, <2>1, <2>2, QuietEnode
<1>5. CASE BeginScan
  <2>1. /\ pc["ENODE"] = "beginScan"
        /\ \/ Moves("idle")
           \/ /\ Moves("beginRun") /\ slots[op'["ENODE"].at].state = "UPLOADING"
              /\ op'["ENODE"].id = op["ENODE"].id
    BY <1>5 DEF BeginScan, At, Goto, IsFirst, InState, HasId, PowerInv, TypeOK, Locals
  <2>2. EnodeOwns'
    BY <1>1, <1>2, <2>1 DEF PowerInv, EnodeOwns, UploadSteps, EndSteps, Covered
  <2>3. QED
    BY <1>1, <1>2, <2>1, <2>2, QuietEnode DEF UploadSteps
<1>6. CASE (\E ok \in Outcomes : GetSize(ok)) \/ LockBuffer
              \/ (\E ok \in BOOLEAN : ProgramNode(ok))
  <2>1. /\ pc["ENODE"] \in UploadSteps
        /\ \/ Moves("idle")
           \/ \E step \in {"lockBuffer", "program", "beginScan", "endCheck"} :
                  Moves(step) /\ op'["ENODE"].id = op["ENODE"].id
    BY <1>6 DEF GetSize, LockBuffer, ProgramNode, At, Goto, UploadSteps, PowerInv, TypeOK, Locals
  <2>2. EnodeOwns'
    BY <1>1, <1>2, <2>1 DEF PowerInv, EnodeOwns, UploadSteps, EndSteps, Covered
  <2>3. QED
    BY <1>1, <1>2, <2>1, <2>2, QuietEnode
<1>7. CASE TriggerDone("ENODE")
  <2>1. Moves("idle")
    BY <1>7 DEF TriggerDone, Goto
  <2>2. pc'["ENODE"] = "idle"
    BY <1>2, <2>1
  <2>3. EnodeOwns'
    BY <2>2 DEF EnodeOwns, UploadSteps, EndSteps
  <2>4. QED
    BY <1>1, <1>2, <2>1, <2>2, <2>3, QuietEnode DEF UploadSteps, EndSteps
<1>8. QED
  BY <1>3, <1>4, <1>5, <1>6, <1>7

LEMMA PopTakePower ==
    ASSUME PowerInv, TypeOK', PopTake
    PROVE  PowerInv'
<1> DEFINE at == op["ENODE"].at
           new == [slots[at] EXCEPT !.state = "UPLOADING"]
<1>1. /\ at \in Slots /\ slots[at] \in PgmSlots /\ new \in PgmSlots
      /\ new.id = slots[at].id /\ new.state = "UPLOADING"
  BY Typed DEF PowerInv, Threads, PgmSlots, PgmStates
<1>2. /\ UNCHANGED <<fsKey, ideFile, fate, config>>
      /\ pc["ENODE"] = "popTake" /\ pc'["ENODE"] = "getSize"
      /\ \A u \in Threads \ {"ENODE"} : pc'[u] = pc[u] /\ op'[u] = op[u]
      /\ op'["ENODE"].id = slots[at].id
      /\ slots' = [slots EXCEPT ![at] = new]
  BY DEF PopTake, At, Goto, PowerInv, TypeOK, PcTypeOK, Threads, Locals
<1>3. Covered(new.id.key) => slots[at].state = "READY_FOR_UPLOAD"
  BY <1>1, <1>2 DEF PowerInv, EnodeOwns
<1>4. new.id.key # 0
  BY <1>1, <1>3 DEF PowerInv, TablesHold, KeysAreOld, OneSlotEach
<1>5. pc["SENSOR"] \in EndSteps \cup SaveSteps /\ Covered(new.id.key) =>
          new.id.key # op["SENSOR"].id.key
  BY <1>1, <1>2, <1>3, SensorIsElsewhere DEF Live
<1>6. EnodeOwns'
  BY <1>1, <1>2, <1>4, <1>5 DEF EnodeOwns, UploadSteps, EndSteps, Covered, Threads
<1>7. TablesHold'
  <2>1. /\ Hooked' => Hooked
        /\ \A u \in Threads : op'[u].id = op[u].id \/ \E s \in Slots : op'[u].id = slots[s].id
    BY <1>1, <1>2 DEF Hooked, Threads
  <2>2. Covered(new.id.key) =>
            /\ new.id.key <= fsKey /\ (Hooked' => new.id.key < fsKey)
            /\ \A s \in Slots : slots[s].id.key = new.id.key => s = at
    BY <1>1, <1>4, <2>1 DEF PowerInv, TablesHold, KeysAreOld, OneSlotEach, OldIfCovered
  <2>3. fate[new.id.key] \notin {"started", "ended"}
    BY <1>1, <1>3 DEF PowerInv, TablesHold, EndedStaysEnded, RanIsNotRepeated, Covered
  <2>4. QED
    BY <1>1, <1>2, <1>4, <2>1, <2>2, <2>3, WriteTables
<1>8. QED
  BY <1>1, <1>2, <1>5, <1>6, <1>7, WriteEnode

LEMMA BeginRunPower ==
    ASSUME PowerInv, TypeOK', BeginRun
    PROVE  PowerInv'
<1> DEFINE at == op["ENODE"].at
           new == [slots[at] EXCEPT !.state = "RUNNING"]
<1>1. /\ at \in Slots /\ slots[at] \in PgmSlots /\ new \in PgmSlots
      /\ new.id = slots[at].id /\ new.state = "RUNNING"
  BY Typed DEF PowerInv, Threads, PgmSlots, PgmStates
<1>2. /\ UNCHANGED <<fsKey, ideFile, fate, config, op>>
      /\ pc["ENODE"] = "beginRun" /\ pc'["ENODE"] = "saveCreate"
      /\ \A u \in Threads \ {"ENODE"} : pc'[u] = pc[u]
      /\ slots' = [slots EXCEPT ![at] = new]
  BY DEF BeginRun, At, Goto, PowerInv, TypeOK, PcTypeOK, Threads
<1>3. Covered(new.id.key) => slots[at].state \in {"READY_FOR_UPLOAD", "UPLOADING"}
  BY <1>1, <1>2 DEF PowerInv, EnodeOwns
<1>4. new.id.key # 0
  BY <1>1, <1>3 DEF PowerInv, TablesHold, KeysAreOld, OneSlotEach
<1>5. pc["SENSOR"] \in EndSteps \cup SaveSteps /\ Covered(new.id.key) =>
          new.id.key # op["SENSOR"].id.key
  BY <1>1, <1>2, <1>3, SensorIsElsewhere DEF Live, UploadSteps
<1>6. EnodeOwns'
  BY <1>2 DEF EnodeOwns, UploadSteps, EndSteps
<1>7. TablesHold'
  <2>1. Hooked' => Hooked
    BY <1>2 DEF Hooked, Threads
  <2>2. Covered(new.id.key) =>
            /\ new.id.key <= fsKey /\ (Hooked' => new.id.key < fsKey)
            /\ \A s \in Slots : slots[s].id.key = new.id.key => s = at
    BY <1>1, <1>4, <2>1 DEF PowerInv, TablesHold, KeysAreOld, OneSlotEach, OldIfCovered
  <2>3. fate[new.id.key] \notin {"started", "ended"}
    BY <1>1, <1>3 DEF PowerInv, TablesHold, EndedStaysEnded, RanIsNotRepeated, Covered
  <2>4. QED
    BY <1>1, <1>2, <1>4, <2>1, <2>2, <2>3, WriteTables
<1>8. QED
  BY <1>1, <1>2, <1>5, <1>6, <1>7, WriteEnode DEF UploadSteps, SaveSteps, EndSteps

LEMMA EnodeEndPower ==
    ASSUME PowerInv, TypeOK', EndProgram("ENODE")
    PROVE  PowerInv'
<1> DEFINE at == op["ENODE"].at
           e == op["ENODE"].id
           new == [id |-> e, state |-> "FREE"]
<1>1. at \in Slots /\ new \in PgmSlots /\ new.id = e /\ new.state = "FREE"
  BY Typed DEF PowerInv, Threads, PgmSlots, PgmStates
<1>2. /\ UNCHANGED <<fsKey, ideFile, fate, config>>
      /\ pc["ENODE"] \in EndSteps /\ pc'["ENODE"] \in EndSteps \cup {"saveCreate"}
      /\ \A u \in Threads \ {"ENODE"} : pc'[u] = pc[u] /\ op'[u] = op[u]
      /\ op'["ENODE"].id = e
  BY DEF EndProgram, EndCheck, EndFree, EndSteps, At, Goto, PowerInv, TypeOK, PcTypeOK, Threads,
         Locals
<1>3. e.key # 0
  BY <1>2 DEF PowerInv, EnodeOwns, UploadSteps
<1>4. pc["SENSOR"] \in EndSteps \cup SaveSteps /\ Covered(e.key) =>
          e.key # op["SENSOR"].id.key
  BY <1>2 DEF PowerInv, EnodeOwns, UploadSteps
<1>5. CASE EndCheck("ENODE")
  <2>1. slots' = slots
    BY <1>5 DEF EndCheck
  <2>2. pc'["ENODE"] = "endFree" => slots[at].id = e /\ op'["ENODE"].at = at
    BY <1>5 DEF EndCheck, At, Goto, PowerInv, TypeOK, PcTypeOK, Threads
  <2>3. EnodeOwns'
    BY <1>1, <1>2, <1>3, <1>4, <2>1, <2>2
    DEF EnodeOwns, UploadSteps, EndSteps, Covered, Threads, PowerInv, TablesHold, OneSlotEach
  <2>4. QED
    BY <1>2, <2>1, <2>3, QuietEnode DEF UploadSteps, EndSteps
<1>6. CASE EndFree("ENODE")
  <2>1. /\ slots' = [slots EXCEPT ![at] = new]
        /\ pc["ENODE"] = "endFree" /\ pc'["ENODE"] # "endFree"
    BY <1>6 DEF EndFree, At, Goto, PowerInv, TypeOK, PcTypeOK, Threads
  <2>2. EnodeOwns'
    BY <1>2, <1>3, <1>4, <2>1 DEF EnodeOwns, UploadSteps, EndSteps, Covered, Threads
  <2>3. TablesHold'
    <3>1. /\ Hooked' => Hooked
          /\ \A u \in Threads : op'[u].id = op[u].id
      BY <1>2 DEF Hooked, Threads
    <3>2. Covered(e.key) =>
              /\ e.key <= fsKey /\ (Hooked' => e.key < fsKey)
              /\ \A s \in Slots : slots[s].id.key = e.key => s = at
      BY <2>1, <3>1 DEF PowerInv, TablesHold, KeysAreOld, EnodeOwns, OldIfCovered, Threads
    <3>3. QED
      BY <1>1, <1>2, <1>3, <2>1, <3>1, <3>2, WriteTables DEF Live
  <2>4. QED
    BY <1>1, <1>2, <1>4, <2>1, <2>2, <2>3, WriteEnode DEF UploadSteps
<1>7. QED
  BY <1>5, <1>6 DEF EndProgram

-----------------------------------------------------------------------------
(* The SENSOR thread                                                        *)

LEMMA SensorQuietPower ==
    ASSUME PowerInv, TypeOK', EndingMessage \/ EndCheck("SENSOR") \/ TriggerDone("SENSOR")
    PROVE  PowerInv'
<1> DEFINE i == op["SENSOR"].id
           at == op["SENSOR"].at
           mine == [id |-> i, state |-> "RUNNING"]
<1>1. /\ UNCHANGED <<slots, fsKey, ideFile, fate, config>>
      /\ pc["SENSOR"] # "off"
      /\ \A u \in Threads \ {"SENSOR"} : pc'[u] = pc[u] /\ op'[u] = op[u]
  BY DEF EndingMessage, EndCheck, TriggerDone, At, Goto, PowerInv, TypeOK, PcTypeOK, Threads
<1>2. CASE EndingMessage
  <2>1. PICK s \in Slots : /\ slots[s].state = "RUNNING" /\ op'["SENSOR"].id = slots[s].id
                           /\ op'["SENSOR"].at = 1 /\ pc'["SENSOR"] = "endCheck"
    BY <1>2 DEF EndingMessage, GetRunningProgram, IsFirst, InState, Goto, PowerInv, TypeOK,
                PcTypeOK, Threads
  <2>2. slots[s] = [id |-> op'["SENSOR"].id, state |-> "RUNNING"] /\ s >= 1
    BY <2>1, Typed DEF PowerInv, PgmSlots, Slots
  <2>3. SensorOwns'
    BY <1>1, <2>1, <2>2 DEF SensorOwns, SaveSteps
  <2>4. pc["ENODE"] \notin UploadSteps
    BY <2>1 DEF PowerInv, NodeIsHis, InState
  <2>5. TablesHold' /\ \A k \in Keys : Covered(k)' = Covered(k)
    BY <1>1, <2>1, QuietTables DEF Hooked, Threads, Covered
  <2>6. EnodeOwns' /\ NodeIsHis'
    BY <1>1, <2>4, <2>5, EnodeOutlives, NodeStaysHis DEF Threads, InState
  <2>7. StartsFirst'
    BY <1>1, OthersAreOff DEF Threads
  <2>8. QED
    BY <2>3, <2>5, <2>6, <2>7 DEF PowerInv
<1>3. CASE EndCheck("SENSOR")
  <2>1. /\ pc["SENSOR"] = "endCheck" /\ op'["SENSOR"].id = i
        /\ \/ slots[at].id = i /\ pc'["SENSOR"] = "endFree" /\ op'["SENSOR"].at = at
           \/ slots[at].id # i /\ pc'["SENSOR"] = "endCheck" /\ op'["SENSOR"].at = at + 1
           \/ slots[at].id # i /\ pc'["SENSOR"] = "saveCreate" /\ at + 1 \notin Slots
    BY <1>3 DEF EndCheck, At, Goto, PowerInv, TypeOK, PcTypeOK, Threads, Locals
  <2>2. at \in Slots /\ slots[at] \in PgmSlots /\ i.key \in Keys
    BY Typed, StoredTyped DEF PowerInv, Threads
  <2>3. mine.id = i /\ mine.state = "RUNNING"
    OBVIOUS
  <2>4. ASSUME NEW r \in Slots, slots[r] = mine, slots[at].id = i, Covered(i.key) PROVE r = at
    BY <2>2, <2>3, <2>4 DEF PowerInv, TablesHold, OneSlotEach
  <2>5. \A r \in Slots : r >= at /\ r # at => r >= at + 1 /\ at + 1 \in Slots
    BY <2>2, NumSlotsAssumption DEF Slots
  <2>6. SensorOwns'
    <3>1. SUFFICES ASSUME Covered(i.key) PROVE SensorOwns'
      BY <1>1, <2>1 DEF SensorOwns, Covered
    <3>2. CASE slots[at].id = i
      BY <1>1, <2>1, <2>2, <2>4, <3>1, <3>2, Typed DEF PowerInv, SensorOwns, SaveSteps
    <3>3. CASE slots[at].id # i /\ pc'["SENSOR"] = "endCheck"
      BY <1>1, <2>1, <2>2, <2>3, <2>5, <3>1, <3>3, Typed
      DEF PowerInv, SensorOwns, SaveSteps, Slots
    <3>4. CASE slots[at].id # i /\ pc'["SENSOR"] = "saveCreate"
      BY <1>1, <2>1, <2>2, <2>3, <2>5, <3>1, <3>4 DEF PowerInv, SensorOwns, SaveSteps
    <3>5. QED
      BY <2>1, <3>2, <3>3, <3>4
  <2>7. TablesHold' /\ \A k \in Keys : Covered(k)' = Covered(k)
    BY <1>1, <2>1, QuietTables DEF Hooked, Threads, Covered
  <2>8. EnodeOwns' /\ NodeIsHis'
    BY <1>1, <2>1, <2>7, EnodeOutlives, NodeStaysHis DEF Threads, InState, EndSteps
  <2>9. StartsFirst'
    BY <1>1, OthersAreOff DEF Threads
  <2>10. QED
    BY <2>6, <2>7, <2>8, <2>9 DEF PowerInv
<1>4. CASE TriggerDone("SENSOR")
  <2>1. pc'["SENSOR"] = "idle" /\ op'["SENSOR"].id.key = 0
    BY <1>4 DEF TriggerDone, Goto, NoLocals, ProgramId, PowerInv, TypeOK, PcTypeOK, Threads
  <2>2. SensorOwns'
    BY <2>1 DEF SensorOwns, SaveSteps
  <2>3. TablesHold' /\ \A k \in Keys : Covered(k)' = Covered(k)
    BY <1>1, <2>1, QuietTables DEF Hooked, Threads, Covered
  <2>4. EnodeOwns' /\ NodeIsHis'
    BY <1>1, <2>1, <2>3, EnodeOutlives, NodeStaysHis DEF Threads, InState, EndSteps, SaveSteps
  <2>5. StartsFirst'
    BY <1>1, OthersAreOff DEF Threads
  <2>6. QED
    BY <2>2, <2>3, <2>4, <2>5 DEF PowerInv
<1>5. QED
  BY <1>2, <1>3, <1>4

LEMMA SensorFreePower ==
    ASSUME PowerInv, TypeOK', EndFree("SENSOR")
    PROVE  PowerInv'
<1> DEFINE i == op["SENSOR"].id
           at == op["SENSOR"].at
           new == [id |-> i, state |-> "FREE"]
           mine == [id |-> i, state |-> "RUNNING"]
<1>1. /\ at \in Slots /\ new \in PgmSlots /\ new.id = i /\ new.state = "FREE"
      /\ mine.id = i /\ mine.state = "RUNNING"
  BY Typed DEF PowerInv, Threads, PgmSlots, PgmStates
<1>2. /\ UNCHANGED <<fsKey, ideFile, fate, config>>
      /\ pc["SENSOR"] = "endFree" /\ slots' = [slots EXCEPT ![at] = new]
      /\ \A u \in Threads \ {"SENSOR"} : pc'[u] = pc[u] /\ op'[u] = op[u]
      /\ op'["SENSOR"].id = i
      /\ \/ pc'["SENSOR"] = "endCheck" /\ op'["SENSOR"].at = at + 1
         \/ pc'["SENSOR"] = "saveCreate"
  BY DEF EndFree, At, Goto, PowerInv, TypeOK, PcTypeOK, Threads, Locals
<1>3. slots'[at] = new /\ \A s \in Slots \ {at} : slots'[s] = slots[s]
  BY <1>1, <1>2 DEF PowerInv, TypeOK, Tables
<1>4. Covered(i.key) => slots[at] = mine /\ \A s \in Slots : slots[s].id.key = i.key => s = at
  BY <1>1, <1>2 DEF PowerInv, SensorOwns, TablesHold, OneSlotEach
<1>5. SensorOwns'
  <2>1. \A s \in Slots : s >= at + 1 => s # at
    BY <1>1 DEF Slots
  <2>2. QED
    BY <1>1, <1>2, <1>3, <1>4, <2>1 DEF SensorOwns, Covered, Live
<1>6. TablesHold'
  <2>1. /\ Hooked' => Hooked
        /\ \A u \in Threads : op'[u].id = op[u].id
    BY <1>2 DEF Hooked, Threads
  <2>2. Covered(i.key) => i.key <= fsKey /\ (Hooked' => i.key < fsKey)
    BY <2>1 DEF PowerInv, TablesHold, KeysAreOld, OldIfCovered, Threads
  <2>3. QED
    BY <1>1, <1>2, <1>4, <2>1, <2>2, WriteTables DEF Live
<1>7. EnodeOwns'
  <2>1. pc["ENODE"] \in {"popTake"} \cup UploadSteps => ~Covered(i.key)
    BY <1>1, <1>4 DEF PowerInv, NodeIsHis, InState
  <2>2. \A k \in Keys : Covered(k)' = Covered(k)
    BY <1>2 DEF Covered
  <2>3. QED
    BY <1>1, <1>2, <1>3, <2>1, <2>2, EnodeOutlives DEF Threads, EndSteps
<1>8. NodeIsHis' /\ StartsFirst'
  BY <1>1, <1>2, <1>3, NodeStaysHis, OthersAreOff DEF Threads, InState
<1>9. QED
  BY <1>5, <1>6, <1>7, <1>8 DEF PowerInv

-----------------------------------------------------------------------------
(* The theorems                                                             *)

LEMMA InitPower == Init => PowerInv
<1> SUFFICES ASSUME Init PROVE PowerInv
  OBVIOUS
<1>1. /\ pc["ENODE"] = "off" /\ pc["SENSOR"] = "off" /\ pc["IDE"] = "off"
      /\ \A t \in Threads \ {"MAIN"} : pc[t] = "off"
      /\ \A t \in Threads : op[t].id.key = 0
      /\ \A s \in Slots : slots[s].id.key = 0 /\ slots[s].state = "FREE"
      /\ fsKey = 0
  BY DEF Init, ResetPc, Threads, NoLocals, BlankTable, ProgramId
<1>2. NodeIsHis /\ StartsFirst /\ SensorOwns /\ EnodeOwns
  BY <1>1 DEF NodeIsHis, StartsFirst, SensorOwns, EnodeOwns, UploadSteps, EndSteps, SaveSteps
<1>3. KeysAreOld
  BY <1>1, KeysNotEmpty DEF Init, KeysAreOld, OldIfCovered, Hooked, Covered
<1>4. OneSlotEach(slots) /\ OneSlotEach(config.image.table) /\ IsSafe(config.image.table)
  BY <1>1 DEF Init, OneSlotEach, IsSafe, ShortFile, BlankImage, BlankTable, ProgramId
<1>5. EndedStaysEnded /\ RanIsNotRepeated
  BY <1>1 DEF EndedStaysEnded, RanIsNotRepeated
<1>6. QED
  BY <1>2, <1>3, <1>4, <1>5, InitType DEF PowerInv, TablesHold

\* The inductive invariant behind both theorems, across saves that fail half-way
\* and power losses between any two steps.
THEOREM PowerInvariant == OnceEach => (Spec => []PowerInv)
<1> SUFFICES ASSUME OnceEach PROVE Spec => []PowerInv
  OBVIOUS
<1>1. PowerInv /\ [Next]_vars => PowerInv'
  <2> SUFFICES ASSUME PowerInv, [Next]_vars PROVE PowerInv'
    OBVIOUS
  <2>1. CASE Main
    BY <2>1, MainType, MainPower DEF PowerInv
  <2>2. CASE Ide
    BY <2>2, IdeType, IdePower DEF PowerInv
  <2>3. CASE Enode
    <3>1. TypeOK'
      BY <2>3, EnodeType DEF PowerInv
    <3>2. QED
      BY <2>3, <3>1, EnodePower, PopTakePower, BeginRunPower, EnodeEndPower, SaveStatePower
      DEF Enode, Threads
  <2>4. CASE Sensor
    <3>1. TypeOK'
      BY <2>4, SensorType DEF PowerInv
    <3>2. QED
      BY <2>4, <3>1, SensorQuietPower, SensorFreePower, SaveStatePower
      DEF Sensor, EndProgram, Threads
  <2>5. CASE PowerLoss
    BY <2>5, PowerLossType, PowerLossPower DEF PowerInv
  <2>6. CASE UNCHANGED vars
    BY <2>6 DEF vars, PowerInv, TypeOK, PcTypeOK, NodeIsHis, StartsFirst, TablesHold, KeysAreOld,
                OldIfCovered, Hooked, Covered, OneSlotEach, IsSafe, SensorOwns, EnodeOwns,
                EndedStaysEnded, RanIsNotRepeated, InState
  <2>7. QED
    BY <2>1, <2>2, <2>3, <2>4, <2>5, <2>6 DEF Next
<1>2. QED
  BY InitPower, <1>1, PTL DEF Spec

\* A program whose end was saved is not uploaded or run again, whichever saves
\* fail or interleave and whenever the power does.
THEOREM EndedForGood == OnceEach => (Spec => []EndedStaysEnded)
<1>1. PowerInv => EndedStaysEnded
  BY DEF PowerInv, TablesHold
<1>2. QED
  BY <1>1, PowerInvariant, PTL

\* A program that was saved while it ran is not uploaded again after a restart.
THEOREM RanOnce == OnceEach => (Spec => []RanIsNotRepeated)
<1>1. PowerInv => RanIsNotRepeated
  BY DEF PowerInv, TablesHold
<1>2. QED
  BY <1>1, PowerInvariant, PTL
-----------------------------------------------------------------------------
(* What Control does with the programs it accepts: none is lost or mixed    *)
(* up, and the slots are a ProgramQueue.  For every number of slots and of  *)
(* keys, as long as keys do not wrap, the host says LEAVE once a session    *)
(* and the power stays (Lasting); where a program that is taken must also   *)
(* get away from the slot, the host sends programs that are not empty and   *)
(* the SD card works, too (Orderly).                                        *)

Lasting == ~KeyMayWrap /\ ~HostRepeatsLeave /\ ~PowerMayFail
Orderly == Lasting /\ ~HostSendsEmpty /\ ~SDMayFail

-----------------------------------------------------------------------------
(* The inductive invariant.  Ids are unique because a key is allocated once *)
(* and pushed once, so a slot a thread found by its id is its own.          *)

InHandSteps == {"getSize", "lockBuffer", "program", "beginScan", "beginRun"}

\* Until main has started the system nobody else does anything
Boots ==
    /\ pc["MAIN"] # "done" => \A t \in Threads \ {"MAIN"} : pc[t] = "off"
    /\ pc["MAIN"] = "start" => slots = BlankTable(0) /\ fsKey = 0 /\ ~config.full

\* The id is older than that of the program that is being received
Old(id) == id.key <= fsKey /\ (Hooked => id.key < fsKey)
IdsAreOld ==
    /\ \A s \in Slots : Old(slots[s].id)
    /\ \A t \in Threads : Old(op[t].id)
    /\ Hooked => ideFile.key = fsKey

\* No key is in two slots, and no program has the key of the blank table
IdsDiffer ==
    /\ \A r, s \in Slots : slots[r].id.key = slots[s].id.key => r = s \/ slots[r].id.key = 0
    /\ \A s \in Slots : slots[s].state # "FREE" => slots[s].id.key # 0

\* Where a thread is on its way to end a program, its scan has freed what it
\* passed and will only find the program in the state it is to be ended from
EndsOwn(t, state) ==
    pc[t] \in EndSteps =>
        /\ \A s \in Slots : slots[s].id = op[t].id =>
               slots[s].state = IF s < op[t].at THEN "FREE" ELSE state
        /\ pc[t] = "endFree" => slots[op[t].at].id = op[t].id

\* What the ENODE thread found or took is still in the state it left it in
InHandIsKept ==
    /\ pc["ENODE"] = "popTake" => slots[op["ENODE"].at].state = "READY_FOR_UPLOAD"
    /\ pc["ENODE"] = "beginRun" => slots[op["ENODE"].at].id = op["ENODE"].id
    /\ pc["ENODE"] \in InHandSteps =>
           \A s \in Slots : slots[s].id = op["ENODE"].id => slots[s].state = "UPLOADING"

Claims == EndsOwn("ENODE", "UPLOADING") /\ EndsOwn("SENSOR", "RUNNING") /\ InHandIsKept

SlotInv == TypeOK /\ Boots /\ IdsAreOld /\ IdsDiffer /\ Claims

\* The file of a program that waits or is in hand is there
HasFile ==
    \A s \in InState(slots, "READY_FOR_UPLOAD") \cup InState(slots, "UPLOADING") :
        slots[s].id.key \in hexFiles

ServeInv == SlotInv /\ HasFile /\ UploadingIsHeld

-----------------------------------------------------------------------------
(* Steps that leave the table alone                                         *)

LEMMA OthersWaitForMain ==
    ASSUME SlotInv, NEW t \in Threads \ {"MAIN"}, pc[t] # "off"
    PROVE  /\ pc["MAIN"] = "done"
           /\ pc'["MAIN"] = pc["MAIN"] => Boots'
BY DEF SlotInv, Boots

\* A step of one thread that changes no id and leaves the thread where it claims
\* nothing keeps the invariant.
LEMMA QuietSlots ==
    ASSUME SlotInv, TypeOK', Boots', UNCHANGED <<slots, fsKey, ideFile>>,
           NEW t \in Threads,
           \A u \in Threads \ {t} : pc'[u] = pc[u] /\ op'[u] = op[u],
           op'[t].id = op[t].id \/ op'[t].id.key = 0,
           pc'[t] \notin EndSteps \cup InHandSteps \cup {"popTake", "create", "hooked"}
    PROVE  SlotInv'
<1>1. Hooked' => Hooked
  BY DEF Hooked, Threads
<1>2. IdsAreOld'
  <2>1. \A s \in Slots : Old(slots[s].id)'
    BY <1>1 DEF SlotInv, IdsAreOld, Old
  <2>2. Hooked' => 0 < fsKey
    BY <1>1, Typed DEF SlotInv, IdsAreOld, Old
  <2>3. ASSUME NEW u \in Threads PROVE Old(op[u].id)'
    BY <1>1, <2>2, Typed DEF SlotInv, IdsAreOld, Old
  <2>4. QED
    BY <1>1, <2>1, <2>3 DEF SlotInv, IdsAreOld
<1>3. IdsDiffer'
  BY DEF SlotInv, IdsDiffer
<1>4. ASSUME NEW u \in {"ENODE", "SENSOR"}, NEW state, EndsOwn(u, state)
      PROVE  EndsOwn(u, state)'
  BY <1>4 DEF EndsOwn, Threads
<1>5. InHandIsKept'
  BY DEF SlotInv, Claims, InHandIsKept, Threads, InHandSteps
<1>6. QED
  BY <1>2, <1>3, <1>4, <1>5 DEF SlotInv, Claims

LEMMA SaveStateSlots ==
    ASSUME SlotInv, TypeOK', NEW t \in Threads, SaveState(t)
    PROVE  SlotInv'
<1> DEFINE Locally(step) ==
        /\ pc' = [pc EXCEPT ![t] = step]
        /\ op' = op \/ \E sum : op' = [op EXCEPT ![t].sum = sum]
<1>1. pc[t] \in SaveSteps /\ \E step \in SaveSteps : Locally(step)
  BY DEF SaveState, SaveCreate, SaveKey, SaveSum, SaveCrc, SaveWrite, Goto, At, SaveSteps
<1>2. UNCHANGED <<slots, fsKey, ideFile>>
  BY DEF SaveState, SaveCreate, SaveKey, SaveSum, SaveCrc, SaveWrite
<1>3. /\ \A u \in Threads \ {t} : pc'[u] = pc[u] /\ op'[u] = op[u]
      /\ op'[t].id = op[t].id
      /\ pc'[t] \in SaveSteps
  BY <1>1 DEF SlotInv, TypeOK, PcTypeOK, Locals
<1>4. Boots'
  BY <1>1, <1>3 DEF SlotInv, Boots, SaveSteps, Threads
<1>5. QED
  BY <1>2, <1>3, <1>4, QuietSlots DEF SaveSteps, EndSteps, InHandSteps

\* The first start finds no SYSTEM.MEM and leaves the table blank.
LEMMA StartsBlank ==
    ASSUME SlotInv, NEW ok \in Outcomes, Start(ok)
    PROVE  /\ slots = BlankTable(0) /\ slots' = slots
           /\ fsKey = 0 /\ fsKey' = 0
           /\ \A t \in Threads \ {"MAIN"} : pc[t] = "off"
<1>1. /\ slots = BlankTable(0) /\ fsKey = 0 /\ ~config.full
      /\ \A t \in Threads \ {"MAIN"} : pc[t] = "off"
  BY DEF Start, At, SlotInv, Boots
<1>2. Load(BlankImage)
  BY <1>1 DEF Start, Loadable
<1>3. ResumedState("FREE") = "FREE"
  BY DEF ResumedState
<1>4. Resumed(BlankTable(0)) = BlankTable(0)
  BY <1>3 DEF Resumed, BlankTable
<1>5. QED
  BY <1>1, <1>2, <1>4 DEF Load, BlankImage

LEMMA MainSlots ==
    ASSUME SlotInv, TypeOK', Main
    PROVE  SlotInv'
<1>1. ASSUME NEW ok \in Outcomes, Start(ok) PROVE SlotInv'
  <2>1. /\ slots = BlankTable(0) /\ slots' = slots /\ fsKey = 0 /\ fsKey' = 0
        /\ \A t \in Threads \ {"MAIN"} : pc[t] = "off"
    BY <1>1, StartsBlank
  <2>4. /\ \A t \in Threads \ {"MAIN"} : pc'[t] = "off"
        /\ pc'["MAIN"] = "saveCreate"
        /\ op' = op
    BY <1>1, <2>1 DEF Start, Goto, SlotInv, TypeOK, PcTypeOK, Threads
  <2>5. IdsAreOld'
    <3>1. ~Hooked'
      BY <2>4 DEF Hooked, Threads
    <3>2. \A s \in Slots : slots[s].id.key = 0
      BY <2>1 DEF BlankTable, ProgramId
    <3>3. \A t \in Threads : op[t].id.key = 0
      BY <1>1, <2>1, Typed DEF SlotInv, IdsAreOld, Old
    <3>4. QED
      BY <2>1, <2>4, <3>1, <3>2, <3>3 DEF IdsAreOld, Old
  <2>6. IdsDiffer'
    BY <2>1 DEF SlotInv, IdsDiffer
  <2>7. Claims'
    BY <2>4 DEF Claims, EndsOwn, InHandIsKept, EndSteps, InHandSteps, Threads
  <2>8. QED
    BY <2>4, <2>5, <2>6, <2>7 DEF SlotInv, Boots
<1>2. CASE SaveState("MAIN")
  BY <1>2, SaveStateSlots DEF Threads
<1>3. CASE StartDone
  <2>1. /\ UNCHANGED <<slots, fsKey, ideFile, op>>
        /\ pc' = [t \in Threads |-> IF t = "MAIN" THEN "done" ELSE "idle"]
    BY <1>3 DEF StartDone
  <2>2. ~Hooked' /\ Boots'
    BY <2>1 DEF Hooked, Threads, Boots
  <2>3. IdsAreOld' /\ IdsDiffer'
    BY <2>1, <2>2 DEF SlotInv, IdsAreOld, IdsDiffer, Old
  <2>4. Claims'
    BY <2>1 DEF Claims, EndsOwn, InHandIsKept, EndSteps, InHandSteps, Threads
  <2>5. QED
    BY <2>2, <2>3, <2>4 DEF SlotInv
<1>4. QED
  BY <1>1, <1>2, <1>3 DEF Main

-----------------------------------------------------------------------------
(* The IDE thread                                                           *)

\* What the IDE thread does leaves the others' claims alone as long as it writes
\* free slots only, and only ids that no other thread has.
LEMMA ClaimsOutliveIde ==
    ASSUME SlotInv,
           \A u \in Threads \ {"IDE"} : pc'[u] = pc[u] /\ op'[u] = op[u],
           \A s \in Slots : slots'[s] # slots[s] =>
               /\ slots[s].state = "FREE"
               /\ \A u \in Threads \ {"IDE"} : slots'[s].id # op[u].id
    PROVE  Claims'
<1>1. ASSUME NEW u \in {"ENODE", "SENSOR"}, NEW state \in {"UPLOADING", "RUNNING"},
             EndsOwn(u, state)
      PROVE  EndsOwn(u, state)'
  <2> SUFFICES ASSUME pc[u] \in EndSteps
               PROVE  /\ \A s \in Slots : slots'[s].id = op[u].id =>
                             slots'[s].state = IF s < op[u].at THEN "FREE" ELSE state
                      /\ pc[u] = "endFree" => slots'[op[u].at].id = op[u].id
    BY DEF EndsOwn, Threads
  <2>1. ASSUME NEW s \in Slots, slots'[s].id = op[u].id PROVE slots'[s] = slots[s]
    BY <2>1 DEF Threads
  <2>2. pc[u] = "endFree" => slots'[op[u].at] = slots[op[u].at]
    BY <1>1, Typed DEF EndsOwn, SlotInv, Threads
  <2>3. QED
    BY <1>1, <2>1, <2>2 DEF EndsOwn
<1>2. InHandIsKept'
  <2>1. pc'["ENODE"] = pc["ENODE"] /\ op'["ENODE"] = op["ENODE"]
    BY DEF Threads
  <2>2. ASSUME NEW s \in Slots, slots'[s].id = op["ENODE"].id PROVE slots'[s] = slots[s]
    BY <2>2 DEF Threads
  <2>3. op["ENODE"].at \in Slots
    BY Typed DEF SlotInv, Threads
  <2>4. pc["ENODE"] \in {"popTake", "beginRun"} => slots'[op["ENODE"].at] = slots[op["ENODE"].at]
    BY <2>3 DEF SlotInv, Claims, InHandIsKept, InHandSteps
  <2>5. QED
    BY <2>1, <2>2, <2>4 DEF SlotInv, Claims, InHandIsKept
<1>3. QED
  BY <1>1, <1>2 DEF SlotInv, Claims

LEMMA IdeSlots ==
    ASSUME Lasting, SlotInv, TypeOK', Ide
    PROVE  SlotInv'
<1>1. CASE EnterProgmode
  <2>1. fsKey' = fsKey + 1 /\ ideFile'.key = fsKey'
    BY <1>1, Typed DEF EnterProgmode, NextKey, Lasting, SlotInv, ID2DAT, ProgramId
  <2>2. /\ UNCHANGED <<slots, op>>
        /\ \A u \in Threads \ {"IDE"} : pc'[u] = pc[u]
        /\ pc["IDE"] # "off"
    BY <1>1 DEF EnterProgmode, LockedBuffer, At, Goto, SlotInv, TypeOK, PcTypeOK
  <2>3. Boots'
    BY <2>2, OthersWaitForMain DEF Threads
  <2>4. IdsAreOld'
    <3>1. ASSUME NEW id \in FileIds, Old(id) PROVE id.key < fsKey'
      BY <2>1, <3>1, Typed, FileIdMaxAssumption DEF Old, SlotInv, FileIds, Keys
    <3>2. \A s \in Slots : slots[s].id \in FileIds
      BY DEF SlotInv, TypeOK, Tables, PgmSlots
    <3>3. fsKey' \in Nat /\ \A id \in FileIds : id.key \in Nat
      BY <2>1, Typed, FileIdMaxAssumption DEF SlotInv, FileIds, Keys
    <3>4. ASSUME NEW id \in FileIds, Old(id) PROVE Old(id)'
      BY <3>1, <3>3, <3>4 DEF Old
    <3>5. (\A s \in Slots : Old(slots[s].id)') /\ (\A t \in Threads : Old(op[t].id)')
      BY <2>2, <3>2, <3>4, Typed DEF SlotInv, IdsAreOld, Old
    <3>6. QED
      BY <2>1, <3>5 DEF IdsAreOld
  <2>5. IdsDiffer'
    BY <2>2 DEF SlotInv, IdsDiffer
  <2>6. Claims'
    BY <2>2, ClaimsOutliveIde
  <2>7. QED
    BY <2>3, <2>4, <2>5, <2>6 DEF SlotInv
<1>2. ASSUME NEW ok \in BOOLEAN, CreateProgram(ok) \/ ProgPage(ok) PROVE SlotInv'
  <2>1. /\ UNCHANGED <<slots, fsKey, op>> /\ ideFile'.key = ideFile.key
        /\ pc["IDE"] # "off" /\ (Hooked' => Hooked)
        /\ \A u \in Threads \ {"IDE"} : pc'[u] = pc[u]
    BY <1>2 DEF CreateProgram, ProgPage, OutOfSession, ID2PGM, ID2DAT, At, Goto, Hooked, SlotInv,
                TypeOK, PcTypeOK, Threads
  <2>2. Boots'
    BY <2>1, OthersWaitForMain DEF Threads
  <2>3. IdsAreOld' /\ IdsDiffer'
    BY <2>1 DEF SlotInv, IdsAreOld, IdsDiffer, Old
  <2>4. Claims'
    BY <2>1, ClaimsOutliveIde
  <2>5. QED
    BY <2>2, <2>3, <2>4 DEF SlotInv
<1>3. CASE LeaveProgmode
  <2> DEFINE new == [id |-> ideFile, state |-> "READY_FOR_UPLOAD"]
  <2>1. /\ Hooked /\ pc["IDE"] # "off"
        /\ UNCHANGED <<fsKey, op>>
        /\ \A u \in Threads \ {"IDE"} : pc'[u] = pc[u]
        /\ ~Hooked'
    BY <1>3 DEF LeaveProgmode, CloseProgram, PushProgram, Lasting, Hooked, At, Goto,
                SlotInv, TypeOK, PcTypeOK, Threads
  <2>2. Boots'
    BY <2>1, OthersWaitForMain DEF Threads
  <2>3. /\ \A s \in Slots : slots[s].id.key < fsKey
        /\ \A t \in Threads : op[t].id.key < fsKey
        /\ new.id.key = fsKey
    BY <2>1 DEF SlotInv, IdsAreOld, Old
  <2>4. \/ slots' = slots
        \/ \E s \in Slots : slots[s].state = "FREE" /\ slots' = [slots EXCEPT ![s] = new]
    BY <1>3 DEF LeaveProgmode, CloseProgram, PushProgram, IsFirst, InState
  <2>5. \A t \in Threads : ideFile # op[t].id
    BY <2>3, Typed DEF SlotInv
  <2>6. \A s \in Slots : slots'[s] = slots[s] \/ (slots[s].state = "FREE" /\ slots'[s] = new)
    BY <2>4 DEF SlotInv, TypeOK, Tables
  <2>7. Claims'
    BY <2>1, <2>5, <2>6, ClaimsOutliveIde
  <2>8. IdsAreOld'
    BY <2>1, <2>3, <2>6, Typed DEF IdsAreOld, Old, SlotInv
  <2>9. IdsDiffer'
    <3>1. CASE slots' = slots
      BY <3>1 DEF SlotInv, IdsDiffer
    <3>2. ASSUME NEW s \in Slots, slots' = [slots EXCEPT ![s] = new] PROVE IdsDiffer'
      <4>1. slots'[s] = new /\ \A r \in Slots \ {s} : slots'[r] = slots[r]
        BY <3>2 DEF SlotInv, TypeOK, Tables
      <4>2. fsKey # 0 /\ \A r \in Slots : slots[r].id.key # fsKey
        BY <2>3, Typed DEF SlotInv
      <4>3. QED
        BY <2>3, <4>1, <4>2 DEF SlotInv, IdsDiffer
    <3>3. QED
      BY <2>4, <3>1, <3>2
  <2>10. QED
    BY <2>2, <2>7, <2>8, <2>9 DEF SlotInv
<1>4. CASE SaveState("IDE")
  BY <1>4, SaveStateSlots DEF Threads
<1>5. CASE IdeDone
  <2>1. /\ UNCHANGED <<slots, fsKey, ideFile, op>>
        /\ \A u \in Threads \ {"IDE"} : pc'[u] = pc[u]
        /\ pc["IDE"] # "off" /\ pc'["IDE"] = "idle"
    BY <1>5 DEF IdeDone, At, Goto, SlotInv, TypeOK, PcTypeOK, Threads
  <2>2. Boots'
    BY <2>1, OthersWaitForMain DEF Threads
  <2>3. QED
    BY <2>1, <2>2, QuietSlots DEF Threads, EndSteps, InHandSteps
<1>6. QED
  BY <1>1, <1>2, <1>3, <1>4, <1>5 DEF Ide, Outcomes

-----------------------------------------------------------------------------
(* The end of a program                                                     *)

\* What a thread that ends a program may do to the table: nothing, or free one
\* slot with the id it has, which it has found in the state it expects.
LEMMA EndSlots ==
    ASSUME SlotInv, TypeOK',
           NEW t \in {"ENODE", "SENSOR"}, NEW state \in {"UPLOADING", "RUNNING"},
           <<t, state>> \in {<<"ENODE", "UPLOADING">>, <<"SENSOR", "RUNNING">>},
           EndProgram(t)
    PROVE  /\ SlotInv'
           /\ \/ slots' = slots
              \/ /\ slots[op[t].at].id = op[t].id /\ slots[op[t].at].state = state
                 /\ pc[t] \in EndSteps
                 /\ slots' = [slots EXCEPT ![op[t].at].state = "FREE"]
<1> DEFINE at == op[t].at
<1>1. /\ t \in Threads \ {"MAIN", "IDE"} /\ at \in Slots /\ slots[at] \in PgmSlots
      /\ at \in Nat
  BY Typed DEF SlotInv, Threads
<1>2. /\ UNCHANGED <<fsKey, ideFile>>
      /\ pc[t] \in EndSteps
      /\ \A u \in Threads \ {t} : pc'[u] = pc[u] /\ op'[u] = op[u]
      /\ op'[t].id = op[t].id
  <2>1. /\ UNCHANGED <<fsKey, ideFile>> /\ pc[t] \in EndSteps
        /\ pc' = pc \/ \E step : pc' = [pc EXCEPT ![t] = step]
        /\ op' = op \/ op' = [op EXCEPT ![t].at = at + 1]
    BY DEF EndProgram, EndCheck, EndFree, At, Goto, EndSteps
  <2>2. \A u \in Threads \ {t} : pc'[u] = pc[u]
    BY <2>1 DEF SlotInv, TypeOK, PcTypeOK
  <2>3. op \in [Threads -> Locals] /\ op[t] \in Locals
    BY <1>1 DEF SlotInv, TypeOK
  <2>4. \A u \in Threads \ {t} : op'[u] = op[u]
    BY <2>1, <2>3
  <2>5. op'[t].id = op[t].id
    BY <1>1, <2>1, <2>3 DEF Locals
  <2>6. QED
    BY <2>1, <2>2, <2>4, <2>5
<1>3. Boots'
  <2>1. pc[t] # "off" /\ pc'["MAIN"] = pc["MAIN"]
    BY <1>1, <1>2 DEF EndSteps, Threads
  <2>2. QED
    BY <1>1, <2>1, OthersWaitForMain
<1>4. EndsOwn(t, state)
  BY DEF SlotInv, Claims
<1>5. CASE EndCheck(t)
  <2>1. slots' = slots
    BY <1>5 DEF EndCheck
  <2>2. EndsOwn(t, state)'
    <3>1. CASE slots[at].id = op[t].id
      BY <1>1, <1>4, <1>5, <3>1 DEF EndCheck, Goto, EndsOwn, At, EndSteps, SlotInv, TypeOK, PcTypeOK
    <3>2. CASE slots[at].id # op[t].id /\ at + 1 \in Slots
      <4>1. op'[t].at = at + 1 /\ pc' = pc /\ pc[t] = "endCheck"
        BY <1>1, <1>5, <3>2 DEF EndCheck, At, SlotInv, TypeOK, Locals
      <4>2. ASSUME NEW s \in Slots, slots[s].id = op[t].id PROVE s < at + 1 <=> s < at
        BY <1>1, <3>2, <4>2, Typed DEF SlotInv
      <4>3. QED
        BY <1>2, <1>4, <2>1, <4>1, <4>2 DEF EndsOwn
    <3>3. CASE slots[at].id # op[t].id /\ at + 1 \notin Slots
      <4>1. pc'[t] = "saveCreate"
        BY <1>1, <1>5, <3>3 DEF EndCheck, Goto, SlotInv, TypeOK, PcTypeOK
      <4>2. QED
        BY <4>1 DEF EndsOwn, EndSteps
    <3>4. QED
      BY <3>1, <3>2, <3>3
  <2>3. IdsDiffer'
    BY <2>1 DEF SlotInv, IdsDiffer
  <2>4. IdsAreOld'
    BY <1>1, <1>2, <2>1 DEF SlotInv, IdsAreOld, Old, Hooked, Threads
  <2>5. ASSUME NEW u \in {"ENODE", "SENSOR"} \ {t}, NEW state2, EndsOwn(u, state2)
        PROVE  EndsOwn(u, state2)'
    BY <1>2, <2>1, <2>5 DEF EndsOwn, Threads
  <2>6. InHandIsKept'
    BY <1>2, <2>1, <1>5 DEF SlotInv, Claims, InHandIsKept, EndCheck, Goto, At, InHandSteps, Threads,
                          TypeOK, PcTypeOK
  <2>7. QED
    BY <1>3, <2>1, <2>2, <2>3, <2>4, <2>5, <2>6 DEF SlotInv, Claims
<1>6. CASE EndFree(t)
  <2>1. slots[at].id = op[t].id /\ slots[at].state = state
    BY <1>1, <1>4, <1>6 DEF EndFree, At, EndsOwn, EndSteps
  <2>2. slots' = [slots EXCEPT ![at].state = "FREE"]
    BY <1>1, <1>6, <2>1 DEF EndFree, SlotInv, TypeOK, Tables, PgmSlots
  <2>3. /\ \A s \in Slots : slots'[s].id = slots[s].id
        /\ \A s \in Slots \ {at} : slots'[s] = slots[s]
        /\ slots'[at].state = "FREE"
    BY <1>1, <2>2 DEF SlotInv, TypeOK, Tables, PgmSlots
  <2>4. IdsDiffer'
    BY <2>3 DEF SlotInv, IdsDiffer
  <2>5. IdsAreOld'
    BY <1>1, <1>2, <2>3 DEF SlotInv, IdsAreOld, Old, Hooked, Threads
  <2>6. EndsOwn(t, state)'
    <3>1. CASE at + 1 \in Slots
      <4>1. op'[t].at = at + 1 /\ pc'[t] = "endCheck"
        BY <1>1, <1>6, <3>1 DEF EndFree, Goto, SlotInv, TypeOK, PcTypeOK, Locals
      <4>2. ASSUME NEW s \in Slots, s # at PROVE s < at + 1 <=> s < at
        BY <1>1, <4>2, Typed DEF SlotInv
      <4>3. at < at + 1
        BY <1>1
      <4>4. QED
        BY <1>2, <1>4, <2>3, <4>1, <4>2, <4>3 DEF EndsOwn
    <3>2. CASE at + 1 \notin Slots
      <4>1. pc'[t] = "saveCreate"
        BY <1>1, <1>6, <3>2 DEF EndFree, Goto, SlotInv, TypeOK, PcTypeOK
      <4>2. QED
        BY <4>1 DEF EndsOwn, EndSteps
    <3>3. QED
      BY <3>1, <3>2
  <2>7. ASSUME NEW u \in {"ENODE", "SENSOR"} \ {t}, NEW state2 \in {"UPLOADING", "RUNNING"} \ {state},
               EndsOwn(u, state2)
        PROVE  EndsOwn(u, state2)'
    <3> SUFFICES ASSUME pc[u] \in EndSteps PROVE EndsOwn(u, state2)'
      BY <1>2 DEF EndsOwn, Threads
    <3>1. slots[at].id # op[u].id
      BY <1>1, <2>1, <2>7 DEF EndsOwn
    <3>2. pc'[u] = pc[u] /\ op'[u] = op[u] /\ op[u].at \in Slots
      BY <1>2, Typed DEF SlotInv, Threads
    <3>3. \A s \in Slots : slots'[s].id = op[u].id => slots'[s] = slots[s]
      BY <2>3, <3>1
    <3>4. QED
      BY <2>3, <2>7, <3>1, <3>2, <3>3 DEF EndsOwn
  <2>8. InHandIsKept'
    <3>1. CASE t = "SENSOR"
      <4>1. pc["ENODE"] \in InHandSteps => slots[at].id # op["ENODE"].id
        BY <1>1, <2>1, <3>1 DEF SlotInv, Claims, InHandIsKept
      <4>2. pc["ENODE"] = "popTake" => op["ENODE"].at # at
        BY <1>1, <2>1, <3>1 DEF SlotInv, Claims, InHandIsKept
      <4>3. op["ENODE"].at \in Slots /\ pc'["ENODE"] = pc["ENODE"] /\ op'["ENODE"] = op["ENODE"]
        BY <1>2, <3>1, Typed DEF SlotInv, Threads
      <4>4. QED
        BY <2>3, <4>1, <4>2, <4>3 DEF SlotInv, Claims, InHandIsKept
    <3>2. CASE t = "ENODE"
      <4>1. pc'["ENODE"] \in {"endCheck", "saveCreate"}
        BY <1>1, <1>6, <3>2 DEF EndFree, Goto, SlotInv, TypeOK, PcTypeOK
      <4>2. QED
        BY <4>1 DEF InHandIsKept, InHandSteps
    <3>3. QED
      BY <3>1, <3>2
  <2>9. QED
    BY <1>2, <1>3, <2>1, <2>2, <2>4, <2>5, <2>6, <2>7, <2>8 DEF SlotInv, Claims
<1>7. QED
  BY <1>5, <1>6 DEF EndProgram

-----------------------------------------------------------------------------
(* The ENODE and the SENSOR thread                                          *)

\* The thread has work in hand and goes on with it.
LEMMA HandSlots ==
    ASSUME SlotInv, TypeOK', Boots', UNCHANGED <<slots, fsKey, ideFile>>,
           \A u \in Threads \ {"ENODE"} : pc'[u] = pc[u] /\ op'[u] = op[u],
           pc["ENODE"] \in InHandSteps, op'["ENODE"].id = op["ENODE"].id,
           \/ pc'["ENODE"] \in InHandSteps \ {"beginRun"}
           \/ pc'["ENODE"] = "beginRun" /\ slots[op'["ENODE"].at].id = op["ENODE"].id
           \/ pc'["ENODE"] = "endCheck" /\ op'["ENODE"].at = 1
    PROVE  SlotInv'
<1>1. IdsAreOld' /\ IdsDiffer'
  BY DEF SlotInv, IdsAreOld, IdsDiffer, Old, Hooked, Threads
<1>2. EndsOwn("SENSOR", "RUNNING")'
  BY DEF SlotInv, Claims, EndsOwn, Threads
<1>3. \A s \in Slots : slots[s].id = op["ENODE"].id => slots[s].state = "UPLOADING"
  BY DEF SlotInv, Claims, InHandIsKept
<1>4. EndsOwn("ENODE", "UPLOADING")'
  <2>1. \A s \in Slots : ~(s < 1)
    BY DEF Slots
  <2>2. QED
    BY <1>3, <2>1 DEF EndsOwn, EndSteps, InHandSteps
<1>5. InHandIsKept'
  BY <1>3 DEF InHandIsKept, InHandSteps
<1>6. QED
  BY <1>1, <1>2, <1>4, <1>5 DEF SlotInv, Claims

LEMMA EnodeSlots ==
    ASSUME SlotInv, TypeOK', Enode
    PROVE  SlotInv'
<1> DEFINE at == op["ENODE"].at
           Others == \A u \in Threads \ {"ENODE"} : pc'[u] = pc[u] /\ op'[u] = op[u]
<1>0. op["ENODE"] \in Locals /\ at \in Slots /\ slots[at] \in PgmSlots /\ slots[at].id.key \in Nat
  BY Typed DEF SlotInv, Threads
<1>1. CASE HasProgram \/ TriggerDone("ENODE")
  <2>1. /\ UNCHANGED <<slots, fsKey, ideFile>> /\ pc["ENODE"] # "off" /\ Others
        /\ op'["ENODE"].id = op["ENODE"].id \/ op'["ENODE"].id.key = 0
        /\ pc'["ENODE"] \in {"popScan", "idle"}
    BY <1>1 DEF HasProgram, TriggerDone, At, Goto, SlotInv, TypeOK, PcTypeOK, Threads,
                NoLocals, ProgramId
  <2>2. Boots'
    BY <2>1, OthersWaitForMain DEF Threads
  <2>3. QED
    BY <2>1, <2>2, QuietSlots DEF Threads, EndSteps, InHandSteps
<1>2. CASE PopScan
  <2>1. /\ UNCHANGED <<slots, fsKey, ideFile>> /\ pc["ENODE"] # "off" /\ Others
        /\ op'["ENODE"].id = op["ENODE"].id
    BY <1>2 DEF PopScan, At, Goto, SlotInv, TypeOK, PcTypeOK, Threads, Locals
  <2>2. Boots'
    BY <2>1, OthersWaitForMain DEF Threads
  <2>3. CASE pc'["ENODE"] = "idle"
    BY <2>1, <2>2, <2>3, QuietSlots DEF Threads, EndSteps, InHandSteps
  <2>4. CASE pc'["ENODE"] = "popTake" /\ slots[op'["ENODE"].at].state = "READY_FOR_UPLOAD"
    <3>1. IdsAreOld' /\ IdsDiffer'
      BY <2>1, <2>4 DEF SlotInv, IdsAreOld, IdsDiffer, Old, Hooked, Threads
    <3>2. Claims'
      BY <2>1, <2>4 DEF SlotInv, Claims, EndsOwn, InHandIsKept, EndSteps, InHandSteps, Threads
    <3>3. QED
      BY <2>2, <3>1, <3>2 DEF SlotInv
  <2>5. QED
    BY <1>2, <2>3, <2>4 DEF PopScan, IsFirst, InState, Goto, SlotInv, TypeOK, PcTypeOK, Threads,
                            Locals
<1>3. CASE PopTake
  <2>1. /\ UNCHANGED <<fsKey, ideFile>> /\ pc["ENODE"] = "popTake" /\ Others
        /\ op'["ENODE"].id = slots[at].id /\ pc'["ENODE"] = "getSize"
        /\ slots' = [slots EXCEPT ![at].state = "UPLOADING"]
    BY <1>0, <1>3 DEF PopTake, At, Goto, SlotInv, TypeOK, PcTypeOK, Threads, Locals
  <2>2. Boots'
    BY <2>1, OthersWaitForMain DEF Threads
  <2>3. slots[at].state = "READY_FOR_UPLOAD"
    BY <2>1 DEF SlotInv, Claims, InHandIsKept
  <2>4. /\ \A s \in Slots : slots'[s].id = slots[s].id
        /\ \A s \in Slots \ {at} : slots'[s] = slots[s]
        /\ slots'[at].state = "UPLOADING"
    BY <1>0, <2>1 DEF SlotInv, TypeOK, Tables, PgmSlots
  <2>5. IdsDiffer'
    BY <2>3, <2>4 DEF SlotInv, IdsDiffer
  <2>6. IdsAreOld'
    BY <1>0, <2>1, <2>4 DEF SlotInv, IdsAreOld, Old, Hooked, Threads
  <2>7. EndsOwn("SENSOR", "RUNNING")'
    <3>1. /\ pc'["SENSOR"] = pc["SENSOR"] /\ op'["SENSOR"] = op["SENSOR"]
          /\ op["SENSOR"].at \in Slots
      BY <2>1, Typed DEF SlotInv, Threads
    <3>2. EndsOwn("SENSOR", "RUNNING")
      BY DEF SlotInv, Claims
    <3>3. pc["SENSOR"] \in EndSteps => slots[at].id # op["SENSOR"].id
      BY <1>0, <2>3, <3>2 DEF EndsOwn
    <3>4. QED
      BY <2>4, <3>1, <3>2, <3>3 DEF EndsOwn
  <2>8. InHandIsKept' /\ EndsOwn("ENODE", "UPLOADING")'
    <3>1. ASSUME NEW s \in Slots, slots[s].id = slots[at].id PROVE s = at
      BY <1>0, <2>3, <3>1 DEF SlotInv, IdsDiffer
    <3>2. QED
      BY <2>1, <2>4, <3>1 DEF InHandIsKept, EndsOwn, EndSteps, InHandSteps
  <2>9. QED
    BY <2>2, <2>5, <2>6, <2>7, <2>8 DEF SlotInv, Claims
<1>4. ASSUME NEW ok \in Outcomes, GetSize(ok) PROVE SlotInv'
  <2>1. /\ UNCHANGED <<slots, fsKey, ideFile>> /\ pc["ENODE"] = "getSize" /\ Others
        /\ \/ pc'["ENODE"] = "lockBuffer" /\ op' = op
           \/ pc'["ENODE"] = "idle" /\ op'["ENODE"].id.key = 0
    BY <1>4 DEF GetSize, At, Goto, SlotInv, TypeOK, PcTypeOK, Threads, NoLocals, ProgramId
  <2>2. Boots'
    BY <2>1, OthersWaitForMain DEF Threads
  <2>3. CASE pc'["ENODE"] = "lockBuffer"
    BY <2>1, <2>2, <2>3, HandSlots DEF InHandSteps
  <2>4. CASE pc'["ENODE"] = "idle"
    BY <2>1, <2>2, <2>4, QuietSlots DEF Threads, EndSteps, InHandSteps
  <2>5. QED
    BY <2>1, <2>3, <2>4
<1>5. CASE LockBuffer \/ \E ok \in BOOLEAN : ProgramNode(ok)
  <2>1. /\ UNCHANGED <<slots, fsKey, ideFile>> /\ pc["ENODE"] \in {"lockBuffer", "program"}
        /\ Others /\ op'["ENODE"].id = op["ENODE"].id
        /\ \/ pc'["ENODE"] \in {"program", "beginScan"}
           \/ pc'["ENODE"] = "endCheck" /\ op'["ENODE"].at = 1
    BY <1>5 DEF LockBuffer, ProgramNode, At, Goto, SlotInv, TypeOK, PcTypeOK, Threads, Locals
  <2>2. Boots'
    BY <2>1, OthersWaitForMain DEF Threads
  <2>3. QED
    BY <2>1, <2>2, HandSlots DEF InHandSteps
<1>6. CASE BeginScan
  <2>1. /\ UNCHANGED <<slots, fsKey, ideFile>> /\ pc["ENODE"] = "beginScan" /\ Others
    BY <1>6 DEF BeginScan, At, Goto, SlotInv, TypeOK, PcTypeOK, Threads
  <2>2. \/ pc'["ENODE"] = "idle" /\ op'["ENODE"].id.key = 0
        \/ /\ pc'["ENODE"] = "beginRun" /\ op'["ENODE"].id = op["ENODE"].id
           /\ slots[op'["ENODE"].at].id = op["ENODE"].id
    BY <1>0, <1>6 DEF BeginScan, IsFirst, HasId, Goto, SlotInv, TypeOK, PcTypeOK, Threads, Locals,
                      NoLocals, ProgramId
  <2>3. Boots'
    BY <2>1, OthersWaitForMain DEF Threads
  <2>4. CASE pc'["ENODE"] = "beginRun"
    BY <2>1, <2>2, <2>3, <2>4, HandSlots DEF InHandSteps
  <2>5. CASE pc'["ENODE"] = "idle"
    BY <2>1, <2>2, <2>3, <2>5, QuietSlots DEF Threads, EndSteps, InHandSteps
  <2>6. QED
    BY <2>2, <2>4, <2>5
<1>7. CASE BeginRun
  <2>1. /\ UNCHANGED <<fsKey, ideFile, op>> /\ pc["ENODE"] = "beginRun" /\ Others
        /\ pc'["ENODE"] = "saveCreate"
        /\ slots' = [slots EXCEPT ![at].state = "RUNNING"]
    BY <1>7 DEF BeginRun, At, Goto, SlotInv, TypeOK, PcTypeOK, Threads
  <2>2. Boots'
    BY <2>1, OthersWaitForMain DEF Threads
  <2>3. slots[at].state = "UPLOADING"
    BY <1>0, <2>1 DEF SlotInv, Claims, InHandIsKept, InHandSteps
  <2>4. /\ \A s \in Slots : slots'[s].id = slots[s].id
        /\ \A s \in Slots \ {at} : slots'[s] = slots[s]
    BY <1>0, <2>1 DEF SlotInv, TypeOK, Tables, PgmSlots
  <2>5. IdsDiffer'
    BY <2>3, <2>4 DEF SlotInv, IdsDiffer
  <2>6. IdsAreOld'
    BY <2>1, <2>4 DEF SlotInv, IdsAreOld, Old, Hooked, Threads
  <2>7. EndsOwn("SENSOR", "RUNNING")'
    <3>1. /\ pc'["SENSOR"] = pc["SENSOR"] /\ op'["SENSOR"] = op["SENSOR"]
          /\ op["SENSOR"].at \in Slots
      BY <2>1, Typed DEF SlotInv, Threads
    <3>2. EndsOwn("SENSOR", "RUNNING")
      BY DEF SlotInv, Claims
    <3>3. pc["SENSOR"] \in EndSteps => slots[at].id # op["SENSOR"].id
      BY <1>0, <2>3, <3>2 DEF EndsOwn
    <3>4. QED
      BY <2>4, <3>1, <3>2, <3>3 DEF EndsOwn
  <2>8. InHandIsKept' /\ EndsOwn("ENODE", "UPLOADING")'
    BY <2>1 DEF InHandIsKept, EndsOwn, EndSteps, InHandSteps
  <2>9. QED
    BY <2>2, <2>5, <2>6, <2>7, <2>8 DEF SlotInv, Claims
<1>8. CASE EndProgram("ENODE") \/ SaveState("ENODE")
  BY <1>8, EndSlots, SaveStateSlots DEF Threads
<1>9. QED
  BY <1>1, <1>2, <1>3, <1>4, <1>5, <1>6, <1>7, <1>8 DEF Enode

LEMMA SensorSlots ==
    ASSUME SlotInv, TypeOK', Sensor
    PROVE  SlotInv'
<1>1. CASE EndingMessage
  <2>1. PICK s \in Slots : /\ slots[s].state = "RUNNING"
                           /\ op' = [op EXCEPT !["SENSOR"] =
                                        [id |-> slots[s].id, at |-> 1, sum |-> NoSum]]
    BY <1>1 DEF EndingMessage, GetRunningProgram, IsFirst, InState
  <2>2. /\ UNCHANGED <<slots, fsKey, ideFile>> /\ pc["SENSOR"] # "off"
        /\ \A u \in Threads \ {"SENSOR"} : pc'[u] = pc[u] /\ op'[u] = op[u]
        /\ pc'["SENSOR"] = "endCheck"
        /\ op'["SENSOR"].id = slots[s].id /\ op'["SENSOR"].at = 1
    BY <1>1, <2>1 DEF EndingMessage, At, Goto, SlotInv, TypeOK, PcTypeOK, Threads
  <2>3. Boots'
    BY <2>2, OthersWaitForMain DEF Threads
  <2>4. IdsDiffer'
    BY <2>2 DEF SlotInv, IdsDiffer
  <2>5. IdsAreOld'
    BY <2>2 DEF SlotInv, IdsAreOld, Old, Hooked, Threads
  <2>6. \A r \in Slots : slots[r].id = slots[s].id => r = s
    BY <2>1 DEF SlotInv, IdsDiffer
  <2>7. EndsOwn("SENSOR", "RUNNING")'
    <3>1. \A r \in Slots : ~(r < 1)
      BY DEF Slots
    <3>2. QED
      BY <2>1, <2>2, <2>6, <3>1 DEF EndsOwn
  <2>8. EndsOwn("ENODE", "UPLOADING")' /\ InHandIsKept'
    BY <2>2 DEF SlotInv, Claims, EndsOwn, InHandIsKept, Threads
  <2>9. QED
    BY <2>3, <2>4, <2>5, <2>7, <2>8 DEF SlotInv, Claims
<1>2. CASE TriggerDone("SENSOR")
  <2>1. /\ UNCHANGED <<slots, fsKey, ideFile>> /\ pc["SENSOR"] # "off"
        /\ \A u \in Threads \ {"SENSOR"} : pc'[u] = pc[u] /\ op'[u] = op[u]
        /\ op'["SENSOR"].id.key = 0
        /\ pc'["SENSOR"] = "idle"
    BY <1>2 DEF TriggerDone, At, Goto, SlotInv, TypeOK, PcTypeOK, Threads, NoLocals, ProgramId
  <2>2. Boots'
    BY <2>1, OthersWaitForMain DEF Threads
  <2>3. QED
    BY <2>1, <2>2, QuietSlots DEF Threads, EndSteps, InHandSteps
<1>3. CASE EndProgram("SENSOR") \/ SaveState("SENSOR")
  BY <1>3, EndSlots, SaveStateSlots DEF Threads
<1>4. QED
  BY <1>1, <1>2, <1>3 DEF Sensor

\* The invariant holds however often the host sends nothing and the SD card fails.
THEOREM SlotInvariant == ASSUME Lasting PROVE Spec => []SlotInv
<1>1. Init => SlotInv
  <2> SUFFICES ASSUME Init PROVE SlotInv
    OBVIOUS
  <2>1. TypeOK
    BY InitType
  <2>2. Boots
    BY DEF Init, Boots, ResetPc, ShortFile
  <2>3. /\ \A s \in Slots : slots[s].id.key = 0 /\ slots[s].state = "FREE"
        /\ \A t \in Threads : op[t].id.key = 0 /\ pc[t] \in {"start", "off"}
        /\ fsKey = 0
    BY DEF Init, BlankTable, ProgramId, NoLocals, ResetPc
  <2>4. IdsAreOld /\ IdsDiffer
    BY <2>3 DEF IdsAreOld, IdsDiffer, Old, Hooked, Threads
  <2>5. Claims
    BY <2>3 DEF Claims, EndsOwn, InHandIsKept, EndSteps, InHandSteps, Threads
  <2>6. QED
    BY <2>1, <2>2, <2>4, <2>5 DEF SlotInv
<1>2. SlotInv /\ [Next]_vars => SlotInv'
  <2> SUFFICES ASSUME SlotInv, [Next]_vars PROVE SlotInv'
    OBVIOUS
  <2>1. CASE Main
    BY <2>1, MainType, MainSlots DEF SlotInv
  <2>2. CASE Ide
    BY <2>2, IdeType, IdeSlots DEF SlotInv
  <2>3. CASE Enode
    BY <2>3, EnodeType, EnodeSlots DEF SlotInv
  <2>4. CASE Sensor
    BY <2>4, SensorType, SensorSlots DEF SlotInv
  <2>5. CASE UNCHANGED vars
    BY <2>5 DEF vars, SlotInv, TypeOK, PcTypeOK, Boots, IdsAreOld, Old, Hooked, IdsDiffer, Claims,
                EndsOwn, InHandIsKept
  <2>6. QED
    BY <2>1, <2>2, <2>3, <2>4, <2>5 DEF Next, PowerLoss, Lasting
<1>3. QED
  BY <1>1, <1>2, PTL DEF Spec

-----------------------------------------------------------------------------
(* What may happen to the table: the five writes of a slot                  *)

Pushed(s) ==
    /\ slots[s].state = "FREE" /\ Hooked
    /\ HostSendsEmpty \/ ideFile.key \in hexFiles'
    /\ slots' = [slots EXCEPT ![s] = [id |-> ideFile, state |-> "READY_FOR_UPLOAD"]]
Taken(s) ==
    /\ pc["ENODE"] = "popTake" /\ slots[s].state = "READY_FOR_UPLOAD"
    /\ slots' = [slots EXCEPT ![s].state = "UPLOADING"]
Begun(s) ==
    /\ pc["ENODE"] = "beginRun" /\ slots[s].state = "UPLOADING"
    /\ slots' = [slots EXCEPT ![s].state = "RUNNING"]
Ended(s) ==
    /\ slots[s].state \in {"UPLOADING", "RUNNING"}
    /\ slots' = [slots EXCEPT ![s].state = "FREE"]

LEMMA TableSteps ==
    ASSUME Lasting, SlotInv, [Next]_vars
    PROVE  slots' = slots \/ \E s \in Slots : Pushed(s) \/ Taken(s) \/ Begun(s) \/ Ended(s)
<1> DEFINE Goal == slots' = slots \/ \E s \in Slots : Pushed(s) \/ Taken(s) \/ Begun(s) \/ Ended(s)
           at == op["ENODE"].at
<1>0. at \in Slots /\ TypeOK
  BY Typed DEF SlotInv, Threads
<1>1. ASSUME NEW t \in Threads, SaveState(t) PROVE Goal
  BY <1>1 DEF SaveState, SaveCreate, SaveKey, SaveSum, SaveCrc, SaveWrite
<1>2. ASSUME NEW t \in {"ENODE", "SENSOR"}, EndProgram(t) PROVE Goal
  <2>1. TypeOK'
    BY <1>0, <1>2, EndProgramType
  <2>2. op[t].at \in Slots
    BY <1>0, Typed DEF Threads
  <2>3. QED
    BY <1>2, <2>1, <2>2, EndSlots DEF Ended
<1>3. CASE Main
  <2>1. ASSUME NEW ok \in Outcomes, Start(ok) PROVE slots' = slots
    BY <2>1, StartsBlank
  <2>2. QED
    BY <1>1, <1>3, <2>1 DEF Main, StartDone, Threads
<1>4. CASE Ide
  <2>1. CASE LeaveProgmode
    BY <2>1 DEF LeaveProgmode, CloseProgram, PushProgram, IsFirst, InState, Pushed, Hooked, At, Lasting
  <2>2. QED
    BY <1>1, <1>4, <2>1 DEF Ide, EnterProgmode, CreateProgram, ProgPage, IdeDone, Threads
<1>5. CASE Enode
  <2>1. CASE PopTake
    BY <1>0, <2>1 DEF PopTake, At, Taken, SlotInv, Claims, InHandIsKept
  <2>2. CASE BeginRun
    BY <1>0, <2>2 DEF BeginRun, At, Begun, SlotInv, Claims, InHandIsKept, InHandSteps
  <2>3. QED
    BY <1>1, <1>2, <1>5, <2>1, <2>2
    DEF Enode, HasProgram, PopScan, GetSize, LockBuffer, ProgramNode, BeginScan, TriggerDone, Threads
<1>6. CASE Sensor
  BY <1>1, <1>2, <1>6 DEF Sensor, EndingMessage, TriggerDone, Threads
<1>7. CASE UNCHANGED vars
  BY <1>7 DEF vars
<1>8. QED
  BY <1>3, <1>4, <1>5, <1>6, <1>7 DEF Next, PowerLoss, Lasting

\* No step truncates the file of a program that is in a slot.
LEMMA FileSteps ==
    ASSUME Lasting, SlotInv, [Next]_vars
    PROVE  \A s \in Slots : slots[s].id.key \in hexFiles => slots[s].id.key \in hexFiles'
<1>1. ASSUME NEW ok \in Outcomes, CreateProgram(ok), NEW s \in Slots
      PROVE  slots[s].id.key \in hexFiles => slots[s].id.key \in hexFiles'
  <2>1. slots[s].id.key < fsKey /\ ideFile.key = fsKey
    BY <1>1 DEF CreateProgram, At, SlotInv, IdsAreOld, Old, Hooked
  <2>2. slots[s].id.key # ideFile.key
    BY <2>1, Typed DEF SlotInv
  <2>3. QED
    BY <1>1, <2>2 DEF CreateProgram
<1>2. ASSUME NEW written \in BOOLEAN, ProgPage(written) PROVE hexFiles \subseteq hexFiles'
  BY <1>2 DEF ProgPage
<1>3. ASSUME NEW t \in Threads, SaveState(t) PROVE hexFiles' = hexFiles
  BY <1>3 DEF SaveState, SaveCreate, SaveKey, SaveSum, SaveCrc, SaveWrite
<1>4. CASE Main
  BY <1>3, <1>4 DEF Main, Start, StartDone, Threads
<1>5. CASE Ide
  BY <1>1, <1>2, <1>3, <1>5 DEF Ide, EnterProgmode, LeaveProgmode, IdeDone, Threads
<1>6. CASE Enode
  BY <1>3, <1>6
  DEF Enode, HasProgram, PopScan, PopTake, GetSize, LockBuffer, ProgramNode, BeginScan, BeginRun,
      EndProgram, EndCheck, EndFree, TriggerDone, Threads
<1>7. CASE Sensor
  BY <1>3, <1>7 DEF Sensor, EndingMessage, EndProgram, EndCheck, EndFree, TriggerDone, Threads
<1>8. QED
  BY <1>4, <1>5, <1>6, <1>7 DEF Next, PowerLoss, Lasting, vars

-----------------------------------------------------------------------------
\* A program that was accepted waits in its slot with its file until the ENODE
\* thread pops it, for every number of slots and keys, also if the host sends
\* empty programs and the SD card fails.
THEOREM AcceptedAlwaysWaits == ASSUME Lasting PROVE Spec => AcceptedWaits
<1> DEFINE Waits ==
        \A s \in InState(slots, "READY_FOR_UPLOAD") :
            /\ slots'[s].id = slots[s].id
            /\ slots'[s].state \in {"READY_FOR_UPLOAD", "UPLOADING"}
            /\ slots[s].id.key \in hexFiles => slots[s].id.key \in hexFiles'
<1>1. SlotInv /\ [Next]_vars => Waits
  <2> SUFFICES ASSUME SlotInv, [Next]_vars, NEW s \in Slots, slots[s].state = "READY_FOR_UPLOAD"
               PROVE  /\ slots'[s].id = slots[s].id
                      /\ slots'[s].state \in {"READY_FOR_UPLOAD", "UPLOADING"}
                      /\ slots[s].id.key \in hexFiles => slots[s].id.key \in hexFiles'
    BY DEF InState
  <2>1. slots \in Tables
    BY DEF SlotInv, TypeOK
  <2>2. slots[s].id.key \in hexFiles => slots[s].id.key \in hexFiles'
    BY FileSteps
  <2>3. slots'[s] = slots[s] \/ slots'[s] = [slots[s] EXCEPT !.state = "UPLOADING"]
    BY <2>1, TableSteps DEF Pushed, Taken, Begun, Ended, Tables
  <2>4. slots[s] \in PgmSlots
    BY <2>1 DEF Tables
  <2>5. QED
    BY <2>2, <2>3, <2>4 DEF PgmSlots
<1>2. SlotInv /\ [Next]_vars => [Waits]_vars
  BY <1>1
<1>3. QED
  BY <1>2, SlotInvariant, PTL DEF Spec, AcceptedWaits

-----------------------------------------------------------------------------
(* A program in hand is taken through                                       *)

LEMMA HasFileKept ==
    ASSUME Orderly, ServeInv, [Next]_vars
    PROVE  HasFile'
<1>1. Lasting /\ SlotInv /\ HasFile /\ slots \in Tables
  BY DEF Orderly, ServeInv, SlotInv, TypeOK
<1> SUFFICES ASSUME NEW s \in Slots, slots'[s].state \in {"READY_FOR_UPLOAD", "UPLOADING"}
             PROVE  slots'[s].id.key \in hexFiles'
  BY DEF HasFile, InState
<1>2. \/ slots'[s] = slots[s]
      \/ /\ slots[s].state = "READY_FOR_UPLOAD"
         /\ slots'[s] = [slots[s] EXCEPT !.state = "UPLOADING"]
      \/ slots'[s].id = ideFile /\ ideFile.key \in hexFiles'
  <2>1. slots[s] \in PgmSlots
    BY <1>1 DEF Tables
  <2>2. QED
    BY <1>1, <2>1, TableSteps DEF Pushed, Taken, Begun, Ended, Tables, PgmSlots, Orderly
<1>3. CASE slots'[s].id = slots[s].id /\ slots[s].state \in {"READY_FOR_UPLOAD", "UPLOADING"}
  <2>1. slots[s].id.key \in hexFiles
    BY <1>1, <1>3 DEF HasFile, InState
  <2>2. QED
    BY <1>1, <1>3, <2>1, FileSteps
<1>4. QED
  <2>1. slots[s] \in PgmSlots
    BY <1>1 DEF Tables
  <2>2. QED
    BY <1>2, <1>3, <2>1 DEF PgmSlots

\* The slot that is UPLOADING is the only one.
LEMMA OneUploading ==
    ASSUME ServeInv, NEW r \in Slots, NEW s \in Slots,
           slots[r].state = "UPLOADING", slots[s].state = "UPLOADING"
    PROVE  r = s
BY DEF ServeInv, SlotInv, IdsDiffer, UploadingIsHeld, InState

LEMMA UploadingKept ==
    ASSUME Orderly, ServeInv, [Next]_vars
    PROVE  UploadingIsHeld'
<1> DEFINE up(s) == slots[s].state = "UPLOADING"
           at == op["ENODE"].at
           HandOrEnd == InHandSteps \cup EndSteps
<1>0. /\ Lasting /\ SlotInv /\ HasFile /\ UploadingIsHeld /\ slots \in Tables
      /\ at \in Slots /\ op["ENODE"] \in Locals /\ PcTypeOK /\ op \in [Threads -> Locals]
  BY Typed DEF Orderly, ServeInv, SlotInv, TypeOK, Threads
<1>1. \A s \in Slots : up(s) => pc["ENODE"] \in HandOrEnd /\ slots[s].id = op["ENODE"].id
  BY <1>0 DEF UploadingIsHeld, InState, InHandSteps
\* It is enough that a slot that is still UPLOADING is still held.
<1>2. ASSUME \A s \in Slots : slots'[s].state = "UPLOADING" =>
                 pc'["ENODE"] \in HandOrEnd /\ slots'[s].id = op'["ENODE"].id
      PROVE  UploadingIsHeld'
  BY <1>2 DEF UploadingIsHeld, InState, InHandSteps
<1>3. ASSUME UNCHANGED slots, pc'["ENODE"] = pc["ENODE"], op'["ENODE"].id = op["ENODE"].id
      PROVE  UploadingIsHeld'
  BY <1>1, <1>2, <1>3
<1>4. ASSUME UNCHANGED slots, \A s \in Slots : ~up(s)
      PROVE  UploadingIsHeld'
  BY <1>2, <1>4
<1>5. ASSUME NEW t \in Threads \ {"ENODE"}, SaveState(t) PROVE UploadingIsHeld'
  <2>1. pc'["ENODE"] = pc["ENODE"] /\ op'["ENODE"] = op["ENODE"] /\ slots' = slots
    BY <1>0, <1>5 DEF SaveState, SaveCreate, SaveKey, SaveSum, SaveCrc, SaveWrite, Goto, PcTypeOK,
                      Threads
  <2>2. QED
    BY <1>3, <2>1
<1>6. CASE Main
  <2>1. ASSUME NEW ok \in Outcomes, Start(ok) PROVE UploadingIsHeld'
    BY <1>0, <1>4, <2>1, StartsBlank DEF BlankTable
  <2>2. CASE StartDone
    <3>1. pc["ENODE"] = "off" /\ slots' = slots
      BY <1>0, <2>2 DEF StartDone, At, SlotInv, Boots, Threads
    <3>2. QED
      BY <1>1, <1>4, <3>1 DEF InHandSteps, EndSteps
  <2>3. QED
    BY <1>5, <1>6, <2>1, <2>2 DEF Main, Threads
<1>7. CASE Ide
  <2>1. (pc'["ENODE"] = pc["ENODE"] /\ op' = op) \/ SaveState("IDE")
    BY <1>0, <1>7 DEF Ide, EnterProgmode, CreateProgram, ProgPage, LeaveProgmode, CloseProgram,
                      IdeDone, Goto, PcTypeOK, Threads
  <2>2. CASE slots' = slots
    BY <1>3, <1>5, <2>1, <2>2 DEF Threads
  <2>3. CASE LeaveProgmode
    <3>1. pc'["ENODE"] = pc["ENODE"] /\ op' = op
      BY <1>0, <2>3 DEF LeaveProgmode, CloseProgram, Goto, PcTypeOK, Threads
    <3>2. \A s \in Slots : slots'[s] = slots[s] \/ slots'[s].state = "READY_FOR_UPLOAD"
      BY <1>0, <2>3 DEF LeaveProgmode, CloseProgram, PushProgram, Tables
    <3>3. QED
      BY <1>1, <1>2, <3>1, <3>2
  <2>4. QED
    BY <1>5, <1>7, <2>2, <2>3 DEF Ide, EnterProgmode, CreateProgram, ProgPage, IdeDone, Threads
<1>8. CASE Enode
  <2>1. CASE HasProgram \/ PopScan \/ SaveState("ENODE") \/ TriggerDone("ENODE")
    <3>1. pc["ENODE"] \notin HandOrEnd /\ slots' = slots
      BY <2>1 DEF HasProgram, PopScan, TriggerDone, SaveState, SaveCreate, SaveKey, SaveSum, SaveCrc,
                  SaveWrite, At, InHandSteps, EndSteps
    <3>2. QED
      BY <1>1, <1>4, <3>1
  <2>2. CASE PopTake
    <3>1. \A s \in Slots : ~up(s)
      BY <1>1, <2>2 DEF PopTake, At, InHandSteps, EndSteps
    <3>2. /\ slots' = [slots EXCEPT ![at].state = "UPLOADING"]
          /\ op'["ENODE"].id = slots[at].id /\ pc'["ENODE"] = "getSize"
      BY <1>0, <2>2 DEF PopTake, Goto, PcTypeOK, Threads, Locals
    <3>3. /\ \A s \in Slots \ {at} : slots'[s] = slots[s]
          /\ slots'[at].id = slots[at].id
      BY <1>0, <3>2 DEF Tables, PgmSlots
    <3>4. QED
      BY <1>2, <3>1, <3>2, <3>3 DEF InHandSteps
  <2>3. ASSUME NEW ok \in Outcomes, GetSize(ok) PROVE UploadingIsHeld'
    <3>1. ok = TRUE /\ slots' = slots
      BY <2>3 DEF Outcomes, Orderly, GetSize
    <3>2. CASE op["ENODE"].id.key \in hexFiles
      BY <1>0, <1>1, <1>2, <2>3, <3>1, <3>2 DEF GetSize, Goto, PcTypeOK, Threads, InHandSteps
    <3>3. CASE op["ENODE"].id.key \notin hexFiles
      <4>1. \A s \in Slots : ~up(s)
        BY <1>0, <1>1, <3>3 DEF HasFile, InState
      <4>2. QED
        BY <1>4, <3>1, <4>1
    <3>4. QED
      BY <3>2, <3>3
  <2>4. CASE LockBuffer \/ \E ok \in BOOLEAN : ProgramNode(ok)
    <3>1. /\ slots' = slots /\ op'["ENODE"].id = op["ENODE"].id
          /\ pc'["ENODE"] \in {"program", "beginScan", "endCheck"}
      BY <1>0, <2>4 DEF LockBuffer, ProgramNode, Goto, PcTypeOK, Threads, Locals
    <3>2. QED
      BY <1>1, <1>2, <3>1 DEF InHandSteps, EndSteps
  <2>5. CASE BeginScan
    <3>1. slots' = slots
      BY <2>5 DEF BeginScan
    <3>2. CASE HasId(slots, op["ENODE"].id) \cap InState(slots, "UPLOADING") = {}
      <4>1. \A s \in Slots : ~up(s)
        BY <1>1, <3>2 DEF HasId, InState
      <4>2. QED
        BY <1>4, <3>1, <4>1
    <3>3. CASE HasId(slots, op["ENODE"].id) \cap InState(slots, "UPLOADING") # {}
      <4>1. pc'["ENODE"] = "beginRun" /\ op'["ENODE"].id = op["ENODE"].id
        BY <1>0, <2>5, <3>3 DEF BeginScan, Goto, PcTypeOK, Threads, Locals
      <4>2. QED
        BY <1>1, <1>2, <3>1, <4>1 DEF InHandSteps
    <3>4. QED
      BY <3>2, <3>3
  <2>6. CASE BeginRun
    <3>1. up(at)
      BY <1>0, <2>6 DEF BeginRun, At, SlotInv, Claims, InHandIsKept, InHandSteps
    <3>2. \A s \in Slots \ {at} : ~up(s)
      BY <1>0, <3>1, OneUploading
    <3>3. slots' = [slots EXCEPT ![at].state = "RUNNING"]
      BY <2>6 DEF BeginRun
    <3>4. \A s \in Slots : slots'[s].state # "UPLOADING"
      BY <1>0, <3>2, <3>3 DEF Tables, PgmSlots
    <3>5. QED
      BY <1>2, <3>4
  <2>7. CASE EndCheck("ENODE")
    <3>1. slots' = slots
      BY <2>7 DEF EndCheck
    <3>2. CASE slots[at].id = op["ENODE"].id \/ at + 1 \in Slots
      <4>1. pc'["ENODE"] \in EndSteps /\ op'["ENODE"].id = op["ENODE"].id
        BY <1>0, <2>7, <3>2 DEF EndCheck, At, Goto, PcTypeOK, Threads, Locals, EndSteps
      <4>2. QED
        BY <1>1, <1>2, <3>1, <4>1
    <3>3. CASE slots[at].id # op["ENODE"].id /\ at + 1 \notin Slots
      <4>1. at = NumSlots
        BY <1>0, <3>3, NumSlotsAssumption DEF Slots
      <4>2. ASSUME NEW s \in Slots, up(s) PROVE FALSE
        <5>1. s # at
          BY <1>1, <3>3, <4>2
        <5>2. s < at
          BY <4>1, <5>1, NumSlotsAssumption DEF Slots
        <5>3. slots[s].state = "FREE"
          BY <1>0, <1>1, <2>7, <4>2, <5>2 DEF EndCheck, At, SlotInv, Claims, EndsOwn, EndSteps
        <5>4. QED
          BY <4>2, <5>3
      <4>3. QED
        BY <1>4, <3>1, <4>2
    <3>4. QED
      BY <3>2, <3>3
  <2>8. CASE EndFree("ENODE")
    <3>1. slots[at].id = op["ENODE"].id /\ up(at)
      BY <1>0, <1>1, <2>8 DEF EndFree, At, SlotInv, Claims, EndsOwn, EndSteps, Slots
    <3>2. \A s \in Slots \ {at} : ~up(s)
      BY <1>0, <3>1, OneUploading
    <3>3. slots' = [slots EXCEPT ![at] = [id |-> op["ENODE"].id, state |-> "FREE"]]
      BY <2>8 DEF EndFree
    <3>4. \A s \in Slots : slots'[s].state # "UPLOADING"
      BY <1>0, <3>2, <3>3 DEF Tables
    <3>5. QED
      BY <1>2, <3>4
  <2>9. QED
    BY <1>8, <2>1, <2>2, <2>3, <2>4, <2>5, <2>6, <2>7, <2>8 DEF Enode, EndProgram
<1>9. CASE Sensor
  <2>1. CASE EndProgram("SENSOR")
    <3>1. pc'["ENODE"] = pc["ENODE"] /\ op'["ENODE"] = op["ENODE"]
      BY <1>0, <2>1 DEF EndProgram, EndCheck, EndFree, Goto, PcTypeOK, Threads
    <3>2. \A s \in Slots : slots'[s] = slots[s] \/ slots'[s].state = "FREE"
      BY <1>0, <2>1 DEF EndProgram, EndCheck, EndFree, Tables
    <3>3. QED
      BY <1>1, <1>2, <3>1, <3>2
  <2>2. CASE EndingMessage \/ TriggerDone("SENSOR")
    <3>1. pc'["ENODE"] = pc["ENODE"] /\ op'["ENODE"] = op["ENODE"] /\ slots' = slots
      BY <1>0, <2>2 DEF EndingMessage, TriggerDone, Goto, PcTypeOK, Threads
    <3>2. QED
      BY <1>3, <3>1
  <2>3. QED
    BY <1>5, <1>9, <2>1, <2>2 DEF Sensor, Threads
<1>10. CASE UNCHANGED vars
  BY <1>3, <1>10 DEF vars
<1>11. QED
  BY <1>0, <1>6, <1>7, <1>8, <1>9, <1>10 DEF Next, PowerLoss, Lasting

\* While nothing is lost, the program a slot uploads has its file, and the ENODE
\* thread holds it from popNextProgramToUpload() until end() has freed its slot.
THEOREM ServeInvariant == ASSUME Orderly PROVE Spec => []ServeInv
<1>1. Init => HasFile /\ UploadingIsHeld
  BY DEF Init, BlankTable, HasFile, UploadingIsHeld, InState
<1>2. SlotInv /\ HasFile /\ UploadingIsHeld /\ [Next]_vars => HasFile' /\ UploadingIsHeld'
  BY HasFileKept, UploadingKept DEF ServeInv
<1>3. Spec => []SlotInv
  BY SlotInvariant DEF Orderly
<1>4. SlotInv /\ HasFile /\ UploadingIsHeld => ServeInv
  BY DEF ServeInv
<1>5. QED
  BY <1>1, <1>2, <1>3, <1>4, PTL DEF Spec

\* No upload leaves its slot behind, for every number of slots and keys.
THEOREM UploadAlwaysHeld == ASSUME Orderly PROVE Spec => []UploadingIsHeld
<1>1. ServeInv => UploadingIsHeld
  BY DEF ServeInv
<1>2. QED
  BY <1>1, ServeInvariant, PTL

-----------------------------------------------------------------------------
(* The slots are a ProgramQueue: the mapping as a function of the table     *)

KeysOf(table, state) == {table[s].id.key : s \in InState(table, state)}
LastOf(table) ==
    CHOOSE k \in {table[s].id.key : s \in Slots} : \A s \in Slots : table[s].id.key <= k

LEMMA Mapping ==
    /\ \A state : KeysIn(state) = KeysOf(slots, state)
    /\ \A state : KeysIn(state)' = KeysOf(slots', state)
    /\ LastAccepted = LastOf(slots) /\ LastAccepted' = LastOf(slots')
BY DEF KeysIn, KeysOf, InState, LastAccepted, LastOf

\* The slot with the greatest key; there is always one.
Newest(table, s) == \A r \in Slots : table[r].id.key <= table[s].id.key
HasNewest == \E s \in Slots : Newest(slots, s)

LEMMA NewestIsLast ==
    ASSUME NEW table \in Tables, NEW s \in Slots, Newest(table, s)
    PROVE  LastOf(table) = table[s].id.key
<1> DEFINE keys == {table[r].id.key : r \in Slots}
           max(k) == \A r \in Slots : table[r].id.key <= k
<1>1. table[s].id.key \in keys /\ max(table[s].id.key)
  BY DEF Newest
<1>2. LastOf(table) \in keys /\ max(LastOf(table))
  BY <1>1 DEF LastOf
<1>3. keys \subseteq Nat
  BY FileIdMaxAssumption DEF Tables, PgmSlots, FileIds, Keys
<1>4. \A m, n \in Nat : m <= n /\ n <= m => m = n
  OBVIOUS
<1>5. LastOf(table) <= table[s].id.key /\ table[s].id.key <= LastOf(table)
  BY <1>1, <1>2
<1>6. QED
  BY <1>1, <1>2, <1>3, <1>4, <1>5

LEMMA KeysOfMembers ==
    ASSUME NEW table, NEW state, NEW key
    PROVE  key \in KeysOf(table, state) <=>
               \E s \in Slots : table[s].state = state /\ table[s].id.key = key
BY DEF KeysOf, InState

\* A slot that changes its state alone takes its key from one set to another.
LEMMA StateMoves ==
    ASSUME TypeOK, IdsDiffer, NEW s \in Slots, NEW from \in PgmStates, NEW to \in PgmStates,
           slots[s].state = from, from # "FREE", to # from,
           slots' = [slots EXCEPT ![s].state = to]
    PROVE  /\ \A r \in Slots : slots'[r].id = slots[r].id
           /\ slots[s].id.key \in KeysOf(slots, from)
           /\ KeysOf(slots', from) = KeysOf(slots, from) \ {slots[s].id.key}
           /\ KeysOf(slots', to) = KeysOf(slots, to) \cup {slots[s].id.key}
           /\ \A other \in PgmStates \ {from, to} : KeysOf(slots', other) = KeysOf(slots, other)
<1> DEFINE key == slots[s].id.key
<1>1. /\ \A r \in Slots \ {s} : slots'[r] = slots[r]
      /\ \A r \in Slots : slots'[r].id = slots[r].id
      /\ slots'[s].state = to
  BY DEF TypeOK, Tables, PgmSlots
<1>2. \A r \in Slots : slots[r].id.key = key => r = s
  BY DEF IdsDiffer
<1>3. ASSUME NEW k PROVE k \in KeysOf(slots', from) <=> k \in KeysOf(slots, from) \ {key}
  BY <1>1, <1>2 DEF KeysOf, InState
<1>4. ASSUME NEW k PROVE k \in KeysOf(slots', to) <=> k \in KeysOf(slots, to) \cup {key}
  BY <1>1 DEF KeysOf, InState
<1>5. ASSUME NEW other \in PgmStates \ {from, to}, NEW k
      PROVE  k \in KeysOf(slots', other) <=> k \in KeysOf(slots, other)
  BY <1>1 DEF KeysOf, InState
<1>6. key \in KeysOf(slots, from)
  BY KeysOfMembers
<1>7. QED
  BY <1>1, <1>3, <1>4, <1>5, <1>6

\* A program that ends, or is given up, takes its key out of the slots in use.
LEMMA EndMoves ==
    ASSUME TypeOK, IdsDiffer, NEW s \in Slots, NEW from \in {"UPLOADING", "RUNNING"},
           slots[s].state = from, slots' = [slots EXCEPT ![s].state = "FREE"]
    PROVE  /\ \A r \in Slots : slots'[r].id = slots[r].id
           /\ KeysOf(slots', from) = KeysOf(slots, from) \ {slots[s].id.key}
           /\ \A other \in {"READY_FOR_UPLOAD", "UPLOADING", "RUNNING"} \ {from} :
                  KeysOf(slots', other) = KeysOf(slots, other)
<1> DEFINE key == slots[s].id.key
<1>1. /\ \A r \in Slots \ {s} : slots'[r] = slots[r]
      /\ \A r \in Slots : slots'[r].id = slots[r].id
      /\ slots'[s].state = "FREE"
  BY DEF TypeOK, Tables, PgmSlots
<1>2. \A r \in Slots : slots[r].id.key = key => r = s
  BY DEF IdsDiffer
<1>3. ASSUME NEW k PROVE k \in KeysOf(slots', from) <=> k \in KeysOf(slots, from) \ {key}
  BY <1>1, <1>2 DEF KeysOf, InState
<1>4. ASSUME NEW other \in {"READY_FOR_UPLOAD", "UPLOADING", "RUNNING"} \ {from}, NEW k
      PROVE  k \in KeysOf(slots', other) <=> k \in KeysOf(slots, other)
  BY <1>1 DEF KeysOf, InState
<1>5. QED
  BY <1>1, <1>3, <1>4

\* A push adds its key to those that wait, and it is the greatest.
LEMMA PushMoves ==
    ASSUME SlotInv, NEW s \in Slots, Pushed(s)
    PROVE  /\ ideFile.key \in Keys
           /\ \A r \in Slots : slots[r].id.key < ideFile.key
           /\ slots' \in Tables /\ slots'[s].id.key = ideFile.key /\ Newest(slots', s)
           /\ KeysOf(slots', "READY_FOR_UPLOAD")
                  = KeysOf(slots, "READY_FOR_UPLOAD") \cup {ideFile.key}
           /\ \A other \in {"UPLOADING", "RUNNING"} : KeysOf(slots', other) = KeysOf(slots, other)
<1>1. /\ \A r \in Slots \ {s} : slots'[r] = slots[r]
      /\ slots'[s] = [id |-> ideFile, state |-> "READY_FOR_UPLOAD"]
      /\ slots[s].state = "FREE"
  BY DEF Pushed, SlotInv, TypeOK, Tables
<1>2. ideFile \in FileIds /\ ideFile.key \in Keys
  BY DEF SlotInv, TypeOK, FileIds
<1>3. \A r \in Slots : slots[r].id.key < ideFile.key
  BY DEF Pushed, SlotInv, IdsAreOld, Old
<1>4. slots' \in Tables
  BY <1>2 DEF Pushed, SlotInv, TypeOK, Tables, PgmSlots, PgmStates
<1>5. Newest(slots', s)
  BY <1>1, <1>2, <1>3, Typed, FileIdMaxAssumption DEF Newest, SlotInv, Keys
<1>6. /\ InState(slots', "READY_FOR_UPLOAD") = InState(slots, "READY_FOR_UPLOAD") \cup {s}
      /\ s \notin InState(slots, "READY_FOR_UPLOAD")
  BY <1>1 DEF InState
<1>7. KeysOf(slots', "READY_FOR_UPLOAD") = KeysOf(slots, "READY_FOR_UPLOAD") \cup {ideFile.key}
  <2>1. \A r \in InState(slots, "READY_FOR_UPLOAD") : slots'[r] = slots[r]
    BY <1>1, <1>6 DEF InState
  <2>2. QED
    BY <1>1, <1>6, <2>1 DEF KeysOf
<1>8. ASSUME NEW other \in {"UPLOADING", "RUNNING"} PROVE KeysOf(slots', other) = KeysOf(slots, other)
  <2>1. InState(slots', other) = InState(slots, other)
    BY <1>1 DEF InState
  <2>2. \A r \in InState(slots, other) : slots'[r] = slots[r]
    BY <1>1 DEF InState
  <2>3. QED
    BY <2>1, <2>2 DEF KeysOf
<1>9. QED
  BY <1>1, <1>2, <1>3, <1>4, <1>5, <1>7, <1>8

QueueInv == ServeInv /\ RunningInv /\ HasNewest

\* The ids of the table change by a push only, so the last key accepted does.
LEMMA SameLast ==
    ASSUME QueueInv, slots' \in Tables, \A r \in Slots : slots'[r].id = slots[r].id
    PROVE  LastOf(slots') = LastOf(slots) /\ HasNewest'
<1>1. PICK s \in Slots : Newest(slots, s)
  BY DEF QueueInv, HasNewest
<1>2. Newest(slots', s)
  BY <1>1 DEF Newest
<1>3. QED
  BY <1>1, <1>2, NewestIsLast DEF QueueInv, RunningInv, TypeOK, HasNewest

LEMMA QueueStep ==
    ASSUME Orderly, QueueInv, [Next]_vars, TypeOK'
    PROVE  [Queue!Next]_(Queue!vars) /\ HasNewest'
<1> USE Mapping
<1>0. /\ Lasting /\ SlotInv /\ UploadingIsHeld /\ TypeOK /\ IdsDiffer
      /\ slots' \in Tables /\ slots \in Tables
  BY DEF Orderly, QueueInv, ServeInv, SlotInv, TypeOK
<1>1. CASE slots' = slots
  BY <1>0, <1>1, SameLast DEF Queue!vars
<1>2. ASSUME NEW s \in Slots, Pushed(s) PROVE Queue!Accept(ideFile.key) /\ HasNewest'
  <2>1. PICK r \in Slots : Newest(slots, r)
    BY DEF QueueInv, HasNewest
  <2>2. LastOf(slots) = slots[r].id.key
    BY <1>0, <2>1, NewestIsLast
  <2>3. /\ \A q \in Slots : slots[q].id.key < ideFile.key
        /\ Newest(slots', s) /\ slots'[s].id.key = ideFile.key
        /\ KeysOf(slots', "READY_FOR_UPLOAD")
               = KeysOf(slots, "READY_FOR_UPLOAD") \cup {ideFile.key}
        /\ \A other \in {"UPLOADING", "RUNNING"} : KeysOf(slots', other) = KeysOf(slots, other)
    BY <1>0, <1>2, PushMoves
  <2>4. LastOf(slots') = ideFile.key
    BY <1>0, <2>3, NewestIsLast
  <2>5. ideFile.key > LastOf(slots)
    BY <1>0, <2>2, <2>3, Typed, FileIdMaxAssumption DEF Keys, TypeOK, FileIds
  <2>6. QED
    BY <2>3, <2>4, <2>5 DEF Queue!Accept, HasNewest
<1>3. ASSUME NEW s \in Slots, Taken(s) PROVE Queue!Take(slots[s].id.key) /\ HasNewest'
  <2>1. KeysOf(slots, "UPLOADING") = {} /\ KeysOf(slots, "RUNNING") = {}
    BY <1>0, <1>3 DEF Taken, UploadingIsHeld, EndSteps, QueueInv, RunningInv, UploadExclusive,
                      KeysOf, InState
  <2>2. /\ \A r \in Slots : slots'[r].id = slots[r].id
        /\ slots[s].id.key \in KeysOf(slots, "READY_FOR_UPLOAD")
        /\ KeysOf(slots', "READY_FOR_UPLOAD")
               = KeysOf(slots, "READY_FOR_UPLOAD") \ {slots[s].id.key}
        /\ KeysOf(slots', "UPLOADING") = KeysOf(slots, "UPLOADING") \cup {slots[s].id.key}
        /\ KeysOf(slots', "RUNNING") = KeysOf(slots, "RUNNING")
    BY <1>0, <1>3, StateMoves, ZenonT(40) DEF Taken, PgmStates
  <2>3. LastOf(slots') = LastOf(slots) /\ HasNewest'
    BY <1>0, <2>2, SameLast
  <2>4. QED
    BY <2>1, <2>2, <2>3 DEF Queue!Take
<1>4. ASSUME NEW s \in Slots, slots[s].state = "UPLOADING"
      PROVE  KeysOf(slots, "UPLOADING") = {slots[s].id.key}
  BY <1>4, OneUploading DEF QueueInv, KeysOf, InState
<1>5. ASSUME NEW s \in Slots, Begun(s) PROVE Queue!Begin /\ HasNewest'
  <2>1. KeysOf(slots, "UPLOADING") = {slots[s].id.key} /\ KeysOf(slots, "RUNNING") = {}
    BY <1>4, <1>5 DEF Begun, QueueInv, RunningInv, UploadExclusive, KeysOf, InState
  <2>2. /\ \A r \in Slots : slots'[r].id = slots[r].id
        /\ KeysOf(slots', "UPLOADING") = KeysOf(slots, "UPLOADING") \ {slots[s].id.key}
        /\ KeysOf(slots', "RUNNING") = KeysOf(slots, "RUNNING") \cup {slots[s].id.key}
        /\ KeysOf(slots', "READY_FOR_UPLOAD") = KeysOf(slots, "READY_FOR_UPLOAD")
    BY <1>0, <1>5, StateMoves, ZenonT(40) DEF Begun, PgmStates
  <2>3. LastOf(slots') = LastOf(slots) /\ HasNewest'
    BY <1>0, <2>2, SameLast
  <2>4. QED
    BY <2>1, <2>2, <2>3 DEF Queue!Begin
<1>6. ASSUME NEW s \in Slots, Ended(s) PROVE (Queue!GiveUp \/ Queue!End) /\ HasNewest'
  <2>1. CASE slots[s].state = "UPLOADING"
    <3>1. KeysOf(slots, "UPLOADING") = {slots[s].id.key}
      BY <1>4, <2>1
    <3>2. /\ \A r \in Slots : slots'[r].id = slots[r].id
          /\ KeysOf(slots', "UPLOADING") = KeysOf(slots, "UPLOADING") \ {slots[s].id.key}
          /\ KeysOf(slots', "RUNNING") = KeysOf(slots, "RUNNING")
          /\ KeysOf(slots', "READY_FOR_UPLOAD") = KeysOf(slots, "READY_FOR_UPLOAD")
      <4>1. slots' = [slots EXCEPT ![s].state = "FREE"]
        BY <1>6 DEF Ended
      <4>2. QED
        BY <1>0, <2>1, <4>1, EndMoves
    <3>3. LastOf(slots') = LastOf(slots) /\ HasNewest'
      BY <1>0, <3>2, SameLast
    <3>4. QED
      BY <3>1, <3>2, <3>3 DEF Queue!GiveUp
  <2>2. CASE slots[s].state = "RUNNING"
    <3>1. KeysOf(slots, "RUNNING") = {slots[s].id.key}
      BY <2>2 DEF QueueInv, RunningInv, AtMostOneRunning, KeysOf, InState
    <3>2. /\ \A r \in Slots : slots'[r].id = slots[r].id
          /\ KeysOf(slots', "RUNNING") = KeysOf(slots, "RUNNING") \ {slots[s].id.key}
          /\ KeysOf(slots', "UPLOADING") = KeysOf(slots, "UPLOADING")
          /\ KeysOf(slots', "READY_FOR_UPLOAD") = KeysOf(slots, "READY_FOR_UPLOAD")
      <4>1. slots' = [slots EXCEPT ![s].state = "FREE"]
        BY <1>6 DEF Ended
      <4>2. QED
        BY <1>0, <2>2, <4>1, EndMoves
    <3>3. LastOf(slots') = LastOf(slots) /\ HasNewest'
      BY <1>0, <3>2, SameLast
    <3>4. QED
      BY <3>1, <3>2, <3>3 DEF Queue!End
  <2>3. QED
    BY <1>6, <2>1, <2>2 DEF Ended
<1>7. \A s \in Slots : slots[s].id.key \in Keys
  BY <1>0 DEF Tables, PgmSlots, FileIds
<1>8. ideFile.key \in Keys
  BY <1>0 DEF TypeOK, FileIds
<1>9. QED
  BY <1>0, <1>1, <1>2, <1>3, <1>5, <1>6, <1>7, <1>8, TableSteps DEF Queue!Next

\* Three threads that lock nothing serve the programs as ProgramQueue says, one
\* at a time, each at most once and none lost, for every number of slots and keys.
THEOREM ImplementsQueue == ASSUME Orderly PROVE Spec => ServesQueue
<1>1. Init => Queue!Init /\ HasNewest
  <2> SUFFICES ASSUME Init PROVE Queue!Init /\ HasNewest
    OBVIOUS
  <2>1. \A s \in Slots : slots[s].id.key = 0 /\ slots[s].state = "FREE"
    BY DEF Init, BlankTable, ProgramId
  <2>2. slots \in Tables /\ 1 \in Slots
    BY InitType, SlotsNotEmpty DEF TypeOK
  <2>3. Newest(slots, 1)
    BY <2>1, <2>2 DEF Newest
  <2>4. LastOf(slots) = 0
    BY <2>1, <2>2, <2>3, NewestIsLast
  <2>5. \A state : state # "FREE" => KeysOf(slots, state) = {}
    BY <2>1 DEF KeysOf, InState
  <2>6. QED
    BY <2>2, <2>3, <2>4, <2>5, Mapping DEF Queue!Init, HasNewest
<1>2. QueueInv /\ TypeOK' /\ [Next]_vars => [Queue!Next]_(Queue!vars) /\ HasNewest'
  BY QueueStep
<1>3. ServeInv /\ RunningInv /\ HasNewest => QueueInv
  BY DEF QueueInv
<1>4. Spec => []RunningInv
  BY RunningInvariant
<1>5. QED
  BY <1>1, <1>2, <1>3, <1>4, ServeInvariant, TypeCorrect, PTL DEF Spec, ServesQueue, Queue!Spec
=============================================================================
