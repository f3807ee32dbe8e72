------------------------------ MODULE Control ------------------------------
(***************************************************************************)
(* ASIF_Control on the Mega: the program slots in RAM, their image in the  *)
(* file SYSTEM.MEM, and the threads that change them.                      *)
(*                                                                         *)
(*   MAIN    start(), before the scheduler runs: load or blank, resume,    *)
(*           save                                                          *)
(*   IDE     ASIF_ThreadIDEServer: receives a program from the host and    *)
(*           pushes it when the host leaves programming mode               *)
(*   ENODE   ASIF_ThreadENODEProg: pops a program, uploads it to the       *)
(*           experiment node, begins it or ends it                         *)
(*   SENSOR  ASIF_ThreadI2CSensor: ends the running program                *)
(*                                                                         *)
(* The threads have one priority and are preempted at any instruction.     *)
(* Nothing protects the slots: a step of this module is a stretch of code  *)
(* that reads or writes shared memory once, or one critical section of the *)
(* SD semaphore.  Power may be cut between any two steps.                  *)
(***************************************************************************)
EXTENDS ProgramTable

CONSTANTS
    KeyMayWrap,        \* more than FileIdMax sessions may follow each other
    HostSendsEmpty,    \* a host session may write no page (avrdude -n, a probe)
    HostRepeatsLeave,  \* STK_LEAVE_PROGMODE may come without ENTER before it
    HostStraysPage,    \* and so may a page, written or read
    SDMayFail,         \* an operation on the SD card may fail
    PowerMayFail       \* the board may lose power and restart

ASSUME EnvironmentAssumption ==
    {KeyMayWrap, HostSendsEmpty, HostRepeatsLeave, HostStraysPage, SDMayFail,
     PowerMayFail} \subseteq BOOLEAN

VARIABLES
    slots,      \* currentState.pgm_slots
    pgmKey,     \* currentState.pgm_key
    crc16,      \* currentState.crc16: the image it was computed from
    fsKey,      \* ASIF_FS.file_key, the last key allocated
    config,     \* SYSTEM.MEM on the SD card
    hexFiles,   \* keys whose program file is on the SD card and not empty
    ideFile,    \* file_id of the IDE thread's progfile
    buffer,     \* holder of asif_buffer_semaphore
    pc,         \* where each thread is
    op,         \* each thread's locals: program id, slot index, checksum
    fate        \* history: what became of the last program of each key

ram == <<slots, pgmKey, crc16, fsKey, ideFile, buffer, pc, op>>
vars == <<slots, pgmKey, crc16, fsKey, config, hexFiles, ideFile, buffer, pc,
          op, fate>>

Threads == {"MAIN", "IDE", "ENODE", "SENSOR"}
Free == "free"

SaveSteps == {"saveCreate", "saveKey", "saveSum", "saveCrc", "saveWrite",
              "saved"}
EndSteps == {"endCheck", "endFree"}
Steps == [MAIN   |-> {"start", "done"} \cup SaveSteps,
          IDE    |-> {"off", "idle", "create", "hooked"} \cup SaveSteps,
          ENODE  |-> {"off", "idle", "popScan", "popTake", "getSize",
                      "lockBuffer", "program", "beginScan", "beginRun"}
                         \cup EndSteps \cup SaveSteps,
          SENSOR |-> {"off", "idle"} \cup EndSteps \cup SaveSteps]

\* What crc16 covers: every byte of currentState but crc16 itself.  Images are
\* compared instead of 16-bit sums: no collision.
Images == [key : Keys, table : Tables]
NoSum == [key |-> FileIdMax, table |-> BlankTable(0)]   \* no image has this sum
Sums == Images \cup {NoSum}
MemoryImage == [key |-> pgmKey, table |-> slots]

\* SYSTEM.MEM: missing, empty or shorter than currentState, or complete.
ConfigFiles == [full : BOOLEAN, image : Images, crc : Sums]
BlankImage == [key |-> 0, table |-> BlankTable(0)]
ShortFile == [full |-> FALSE, image |-> BlankImage, crc |-> NoSum]
Loadable(file) == file.full /\ file.crc = file.image

Locals == [id : FileIds, at : Slots, sum : Sums]
NoLocals == [id |-> ProgramId(0), at |-> 1, sum |-> NoSum]

Outcomes == IF SDMayFail THEN BOOLEAN ELSE {TRUE}

PcTypeOK ==
    /\ pc \in [Threads -> UNION {Steps[t] : t \in Threads}]
    /\ \A t \in Threads : pc[t] \in Steps[t]

TypeOK ==
    /\ slots \in Tables
    /\ pgmKey \in Keys
    /\ crc16 \in Sums
    /\ fsKey \in Keys
    /\ config \in ConfigFiles
    /\ hexFiles \in SUBSET Keys
    /\ ideFile \in FileIds
    /\ buffer \in {Free, "MAIN", "IDE", "ENODE"}
    /\ PcTypeOK
    /\ op \in [Threads -> Locals]
    /\ fate \in [Keys -> {"new", "started", "ended", "exposed"}]

-----------------------------------------------------------------------------
(* Threads and memory after a reset: the C++ globals are zeroed            *)

ResetPc == [t \in Threads |-> IF t = "MAIN" THEN "start" ELSE "off"]

Init ==
    /\ slots = BlankTable(0)
    /\ pgmKey = 0
    /\ crc16 = NoSum
    /\ fsKey = 0
    /\ config = ShortFile
    /\ hexFiles = {}
    /\ ideFile = ProgramId(0)
    /\ buffer = Free
    /\ pc = ResetPc
    /\ op = [t \in Threads |-> NoLocals]
    /\ fate = [k \in Keys |-> "new"]

PowerLoss ==
    /\ PowerMayFail
    /\ slots' = BlankTable(0)
    /\ pgmKey' = 0
    /\ crc16' = NoSum
    /\ fsKey' = 0
    /\ ideFile' = ProgramId(0)
    /\ buffer' = Free
    /\ pc' = ResetPc
    /\ op' = [t \in Threads |-> NoLocals]
    /\ UNCHANGED <<config, hexFiles, fate>>

\* Records what happens to the program of a key, until the key is exposed
Record(key, event) ==
    fate' = IF fate[key] = "exposed" THEN fate ELSE [fate EXCEPT ![key] = event]

\* What a save records: the end of the program SENSOR ended, the programs that
\* are running.
RecordSaved(t) ==
    fate' = [k \in Keys |->
               IF fate[k] = "exposed" THEN "exposed"
               ELSE IF t = "SENSOR" /\ op[t].id.key = k THEN "ended"
               ELSE IF \E s \in InState(slots, "RUNNING") : slots[s].id.key = k THEN "started"
               ELSE fate[k]]

Goto(t, step) == pc' = [pc EXCEPT ![t] = step]
At(t, step) == pc[t] = step

-----------------------------------------------------------------------------
(* start(): the part before saveState.  A file that cannot be read, is too *)
(* short or fails its checksum gives blankState(0); resumeState follows in *)
(* every case.                                                             *)

\* Keys in a stored table that the stored key does not cover: the next sessions
\* allocate them a second time.  A free slot counts, because it keeps its id and
\* endProgram compares ids only.
ExposedKeys(image) ==
    {k \in Keys : k > image.key /\ \E s \in Slots : image.table[s].id.key = k}

Load(image) ==
    /\ pgmKey' = image.key
    /\ slots' = Resumed(image.table)
    /\ fsKey' = image.key
    /\ fate' = [k \in Keys |-> IF k \in ExposedKeys(image) THEN "exposed"
                                                           ELSE fate[k]]

Start(readable) ==
    /\ At("MAIN", "start")
    /\ IF readable /\ Loadable(config)
         THEN Load(config.image)
         ELSE Load(BlankImage)
    /\ crc16' = IF readable /\ config.full THEN config.crc ELSE crc16
    /\ buffer' = "MAIN"
    /\ Goto("MAIN", "saveCreate")
    /\ UNCHANGED <<config, hexFiles, ideFile, op>>

-----------------------------------------------------------------------------
(* saveState(), run by any thread.  The two accesses to SYSTEM.MEM are     *)
(* critical sections of the SD semaphore, released between them.           *)

SaveCreate(t, created) ==
    /\ At(t, "saveCreate")
    /\ config' = IF created THEN ShortFile ELSE config
    /\ Goto(t, IF created THEN "saveKey" ELSE "saved")
    /\ UNCHANGED <<slots, pgmKey, crc16, fsKey, hexFiles, ideFile, buffer, op,
                   fate>>

SaveKey(t) ==
    /\ At(t, "saveKey")
    /\ pgmKey' = fsKey
    /\ Goto(t, "saveSum")
    /\ UNCHANGED <<slots, crc16, fsKey, config, hexFiles, ideFile, buffer, op,
                   fate>>

SaveSum(t) ==
    /\ At(t, "saveSum")
    /\ op' = [op EXCEPT ![t].sum = MemoryImage]
    /\ Goto(t, "saveCrc")
    /\ UNCHANGED <<slots, pgmKey, crc16, fsKey, config, hexFiles, ideFile,
                   buffer, fate>>

SaveCrc(t) ==
    /\ At(t, "saveCrc")
    /\ crc16' = op[t].sum
    /\ op' = [op EXCEPT ![t].sum = NoSum]
    /\ Goto(t, "saveWrite")
    /\ UNCHANGED <<slots, pgmKey, fsKey, config, hexFiles, ideFile, buffer,
                   fate>>

\* Mutant: writes the copy its checksum was computed from
SaveWriteCopy(t, written) ==
    /\ At(t, "saveWrite")
    /\ config' = IF written /\ crc16 # NoSum
                   THEN [full |-> TRUE, image |-> crc16, crc |-> crc16]
                   ELSE config
    /\ Goto(t, "saved")
    /\ IF written THEN RecordSaved(t) ELSE UNCHANGED fate
    /\ UNCHANGED <<slots, pgmKey, crc16, fsKey, hexFiles, ideFile, buffer, op>>

\* Writes currentState as it is now at offset 0.  A write that fails half-way
\* leaves a short file short, and an older complete one torn.
SaveWrite(t, written) ==
    /\ At(t, "saveWrite")
    /\ IF written
         THEN config' = [full |-> TRUE, image |-> MemoryImage, crc |-> crc16]
         ELSE config' \in {config, [config EXCEPT !.crc = NoSum]}
    /\ Goto(t, "saved")
    /\ IF written THEN RecordSaved(t) ELSE UNCHANGED fate
    /\ UNCHANGED <<slots, pgmKey, crc16, fsKey, hexFiles, ideFile, buffer, op>>

SaveState(t) ==
    \/ \E ok \in Outcomes : SaveCreate(t, ok) \/ SaveWrite(t, ok)
    \/ SaveKey(t)
    \/ SaveSum(t)
    \/ SaveCrc(t)

-----------------------------------------------------------------------------
(* What each thread does when its saveState returns.  No caller looks at   *)
(* the result.                                                             *)

\* end of start(); chBegin then creates the threads
StartDone ==
    /\ At("MAIN", "saved")
    /\ buffer' = Free
    /\ pc' = [t \in Threads |-> IF t = "MAIN" THEN "done" ELSE "idle"]
    /\ UNCHANGED <<slots, pgmKey, crc16, fsKey, config, hexFiles, ideFile, op,
                   fate>>

\* end of the IDE thread's trigger(): unlockBuffer
IdeDone ==
    /\ At("IDE", "saved")
    /\ buffer' = Free
    /\ Goto("IDE", "idle")
    /\ UNCHANGED <<slots, pgmKey, crc16, fsKey, config, hexFiles, ideFile, op,
                   fate>>

\* end of the other two threads' trigger()
TriggerDone(t) ==
    /\ t \in {"ENODE", "SENSOR"}
    /\ At(t, "saved")
    /\ Goto(t, "idle")
    /\ op' = [op EXCEPT ![t] = NoLocals]
    /\ UNCHANGED <<slots, pgmKey, crc16, fsKey, config, hexFiles, ideFile,
                   buffer, fate>>

-----------------------------------------------------------------------------
(* The IDE thread.  It takes the buffer semaphore for a command, and keeps *)
(* it from ENTER_PROGMODE until it has executed a LEAVE_PROGMODE.          *)

OutOfSession == At("IDE", "idle") /\ buffer = Free

LockedBuffer == \/ At("IDE", "hooked") /\ buffer' = buffer
                \/ At("IDE", "idle") /\ buffer = Free /\ buffer' = "IDE"

\* createProgram: allocFile,
EnterProgmode ==
    LET key == NextKey(fsKey)
    IN  /\ KeyMayWrap \/ key # 0
        /\ LockedBuffer
        /\ fsKey' = key
        /\ ideFile' = ProgramId(key)
        /\ Record(key, "new")
        /\ Goto("IDE", "create")
        /\ UNCHANGED <<slots, pgmKey, crc16, config, hexFiles, op>>

\* then create (truncate) the program's file and, if that succeeds, that of its
\* data, of which only the handler's id shows.  The thread stays hooked
\* whatever the outcome.
CreateProgram(pgmCreated) ==
    /\ At("IDE", "create")
    /\ ideFile' = IF pgmCreated THEN ID2DAT(ideFile) ELSE ideFile
    /\ hexFiles' = IF pgmCreated THEN hexFiles \ {ideFile.key} ELSE hexFiles
    /\ Goto("IDE", "hooked")
    /\ UNCHANGED <<slots, pgmKey, crc16, fsKey, config, buffer, op, fate>>

\* onProgPage, onReadPage: writeProgramPage and readProgramPage put the
\* handler's id in program form; nothing is written by the second
ProgPage(written) ==
    /\ At("IDE", "hooked") \/ (HostStraysPage /\ OutOfSession)
    /\ ideFile' = ID2PGM(ideFile)
    /\ hexFiles' = IF written THEN hexFiles \cup {ideFile.key} ELSE hexFiles
    /\ UNCHANGED <<slots, pgmKey, crc16, fsKey, config, buffer, pc, op, fate>>

CanPushProgram == InState(slots, "FREE") # {}

\* Mutant: takes any slot that is not on its way to the node
PushProgramOver(id) ==
    \E s \in Slots :
        /\ IsFirst(s, Slots \ (InState(slots, "UPLOADING")
                                  \cup InState(slots, "RUNNING")))
        /\ slots' = [slots EXCEPT ![s] =
                        [id |-> id, state |-> "READY_FOR_UPLOAD"]]

\* pushProgram: the first free slot
PushProgram(id) ==
    \E s \in Slots :
        /\ IsFirst(s, InState(slots, "FREE"))
        /\ slots' = [slots EXCEPT ![s] =
                        [id |-> id, state |-> "READY_FOR_UPLOAD"]]

\* closeProgram: a program that finds no free slot is dropped
CloseProgram ==
    \/ /\ CanPushProgram
       /\ PushProgram(ideFile)
       /\ buffer' = "IDE"
       /\ Goto("IDE", "saveCreate")
    \/ /\ ~CanPushProgram
       /\ buffer' = Free
       /\ Goto("IDE", "idle")
       /\ UNCHANGED slots

LeaveProgmode ==
    /\ \/ /\ At("IDE", "hooked")
          /\ HostSendsEmpty \/ ideFile.key \in hexFiles
       \/ HostRepeatsLeave /\ OutOfSession
    /\ CloseProgram
    /\ UNCHANGED <<pgmKey, crc16, fsKey, config, hexFiles, ideFile, op, fate>>

-----------------------------------------------------------------------------
(* endProgram(id), run by ENODE after a failed upload and by SENSOR.  It   *)
(* frees every slot that carries the id, whatever its state; the test of a *)
(* slot and the write to it are separate steps.                            *)

\* Mutant: no comparison with the id
EndCheckAny(t) ==
    /\ At(t, "endCheck")
    /\ Goto(t, "endFree")
    /\ UNCHANGED <<slots, pgmKey, crc16, fsKey, config, hexFiles, ideFile,
                   buffer, op, fate>>

EndCheck(t) ==
    LET at == op[t].at
        next == at + 1
    IN  /\ At(t, "endCheck")
        /\ IF slots[at].id = op[t].id
             THEN Goto(t, "endFree") /\ UNCHANGED op
             ELSE IF next \in Slots
                    THEN op' = [op EXCEPT ![t].at = next] /\ UNCHANGED pc
                    ELSE Goto(t, "saveCreate") /\ UNCHANGED op
        /\ UNCHANGED <<slots, pgmKey, crc16, fsKey, config, hexFiles, ideFile,
                       buffer, fate>>

\* Mutant: the loop has no bound
EndFreeOn(t) ==
    LET at == op[t].at
    IN  /\ At(t, "endFree")
        /\ slots' = [slots EXCEPT ![at] = [id |-> op[t].id, state |-> "FREE"]]
        /\ op' = [op EXCEPT ![t].at = at + 1]
        /\ Goto(t, "endCheck")
        /\ UNCHANGED <<pgmKey, crc16, fsKey, config, hexFiles, ideFile, buffer,
                       fate>>

EndFree(t) ==
    LET at == op[t].at
        next == at + 1
    IN  /\ At(t, "endFree")
        /\ slots' = [slots EXCEPT ![at] = [id |-> op[t].id, state |-> "FREE"]]
        /\ IF next \in Slots
             THEN op' = [op EXCEPT ![t].at = next] /\ Goto(t, "endCheck")
             ELSE Goto(t, "saveCreate") /\ UNCHANGED op
        /\ UNCHANGED <<pgmKey, crc16, fsKey, config, hexFiles, ideFile, buffer,
                       fate>>

EndProgram(t) == EndCheck(t) \/ EndFree(t)

-----------------------------------------------------------------------------
(* The ENODE thread                                                        *)

\* Mutant: does not look for a running program
HasProgramWaiting ==
    /\ At("ENODE", "idle")
    /\ InState(slots, "READY_FOR_UPLOAD") # {}
    /\ Goto("ENODE", "popScan")
    /\ UNCHANGED <<slots, pgmKey, crc16, fsKey, config, hexFiles, ideFile,
                   buffer, op, fate>>

\* Mutant: stops one slot short
HasProgramShort ==
    /\ At("ENODE", "idle")
    /\ InState(slots, "RUNNING") = {}
    /\ InState(slots, "READY_FOR_UPLOAD") \ {NumSlots} # {}
    /\ Goto("ENODE", "popScan")
    /\ UNCHANGED <<slots, pgmKey, crc16, fsKey, config, hexFiles, ideFile,
                   buffer, op, fate>>

\* hasProgram: no program runs, and one is ready.  Both scans are one step:
\* only this thread makes a program run, only IDE makes one ready.
HasProgram ==
    /\ At("ENODE", "idle")
    /\ InState(slots, "RUNNING") = {}
    /\ InState(slots, "READY_FOR_UPLOAD") # {}
    /\ Goto("ENODE", "popScan")
    /\ UNCHANGED <<slots, pgmKey, crc16, fsKey, config, hexFiles, ideFile,
                   buffer, op, fate>>

PopScan ==
    LET ready == InState(slots, "READY_FOR_UPLOAD")
    IN  /\ At("ENODE", "popScan")
        /\ IF ready = {}
             THEN Goto("ENODE", "idle") /\ UNCHANGED op
             ELSE /\ \E s \in Slots :
                       /\ IsFirst(s, ready)
                       /\ op' = [op EXCEPT !["ENODE"].at = s]
                  /\ Goto("ENODE", "popTake")
        /\ UNCHANGED <<slots, pgmKey, crc16, fsKey, config, hexFiles, ideFile,
                       buffer, fate>>

\* popProgram does not save: on the SD card the program stays ready
PopTake ==
    LET at == op["ENODE"].at
    IN  /\ At("ENODE", "popTake")
        /\ slots' = [slots EXCEPT ![at].state = "UPLOADING"]
        /\ op' = [op EXCEPT !["ENODE"].id = slots[at].id]
        /\ Goto("ENODE", "getSize")
        /\ UNCHANGED <<pgmKey, crc16, fsKey, config, hexFiles, ideFile, buffer,
                       fate>>

\* getProgramSize() > 0, else trigger() returns and leaves the slot UPLOADING
GetSize(readable) ==
    /\ At("ENODE", "getSize")
    /\ IF readable /\ op["ENODE"].id.key \in hexFiles
         THEN Goto("ENODE", "lockBuffer") /\ UNCHANGED op
         ELSE /\ Goto("ENODE", "idle")
              /\ op' = [op EXCEPT !["ENODE"] = NoLocals]
    /\ UNCHANGED <<slots, pgmKey, crc16, fsKey, config, hexFiles, ideFile,
                   buffer, fate>>

LockBuffer ==
    /\ At("ENODE", "lockBuffer")
    /\ buffer = Free
    /\ buffer' = "ENODE"
    /\ Goto("ENODE", "program")
    /\ UNCHANGED <<slots, pgmKey, crc16, fsKey, config, hexFiles, ideFile, op,
                   fate>>

\* Mutant: a failed upload only reports its error
ProgramNodeNoEnd(uploaded) ==
    /\ At("ENODE", "program")
    /\ buffer' = Free
    /\ op' = [op EXCEPT !["ENODE"].at = 1]
    /\ Goto("ENODE", IF uploaded THEN "beginScan" ELSE "idle")
    /\ UNCHANGED <<slots, pgmKey, crc16, fsKey, config, hexFiles, ideFile,
                   fate>>

\* Up to five calls of programNode, then unlockBuffer
ProgramNode(uploaded) ==
    /\ At("ENODE", "program")
    /\ buffer' = Free
    /\ op' = [op EXCEPT !["ENODE"].at = 1]
    /\ Goto("ENODE", IF uploaded THEN "beginScan" ELSE "endCheck")
    /\ UNCHANGED <<slots, pgmKey, crc16, fsKey, config, hexFiles, ideFile,
                   fate>>

\* beginProgram: the first slot that carries the id and is UPLOADING
BeginScan ==
    LET popped == HasId(slots, op["ENODE"].id) \cap InState(slots, "UPLOADING")
    IN  /\ At("ENODE", "beginScan")
        /\ IF popped = {}
             THEN /\ Goto("ENODE", "idle")
                  /\ op' = [op EXCEPT !["ENODE"] = NoLocals]
             ELSE /\ \E s \in Slots :
                       /\ IsFirst(s, popped)
                       /\ op' = [op EXCEPT !["ENODE"].at = s]
                  /\ Goto("ENODE", "beginRun")
        /\ UNCHANGED <<slots, pgmKey, crc16, fsKey, config, hexFiles, ideFile,
                       buffer, fate>>

BeginRun ==
    /\ At("ENODE", "beginRun")
    /\ slots' = [slots EXCEPT ![op["ENODE"].at].state = "RUNNING"]
    /\ Goto("ENODE", "saveCreate")
    /\ UNCHANGED <<pgmKey, crc16, fsKey, config, hexFiles, ideFile, buffer, op,
                   fate>>

-----------------------------------------------------------------------------
(* The SENSOR thread, on a message that ends the running program: EXIT,    *)
(* CAM, or an APPEND that takes its data past ASIF_DATA_LIMIT.  Any other  *)
(* message leaves the slots alone.                                         *)

\* getRunningProgram: the first slot that is RUNNING, if there is one
GetRunningProgram(id) ==
    \E s \in Slots : IsFirst(s, InState(slots, "RUNNING")) /\ id = slots[s].id

EndingMessage ==
    /\ At("SENSOR", "idle")
    /\ \E id \in FileIds :
         /\ GetRunningProgram(id)
         /\ op' = [op EXCEPT !["SENSOR"] = [id |-> id, at |-> 1, sum |-> NoSum]]
    /\ Goto("SENSOR", "endCheck")
    /\ UNCHANGED <<slots, pgmKey, crc16, fsKey, config, hexFiles, ideFile,
                   buffer, fate>>

-----------------------------------------------------------------------------
Main == \/ \E ok \in Outcomes : Start(ok)
        \/ SaveState("MAIN")
        \/ StartDone

Ide == \/ EnterProgmode
       \/ \E ok \in Outcomes : CreateProgram(ok)
       \/ \E written \in BOOLEAN : ProgPage(written)
       \/ LeaveProgmode
       \/ SaveState("IDE")
       \/ IdeDone

Enode == \/ HasProgram
         \/ PopScan
         \/ PopTake
         \/ \E ok \in Outcomes : GetSize(ok)
         \/ LockBuffer
         \/ \E ok \in BOOLEAN : ProgramNode(ok)
         \/ BeginScan
         \/ BeginRun
         \/ EndProgram("ENODE")
         \/ SaveState("ENODE")
         \/ TriggerDone("ENODE")

Sensor == \/ EndingMessage
          \/ EndProgram("SENSOR")
          \/ SaveState("SENSOR")
          \/ TriggerDone("SENSOR")

Next == Main \/ Ide \/ Enode \/ Sensor \/ PowerLoss

Spec == Init /\ [][Next]_vars

\* The scheduler is round-robin among equal priorities, so a thread that can
\* step does step; semaphores queue their waiters in order, so a thread whose
\* semaphore keeps becoming free gets it.  Nothing is assumed of the host or
\* of the program on the node.
Fairness ==
    /\ WF_vars(Main)
    /\ WF_vars((\E ok \in Outcomes : CreateProgram(ok)) \/ SaveState("IDE") \/
               IdeDone)
    /\ WF_vars(Enode)
    /\ SF_vars(LockBuffer)
    /\ WF_vars(EndProgram("SENSOR") \/ SaveState("SENSOR") \/
               TriggerDone("SENSOR"))

FairSpec == Spec /\ Fairness

-----------------------------------------------------------------------------
\* hasProgram keeps a second program off the node: at most one slot is ever
\* RUNNING, although begin and end, on two threads, lock nothing.
AtMostOneRunning ==
    \A r, s \in Slots :
        slots[r].state = "RUNNING" /\ slots[s].state = "RUNNING" => r = s

\* A slot is UPLOADING only while the ENODE thread is working on it: no upload,
\* failed or not, leaves its slot behind.
UploadingIsHeld ==
    \A s \in InState(slots, "UPLOADING") :
        /\ pc["ENODE"] \in {"getSize", "lockBuffer", "program", "beginScan",
                            "beginRun"} \cup EndSteps
        /\ slots[s].id = op["ENODE"].id

\* A program that was accepted waits in its slot until the ENODE thread pops
\* it: no scan of another thread frees or overwrites the slot, and the file it
\* was received in is not truncated (pages may still be written to it).
AcceptedWaits ==
    [][\A s \in InState(slots, "READY_FOR_UPLOAD") :
           /\ slots'[s].id = slots[s].id
           /\ slots'[s].state \in {"READY_FOR_UPLOAD", "UPLOADING"}
           /\ slots[s].id.key \in hexFiles => slots[s].id.key \in hexFiles']_vars

\* A program whose end was saved is not uploaded or run again, not even by a
\* restart that loads a table another thread was writing.
EndedStaysEnded ==
    \A s \in Slots :
        fate[slots[s].id.key] = "ended" =>
            slots[s].state \notin {"READY_FOR_UPLOAD", "UPLOADING", "RUNNING"}

\* A program that was RUNNING when the table was saved is not uploaded again:
\* a restart frees its slot, lest it bring the node down for ever.
RanIsNotRepeated ==
    \A s \in Slots :
        fate[slots[s].id.key] = "started" =>
            slots[s].state \notin {"READY_FOR_UPLOAD", "UPLOADING"}

\* The slots are a ProgramQueue.  A freed slot keeps its id and a new program
\* has a greater key, so the greatest key of the table is the last accepted.
KeysIn(state) == {slots[s].id.key : s \in InState(slots, state)}

LastAccepted ==
    CHOOSE k \in {slots[s].id.key : s \in Slots} :
        \A s \in Slots : slots[s].id.key <= k

Queue == INSTANCE ProgramQueue
             WITH last <- LastAccepted,
                  waiting <- KeysIn("READY_FOR_UPLOAD"),
                  inHand <- KeysIn("UPLOADING"),
                  running <- KeysIn("RUNNING")

\* Three threads that lock nothing serve the programs one at a time, each at
\* most once, and lose none: what they do to the slots is a ProgramQueue.
ServesQueue == Queue!Spec

\* If the program on the node always ends and the host always leaves
\* programming mode, programs do not wait for ever: the ENODE thread gets to
\* pop, or the end of a program frees the last slot that waits with its id.
WaitingIsServed ==
    ([]<>(InState(slots, "RUNNING") = {}) /\ []<>(pc["IDE"] = "idle"))
        => ((pc["MAIN"] = "done" /\ InState(slots, "READY_FOR_UPLOAD") # {})
                ~> (\/ pc["ENODE"] = "popTake"
                    \/ InState(slots, "READY_FOR_UPLOAD") = {}))
=============================================================================
