---------------------------- MODULE ProgramTable ----------------------------
(***************************************************************************)
(* The slot table of the AS-IF master node (ASIF_ENodeProgram, the array   *)
(* currentState.pgm_slots of ASIF_Control.cpp), the file keys that name a  *)
(* program on the SD card (ASIF_FS), and the clean-up a restart makes of   *)
(* the table.  Pure operators: the modules that keep the table as state    *)
(* extend this one.                                                        *)
(***************************************************************************)
EXTENDS Naturals

CONSTANTS NumSlots,    \* ASIF_PROGRAM_AVAILABLESLOTS: 8 on the Mega
          FileIdMax    \* ASIF_FILEID_MAX: keys are allocated below it

ASSUME NumSlotsAssumption == NumSlots \in Nat \ {0}
ASSUME FileIdMaxAssumption == FileIdMax \in Nat \ {0}

Slots == 1..NumSlots

\* _enode_programstate.  PGM_ALLOCATED, PGM_RECEIVING and PGM_ERROR_UPLOADING
\* are declared by the code and assigned nowhere.
PgmStates == {"FREE", "ALLOCATED", "RECEIVING", "READY_FOR_UPLOAD",
              "UPLOADING", "ERROR_UPLOADING", "RUNNING", "TERMINATED"}

Keys == 0..(FileIdMax - 1)

\* A file id is a key and the file of that program it designates: the program
\* text (ASIF_FS_ID2PGM) or its data (ASIF_FS_ID2DAT).  Two ids of the same
\* program in different forms are different 16-bit numbers, and pgm_id is
\* compared with == on the number.
FileIds == [key : Keys, form : {"HEX", "DAT"}]
ID2PGM(id) == [key |-> id.key, form |-> "HEX"]
ID2DAT(id) == [key |-> id.key, form |-> "DAT"]
ProgramId(key) == [key |-> key, form |-> "HEX"]

\* allocFile: the key wraps to 0 at ASIF_FILEID_MAX
NextKey(key) == IF key + 1 >= FileIdMax THEN 0 ELSE key + 1

\* A slot; `started` only matters to cleanPrograms, which nothing calls.
PgmSlots == [id : FileIds, state : PgmStates]
Tables == [Slots -> PgmSlots]

InState(table, state) == {s \in Slots : table[s].state = state}
HasId(table, id) == {s \in Slots : table[s].id = id}

\* What a scan for (i = 0; ...; i++) that stops at a member of S returns
IsFirst(s, S) == s \in S /\ \A r \in S : s <= r

\* Mutant: a program that was running is uploaded again
ResumedStateAll(state) ==
    IF state \in {"READY_FOR_UPLOAD", "UPLOADING", "ERROR_UPLOADING", "RUNNING"}
    THEN "READY_FOR_UPLOAD" ELSE "FREE"

\* resumeState: what becomes of each slot state of the stored table
ResumedState(state) ==
    CASE state \in {"READY_FOR_UPLOAD", "UPLOADING", "ERROR_UPLOADING"}
             -> "READY_FOR_UPLOAD"
      [] state = "RUNNING" -> "TERMINATED"
      [] OTHER -> "FREE"

Resumed(table) ==
    [s \in Slots |-> [table[s] EXCEPT !.state = ResumedState(@)]]

\* blankState: every slot free, under the key the blank state starts from
BlankTable(key) ==
    [s \in Slots |-> [id |-> ProgramId(key), state |-> "FREE"]]
=============================================================================
