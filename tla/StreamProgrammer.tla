-------------------------- MODULE StreamProgrammer --------------------------
(***************************************************************************)
(* STK_StreamProgrammer::programNode and the retry loop of the ENODE       *)
(* thread around it: the master uploads a program to the experiment node,  *)
(* command by command, over a serial line, and reads it back.              *)
(*                                                                         *)
(* The node is external: its bootloader answers commands, its application  *)
(* does not but may print on the same line.  The line may lose a command   *)
(* or a byte of an answer, and damage a page on its way; an answer may     *)
(* come after the timeout of the read that waits for it, and is then the   *)
(* answer the next read finds.  A page is one byte of an answer here, and  *)
(* so is the signature.                                                    *)
(***************************************************************************)
EXTENDS Naturals, SequencesExt

CONSTANTS
    NumPages,    \* pages of the program
    MaxTries,    \* calls of programNode by the ENODE thread: 5
    MaxFaults,   \* bound: line faults and late answers in one upload
    MaxPrinted,  \* bound: bytes the application prints ahead of the master
    SDMayFail    \* reading the program on the SD card may fail

ASSUME BoundsAssumption ==
    /\ NumPages \in Nat \ {0} /\ MaxTries \in Nat \ {0}
    /\ MaxFaults \in Nat /\ MaxPrinted \in Nat
    /\ SDMayFail \in BOOLEAN

VARIABLES
    pc,        \* the ENODE thread: sends, waits for the answer, delays, is done
    stage,     \* the command programNode is at
    page,      \* the page it is at
    tries,     \* calls of programNode, the current one included
    ret,       \* its last result
    outcome,   \* what the ENODE thread made of it
    toNode,    \* commands on the line
    fromNode,  \* bytes on the line and in the receive buffer of the port
    node,      \* the experiment node
    faults     \* faults so far

vars == <<pc, stage, page, tries, ret, outcome, toNode, fromNode, node, faults>>

Pages == 1..NumPages
Wrong == 0             \* any content of a page but the right one
Program == [p \in Pages |-> p]

Byte(kind, data) == [kind |-> kind, data |-> data]
INSYNC == Byte("INSYNC", Wrong)
OK == Byte("OK", Wrong)
PRINTED == Byte("printed", Wrong)
SIGNATURE(right) == Byte("signature", IF right THEN 1 ELSE Wrong)
Bytes == [kind : {"INSYNC", "OK", "printed", "signature", "page"},
          data : Pages \cup {Wrong}]

Stages == {"init", "sync", "params", "enter", "sign", "sync2", "load", "prog",
           "verifyLoad", "read", "leave"}
Commands == [cmd : Stages, page : Pages, data : Pages \cup {Wrong}]
Results == {"OK", "NOSYNC", "NONFATAL", "NOFILE", "BUTFINE", "UNVERIFIED",
            "FATAL", "DANGER"}

Nodes == [mode : {"app", "boot"}, right : BOOLEAN, addr : Pages,
          flash : [Pages -> Pages \cup {Wrong}]]

TypeOK ==
    /\ pc \in {"send", "answer", "delay", "done"}
    /\ stage \in Stages
    /\ page \in Pages
    /\ tries \in 1..MaxTries
    /\ ret \in Results
    /\ outcome \in {"none", "begun", "ended"}
    /\ toNode \in Seq(Commands)
    /\ fromNode \in Seq(Bytes)
    /\ node \in Nodes
    /\ faults \in 0..MaxFaults

\* trigger() has popped the program and holds the buffer; t_ret is -1
Init ==
    /\ pc = "send"
    /\ stage = "init"
    /\ page = 1
    /\ tries = 1
    /\ ret = "NOSYNC"
    /\ outcome = "none"
    /\ toNode = <<>>
    /\ fromNode = <<>>
    /\ node \in [mode : {"app"}, right : BOOLEAN, addr : {1},
                 flash : {[p \in Pages |-> Wrong]}]
    /\ faults = 0

SDOutcomes == IF SDMayFail THEN BOOLEAN ELSE {TRUE}

-----------------------------------------------------------------------------
(* The node                                                                *)

\* What the bootloader does with a command
Execute(c) ==
    CASE c.cmd \in {"load", "verifyLoad"} -> [node EXCEPT !.addr = c.page]
      [] c.cmd = "prog"  -> [node EXCEPT !.flash[node.addr] = c.data]
      [] c.cmd = "leave" -> [node EXCEPT !.mode = "app"]
      [] OTHER           -> node

AnswerTo(c) ==
    CASE c.cmd = "sign" -> <<INSYNC, SIGNATURE(node.right), OK>>
      [] c.cmd = "read" -> <<INSYNC, Byte("page", node.flash[node.addr]), OK>>
      [] OTHER          -> <<INSYNC, OK>>

NodeTakes ==
    /\ toNode # <<>>
    /\ toNode' = Tail(toNode)
    /\ IF node.mode = "boot"
         THEN /\ node' = Execute(Head(toNode))
              /\ fromNode' = fromNode \o AnswerTo(Head(toNode))
         ELSE UNCHANGED <<node, fromNode>>
    /\ UNCHANGED <<pc, stage, page, tries, ret, outcome, faults>>

\* The application prints
NodePrints ==
    /\ node.mode = "app" /\ pc # "done"
    /\ Len(fromNode) < MaxPrinted
    /\ fromNode' = Append(fromNode, PRINTED)
    /\ UNCHANGED <<pc, stage, page, tries, ret, outcome, toNode, node, faults>>

\* The watchdog of the bootloader starts the application
NodeLeavesBoot ==
    /\ node.mode = "boot"
    /\ node' = [node EXCEPT !.mode = "app"]
    /\ UNCHANGED <<pc, stage, page, tries, ret, outcome, toNode, fromNode,
                   faults>>

-----------------------------------------------------------------------------
(* The line                                                                *)

Fault == faults < MaxFaults /\ faults' = faults + 1

LineLosesCommand ==
    /\ Fault
    /\ toNode # <<>>
    /\ toNode' = Tail(toNode)
    /\ UNCHANGED <<pc, stage, page, tries, ret, outcome, fromNode, node>>

LineLosesByte ==
    /\ Fault
    /\ \E i \in DOMAIN fromNode : fromNode' = RemoveAt(fromNode, i)
    /\ UNCHANGED <<pc, stage, page, tries, ret, outcome, toNode, node>>

LineDamagesPage ==
    /\ Fault
    /\ \E i \in DOMAIN toNode :
         /\ toNode[i].cmd = "prog"
         /\ toNode' = [toNode EXCEPT ![i].data = Wrong]
    /\ UNCHANGED <<pc, stage, page, tries, ret, outcome, fromNode, node>>

-----------------------------------------------------------------------------
(* programNode                                                             *)

\* Bound: no more commands wait on the line than answers may be late
Send(command) ==
    /\ pc = "send"
    /\ Len(toNode) <= MaxFaults
    /\ toNode' = Append(toNode, command)
    /\ pc' = "answer"
    /\ UNCHANGED <<stage, page, tries, ret, outcome, faults>>

Command(data) == [cmd |-> stage, page |-> page, data |-> data]

\* init(): a reset of the node, then a first STK_GET_SYNC.  Its answer, or two
\* bytes of what the application printed, is read and ignored.
ResetNode ==
    /\ stage = "init"
    /\ pc = "send"
    /\ node' = [node EXCEPT !.mode = "boot"]
    /\ toNode' = <<Command(Wrong)>>
    /\ pc' = "answer"
    /\ UNCHANGED <<stage, page, tries, ret, outcome, fromNode, faults>>

\* The result of readProgramPage is ignored: when the SD card fails, what is
\* programmed is the buffer as resetBuffer() left it.
SendCommand ==
    /\ stage # "init"
    /\ \E read \in SDOutcomes :
         Send(Command(IF stage = "prog" /\ read THEN Program[page] ELSE Wrong))
    /\ UNCHANGED <<node, fromNode>>

Expected == IF stage \in {"sign", "read"} THEN 3 ELSE 2

\* fill() ends with the bytes expected, or when none comes for the timeout.
\* A timeout while a command is still on its way to a node that will answer
\* is a late answer.
Received == IF Len(fromNode) < Expected THEN Len(fromNode) ELSE Expected
Answer == SubSeq(fromNode, 1, Received)
Rest == SubSeq(fromNode, Received + 1, Len(fromNode))

fill == IF Received < Expected /\ toNode # <<>> THEN Fault ELSE UNCHANGED faults

stk_checksyncanswer ==
    /\ Len(Answer) >= 2
    /\ Answer[1] = INSYNC
    /\ Last(Answer) = OK

verifySignature == Len(Answer) = 3 /\ Answer[2] = SIGNATURE(TRUE)

\* Mutant: the page read back is not compared with the file
verifyProgramPageNot(readable) == Len(Answer) = 3 /\ readable

\* stk_readpage wants the whole page; verifyProgramPage reads the file again
verifyProgramPage(readable) ==
    /\ Len(Answer) = 3
    /\ readable
    /\ Answer[2] = Byte("page", Program[page])

\* The next command
Continue(next, nextPage) ==
    /\ pc' = "send"
    /\ stage' = next
    /\ page' = nextPage
    /\ UNCHANGED <<tries, ret, outcome>>

\* Mutant: one try too many
ReturnLate(result) ==
    /\ ret' = result
    /\ outcome' = IF result = "OK" THEN "begun"
                  ELSE IF tries > MaxTries THEN "ended" ELSE "none"
    /\ pc' = IF result = "OK" \/ tries > MaxTries THEN "done" ELSE "delay"
    /\ UNCHANGED <<stage, page, tries>>

\* programNode returns.  A success begins the program; a failure is retried
\* after a delay, and after the last try ends the program.
Return(result) ==
    /\ ret' = result
    /\ outcome' = IF result = "OK" THEN "begun"
                  ELSE IF tries = MaxTries THEN "ended" ELSE "none"
    /\ pc' = IF result = "OK" \/ tries = MaxTries THEN "done" ELSE "delay"
    /\ UNCHANGED <<stage, page, tries>>

\* What programNode returns when the command of a stage is not acknowledged
FailureAt(s) ==
    CASE s \in {"params", "enter", "sign"} -> "NONFATAL"
      [] s \in {"load", "prog"}            -> "DANGER"
      [] s \in {"verifyLoad", "read"}      -> "UNVERIFIED"
      [] s = "leave"                       -> "BUTFINE"

\* The stages in order, when acknowledged
Acknowledged ==
    CASE stage = "params" -> Continue("enter", 1)
      [] stage = "enter"  -> Continue("sign", 1)
      [] stage = "load"   -> Continue("prog", page)
      [] stage = "prog"   -> IF page < NumPages THEN Continue("load", page + 1)
                                                ELSE Continue("verifyLoad", 1)
      [] stage = "verifyLoad" -> Continue("read", page)
      [] stage = "read"   -> IF page < NumPages
                               THEN Continue("verifyLoad", page + 1)
                               ELSE Continue("leave", 1)
      [] stage = "leave"  -> Return("OK")

\* The first answer is ignored; the sync loop starts
InitAnswered ==
    /\ pc = "answer" /\ stage = "init"
    /\ fill
    /\ fromNode' = Rest
    /\ Continue("sync", 1)
    /\ UNCHANGED <<toNode, node>>

\* stk_getsync, acknowledged.  Only the first loop purges after that.
Synced ==
    /\ pc = "answer" /\ stage \in {"sync", "sync2"}
    /\ fill
    /\ stk_checksyncanswer
    /\ fromNode' = IF stage = "sync" THEN <<>> ELSE Rest
    /\ \E size \in SDOutcomes :
         IF stage = "sync" THEN Continue("params", 1)
         ELSE IF size THEN Continue("load", 1)
         ELSE Return("NOFILE")
    /\ UNCHANGED <<toNode, node>>

\* No sync: what has come is purged; then another request, or the end of the
\* two seconds programNode gives it
NoSync ==
    /\ pc = "answer" /\ stage \in {"sync", "sync2"}
    /\ fill
    /\ ~stk_checksyncanswer
    /\ fromNode' = <<>>
    /\ UNCHANGED <<toNode, node>>

SyncAgain == NoSync /\ Continue(stage, 1)
\* Mutant: the two seconds are counted from the last request
GiveUpSyncNever == NoSync /\ Continue(stage, 1)
GiveUpSync == NoSync /\ Return("NOSYNC")

\* stk_getsignature
Signed ==
    /\ pc = "answer" /\ stage = "sign"
    /\ fill
    /\ fromNode' = Rest
    /\ IF ~stk_checksyncanswer THEN Return("NONFATAL")
       ELSE IF verifySignature THEN Continue("sync2", 1)
       ELSE Return("FATAL")
    /\ UNCHANGED <<toNode, node>>

\* The commands whose acknowledgement is all there is to check, and the page
\* read back
Answered ==
    /\ pc = "answer" /\ stage \notin {"init", "sync", "sign", "sync2"}
    /\ fill
    /\ fromNode' = Rest
    /\ \E readable \in SDOutcomes :
         IF stk_checksyncanswer /\ (stage = "read" => verifyProgramPage(readable))
           THEN Acknowledged
           ELSE Return(FailureAt(stage))
    /\ UNCHANGED <<toNode, node>>

-----------------------------------------------------------------------------
(* The loop of the ENODE thread.  It delays after any failure and calls    *)
(* programNode again whatever the result was.                              *)

Retry ==
    /\ pc = "delay"
    /\ tries' = tries + 1
    /\ pc' = "send"
    /\ stage' = "init"
    /\ page' = 1
    /\ UNCHANGED <<ret, outcome, toNode, fromNode, node, faults>>

ProgramNode == ResetNode \/ SendCommand \/ InitAnswered \/ Synced \/ SyncAgain
                   \/ GiveUpSync \/ Signed \/ Answered
Node == NodeTakes \/ NodePrints \/ NodeLeavesBoot
Line == LineLosesCommand \/ LineLosesByte \/ LineDamagesPage

Next == ProgramNode \/ Retry \/ Node \/ Line

Spec == Init /\ [][Next]_vars

\* The master is never blocked: reads time out.  The clock runs, so a loop
\* that keeps asking for a sync gives up.  What is sent arrives or is lost;
\* nothing is assumed of the node: it may be gone to its application.
FairSpec == /\ Spec
            /\ WF_vars(ProgramNode \/ Retry)
            /\ WF_vars(NodeTakes)
            /\ SF_vars(GiveUpSync)

-----------------------------------------------------------------------------
\* A program is begun only on a node whose flash is the program, whatever the
\* line lost, whichever answers came late and were taken for those of later
\* commands, and whatever earlier tries left behind.
BegunIsProgrammed == outcome = "begun" => node.flash = Program /\ node.right

\* "Interrupted, but it should be okay": the flash is right then too.
ButFineIsProgrammed ==
    ret = "BUTFINE" /\ pc \in {"delay", "done"} => node.flash = Program

\* The ENODE thread always gets out of the upload, and gives the buffer and
\* the slot back: no answer the node may give or withhold keeps it there.
UploadEnds == <>(outcome # "none")
=============================================================================
