---------------------------- MODULE StreamServer ----------------------------
(***************************************************************************)
(* STK_StreamServer and the session of the IDE thread: a host (Arduino     *)
(* IDE, avrdude) sends a program over the serial port, page by page, and   *)
(* the commands write it to the SD card.                                   *)
(*                                                                         *)
(* The host is external: it sends one command at a time and goes on when   *)
(* it is acknowledged; after any other answer, or none, it lets the line   *)
(* go quiet and sends the command again (a page, with its address).  When  *)
(* all pages are acknowledged it reads them back, then leaves.  The line   *)
(* loses bytes in both directions; read() does not wait, so it may miss a  *)
(* byte that is about to come.                                             *)
(*                                                                         *)
(* Bytes are numbers, those of stk_defs.h.  An address on the line counts  *)
(* words of two bytes.                                                     *)
(***************************************************************************)
EXTENDS Naturals, SequencesExt, FiniteSetsExt

CONSTANTS
    PageSize,   \* STK_PROG_PAGE_SIZE: 128; a page is of whole words
    PageFlash,  \* STK_PAGE_FLASH, 'F': a byte that, as a length, is less
    NumPages,   \* pages of the program
    DataBytes,  \* bytes programs are made of
    MaxFaults   \* bound: bytes lost or missed, failures of the SD card

ASSUME SizesAssumption ==
    /\ PageSize \in 1..255 /\ PageFlash \in 1..(PageSize - 1)
    /\ PageSize % 2 = 0
    /\ NumPages \in Nat \ {0} /\ NumPages * PageSize <= 65536
    /\ DataBytes \subseteq 0..255
    /\ MaxFaults \in Nat

VARIABLES
    program,   \* what the host sends
    step,      \* the command of its session it is at
    waiting,   \* it has sent it and waits for the answer
    acked,     \* pages acknowledged
    verified,  \* pages it has read back, and found right
    toServer,  \* bytes on the line and in the receive buffer of the IDE port
    toHost,    \* bytes on the line to the host
    pc,        \* the IDE thread: between commands, in fill(), in the handler
    cmd,       \* the command
    buff,      \* the bytes fill() returned
    addr,      \* current_addr
    hooked,    \* trigger() loops until STK_LEAVE_PROGMODE
    file,      \* content of the program's file
    faults     \* faults so far

hostVars == <<program, step, waiting, acked, verified>>
serverVars == <<pc, cmd, buff, addr, hooked, file>>
vars == <<hostVars, serverVars, toServer, toHost, faults>>

CRC_EOP == 32
GET_SYNC == 48
GET_SIGN_ON == 49
GET_PARAMETER == 65
SET_DEVICE == 66
SET_DEVICE_EXT == 69
ENTER_PROGMODE == 80
LEAVE_PROGMODE == 81
LOAD_ADDRESS == 85
UNIVERSAL == 86
PROG_FLASH == 96
PROG_DATA == 97
PROG_PAGE == 100
READ_PAGE == 116
READ_SIGN == 117

STK_OK == 16
FAILED == 17
UNKNOWN == 18
INSYNC == 20
NOSYNC == 21
Blank == 0     \* read() when nothing is there; memset; other bytes answered

Fault == faults < MaxFaults /\ faults' = faults + 1
Pages == 1..NumPages
SizeOf(p) == Len(program[p])
Offset(p) == (p - 1) * PageSize

-----------------------------------------------------------------------------
(* The session of the host: sync, enter, address and page for each page,   *)
(* address and read for each page, leave                                   *)

LastStep == 3 + 4 * NumPages
PageAt(s) == (((s - 3) \div 2) % NumPages) + 1

CommandAt(s) ==
    CASE s = 1        -> GET_SYNC
      [] s = 2        -> ENTER_PROGMODE
      [] s = LastStep -> LEAVE_PROGMODE
      [] OTHER        -> IF s % 2 = 1 THEN LOAD_ADDRESS
                         ELSE IF s <= 2 + 2 * NumPages THEN PROG_PAGE
                         ELSE READ_PAGE

\* The word address of a page, low byte first; its length, high byte first
Address(p) == LET word == Offset(p) \div 2 IN <<word % 256, word \div 256>>
Size(p) == <<SizeOf(p) \div 256, SizeOf(p) % 256>>

BytesOf(s) ==
    LET p == PageAt(s)
    IN  <<CommandAt(s)>>
        \o (CASE CommandAt(s) = LOAD_ADDRESS -> Address(p)
              [] CommandAt(s) = PROG_PAGE    -> Size(p) \o <<PageFlash>>
                                                       \o program[p]
              [] CommandAt(s) = READ_PAGE    -> Size(p) \o <<PageFlash>>
              [] OTHER                       -> <<>>)
        \o <<CRC_EOP>>

AnswerSize ==
    2 + (IF CommandAt(step) = READ_PAGE THEN SizeOf(PageAt(step)) ELSE 0)

\* The answer is all there, and an acknowledgement
Acknowledged ==
    /\ Len(toHost) >= AnswerSize
    /\ toHost[1] = INSYNC /\ toHost[AnswerSize] = STK_OK

HostSends ==
    /\ ~waiting /\ step <= LastStep
    /\ toServer' = toServer \o BytesOf(step)
    /\ waiting' = TRUE
    /\ UNCHANGED <<program, step, acked, verified, toHost, serverVars, faults>>

\* A page read back wrong ends the session: the host leaves
HostGoesOn ==
    LET p == PageAt(step)
        right == SubSeq(toHost, 2, AnswerSize - 1) = program[p]
        reading == CommandAt(step) = READ_PAGE
    IN  /\ waiting /\ Acknowledged
        /\ waiting' = FALSE
        /\ toHost' = SubSeq(toHost, AnswerSize + 1, Len(toHost))
        /\ acked' = acked \cup {q \in {p} : CommandAt(step) = PROG_PAGE}
        /\ verified' = verified \cup {q \in {p} : reading /\ right}
        /\ step' = IF reading /\ ~right THEN LastStep ELSE step + 1
        /\ UNCHANGED <<program, toServer, serverVars, faults>>

\* Any other answer, or none before the host's timeout: it sends again
HostRetries ==
    /\ waiting /\ ~Acknowledged
    /\ pc = "idle" /\ toServer = <<>>
    /\ waiting' = FALSE
    /\ toHost' = <<>>
    /\ step' = IF CommandAt(step) \in {PROG_PAGE, READ_PAGE} THEN step - 1
                                                          ELSE step
    /\ UNCHANGED <<program, acked, verified, toServer, serverVars, faults>>

LineLosesByte ==
    /\ Fault
    /\ \/ /\ \E i \in 1..Len(toServer) : toServer' = RemoveAt(toServer, i)
          /\ UNCHANGED toHost
       \/ /\ \E i \in 1..Len(toHost) : toHost' = RemoveAt(toHost, i)
          /\ UNCHANGED toServer
    /\ UNCHANGED <<hostVars, serverVars>>

-----------------------------------------------------------------------------
(* The program's file, opened at its end.  A seek past the end fails and   *)
(* its result is ignored.                                                  *)

\* writeProgramPage
Written(content, at, data) ==
    LET from == Min({at, Len(content)})
    IN  [i \in 1..Max({from + Len(data), Len(content)}) |->
            IF i \in (from + 1)..(from + Len(data)) THEN data[i - from]
                                                  ELSE content[i]]

\* readProgramPage into a blank buffer, which is sent whatever was read
ReadBack(content, at, size) ==
    LET from == IF at > Len(content) THEN 0 ELSE at
    IN  [i \in 1..size |-> IF from + i <= Len(content) THEN content[from + i]
                                                     ELSE Blank]

-----------------------------------------------------------------------------
(* The IDE thread.  Its steps: a command byte is read; fill() returns; the *)
(* handler does its work, answers, and trigger() looks at the command.     *)

\* isTriggered(), read(), resetBuffer()
onCommand ==
    /\ pc = "idle" /\ toServer # <<>>
    /\ cmd' = Head(toServer)
    /\ toServer' = Tail(toServer)
    /\ buff' = <<>>
    /\ pc' = "fill"
    /\ UNCHANGED <<hostVars, toHost, addr, hooked, file, faults>>

\* Bytes the handler of a command asks fill() for; onGetParameter and
\* onProgFlash take theirs without waiting
Expected(c) ==
    CASE c = LOAD_ADDRESS   -> 3
      [] c = PROG_PAGE      -> PageSize + 3
      [] c = READ_PAGE      -> 4
      [] c = SET_DEVICE     -> 20
      [] c = SET_DEVICE_EXT -> 5
      [] c = UNIVERSAL      -> 4
      [] c = GET_PARAMETER  -> 1
      [] c = PROG_FLASH     -> IF Len(toServer) < 2 THEN 0 ELSE 2
      [] OTHER              -> 0

\* Mutant: no timeout
fillWaits ==
    /\ pc = "fill" /\ Len(toServer) >= Expected(cmd)
    /\ buff' = SubSeq(toServer, 1, Expected(cmd))
    /\ toServer' = SubSeq(toServer, Expected(cmd) + 1, Len(toServer))
    /\ pc' = "handle"
    /\ UNCHANGED <<hostVars, toHost, cmd, addr, hooked, file, faults>>

\* Mutant: expectedLen is not looked at
fillAll ==
    /\ pc = "fill"
    /\ buff' = toServer /\ toServer' = <<>>
    /\ pc' = "handle"
    /\ UNCHANGED <<hostVars, toHost, cmd, addr, hooked, file, faults>>

\* All it asked for, or what there is when the line has been silent for the
\* timeout
fill ==
    /\ pc = "fill"
    /\ LET n == Min({Len(toServer), Expected(cmd)})
       IN  /\ buff' = SubSeq(toServer, 1, n)
           /\ toServer' = SubSeq(toServer, n + 1, Len(toServer))
    /\ pc' = "handle"
    /\ UNCHANGED <<hostVars, toHost, cmd, addr, hooked, file, faults>>

\* buff[i - 1]
Buff(i) == IF i <= Len(buff) THEN buff[i] ELSE Blank

\* The handler of one of these commands is at its end: trigger() leaves its
\* loop on STK_LEAVE_PROGMODE, and enters it on STK_ENTER_PROGMODE
Handles(commands) ==
    /\ pc = "handle" /\ cmd \in commands
    /\ pc' = "idle"
    /\ hooked' = (cmd = ENTER_PROGMODE \/ (hooked /\ cmd # LEAVE_PROGMODE))
    /\ UNCHANGED <<hostVars, cmd, buff>>

\* input->read(): the next byte, unless it comes just too late
Reads(late) ==
    /\ toServer' = IF late \/ toServer = <<>> THEN toServer ELSE Tail(toServer)
    /\ IF late THEN toServer # <<>> /\ Fault ELSE UNCHANGED faults

ReadsEop(late) == ~late /\ toServer # <<>> /\ Head(toServer) = CRC_EOP

Answers(bytes) == toHost' = toHost \o bytes

\* reply_empty, reply_byte
Replies(late, extra) ==
    /\ Reads(late)
    /\ Answers(IF ReadsEop(late) THEN <<INSYNC>> \o extra \o <<STK_OK>>
                                 ELSE <<NOSYNC>>)

\* The commands that are only answered
Queries == {GET_SYNC, SET_DEVICE, SET_DEVICE_EXT, PROG_FLASH, GET_PARAMETER,
            UNIVERSAL, READ_SIGN, GET_SIGN_ON}

\* Those that are answered STK_INSYNC when all is well
Commands == Queries \cup {ENTER_PROGMODE, LEAVE_PROGMODE, LOAD_ADDRESS,
                         READ_PAGE, PROG_PAGE}

OneByte == {GET_PARAMETER, UNIVERSAL, GET_SIGN_ON}

\* Only onGetSignOn leaves a bad one without an answer
onQuery(late) ==
    /\ Handles(Queries)
    /\ IF cmd = GET_SIGN_ON /\ ~ReadsEop(late)
         THEN Reads(late) /\ UNCHANGED toHost
         ELSE Replies(late, CASE cmd = READ_SIGN -> <<Blank, Blank, Blank>>
                              [] cmd \in OneByte -> <<Blank>>
                              [] OTHER -> <<>>)
    /\ UNCHANGED <<addr, file>>

\* A new file, empty if it could be created; if not, a write creates it
onEnterProgmode(late, created) ==
    /\ Handles({ENTER_PROGMODE})
    /\ file' = <<>>
    /\ \/ created /\ Replies(late, <<>>)
       \/ /\ ~created /\ ~late /\ Fault
          /\ toServer' = IF toServer = <<>> THEN toServer ELSE Tail(toServer)
          /\ Answers(<<FAILED>>)
    /\ UNCHANGED addr

\* What closeProgram does is in Control
onLeaveProgmode(late) ==
    /\ Handles({LEAVE_PROGMODE})
    /\ Replies(late, <<>>)
    /\ UNCHANGED <<addr, file>>

\* Mutant: the low byte is lost in the sum
onLoadAddressHigh ==
    /\ Handles({LOAD_ADDRESS})
    /\ addr' = (2 * 256 * Buff(2)) % 65536
    /\ Answers(IF Buff(3) = CRC_EOP THEN <<INSYNC, STK_OK>> ELSE <<NOSYNC>>)
    /\ UNCHANGED <<toServer, file, faults>>

\* current_addr, 16 bits, changes even if the command is refused
onLoadAddress ==
    /\ Handles({LOAD_ADDRESS})
    /\ addr' = (2 * (Buff(1) + 256 * Buff(2))) % 65536
    /\ Answers(IF Buff(3) = CRC_EOP THEN <<INSYNC, STK_OK>> ELSE <<NOSYNC>>)
    /\ UNCHANGED <<toServer, file, faults>>

\* When the file cannot be read a blank page is answered
onReadPage(readable) ==
    LET size == Buff(1) * 256 + Buff(2)
    IN  /\ Handles({READ_PAGE})
        /\ Answers(IF Buff(4) # CRC_EOP THEN <<NOSYNC>>
                   ELSE IF Buff(3) # PageFlash THEN <<FAILED>>
                   ELSE <<INSYNC>>
                        \o ReadBack(IF readable THEN file ELSE <<>>, addr, size)
                        \o <<STK_OK>>)
        /\ IF readable THEN UNCHANGED faults ELSE Fault
        /\ UNCHANGED <<addr, toServer, file>>

-----------------------------------------------------------------------------
(* STK_PROG_PAGE.  The CRC_EOP of a full page is read after fill(); that   *)
(* of a shorter one must be the last byte fill() got before its timeout.   *)

Length == Buff(1) * 256 + Buff(2)
Full == Length = PageSize

PageReceived == Len(buff) >= Length + 3
\* Mutant: the end of a full page is not checked
PageEndedAny(late) == Full \/ Last(buff) = CRC_EOP
PageEnded(late) == IF Full THEN ReadsEop(late) ELSE Last(buff) = CRC_EOP

ReadsPageEnd(late) ==
    IF Full THEN Reads(late) ELSE ~late /\ UNCHANGED <<toServer, faults>>

ProgPageShort ==
    /\ ~PageReceived
    /\ Answers(<<NOSYNC>>)
    /\ UNCHANGED <<file, toServer, faults>>

ProgPageUnended(late) ==
    /\ PageReceived /\ ~PageEnded(late)
    /\ ReadsPageEnd(late)
    /\ Answers(<<NOSYNC>>)
    /\ UNCHANGED file

\* writeProgramPage wrote n of the bytes
ProgPageWritten(n) ==
    /\ PageReceived /\ PageEnded(FALSE)
    /\ Buff(3) = PageFlash
    /\ toServer' = IF Full /\ toServer # <<>> THEN Tail(toServer) ELSE toServer
    /\ file' = Written(file, addr, SubSeq(buff, 4, 3 + n))
    /\ IF n < Length THEN Fault /\ Answers(<<FAILED>>)
                     ELSE UNCHANGED faults /\ Answers(<<INSYNC, STK_OK>>)

\* EEPROM is refused; any other memory is not answered
ProgPageElsewhere ==
    /\ PageReceived /\ PageEnded(FALSE)
    /\ Buff(3) # PageFlash
    /\ ReadsPageEnd(FALSE)
    /\ Answers(IF Buff(3) = SET_DEVICE_EXT THEN <<NOSYNC>> ELSE <<>>)
    /\ UNCHANGED file

onProgPage ==
    /\ Handles({PROG_PAGE})
    /\ \/ ProgPageShort
       \/ \E late \in BOOLEAN : ProgPageUnended(late)
       \/ \E n \in 0..Length : ProgPageWritten(n)
       \/ ProgPageElsewhere
    /\ UNCHANGED addr

\* CRC_EOP and unknown bytes: how the host gets back in sync.  PROG_DATA does
\* nothing and is not answered.
onUnknown(late) ==
    /\ Handles((0..255) \ Commands)
    /\ IF cmd \in {CRC_EOP, PROG_DATA}
         THEN /\ ~late /\ UNCHANGED <<toServer, faults>>
              /\ Answers(IF cmd = CRC_EOP THEN <<NOSYNC>> ELSE <<>>)
         ELSE /\ Reads(late)
              /\ Answers(IF ReadsEop(late) THEN <<UNKNOWN>> ELSE <<NOSYNC>>)
    /\ UNCHANGED <<addr, file>>

-----------------------------------------------------------------------------
TypeOK ==
    /\ program \in [Pages -> Seq(DataBytes)]
    /\ step \in 1..(LastStep + 1)
    /\ waiting \in BOOLEAN /\ hooked \in BOOLEAN
    /\ acked \subseteq Pages /\ verified \subseteq acked
    /\ toServer \in Seq(0..255) /\ toHost \in Seq(0..255)
    /\ pc \in {"idle", "fill", "handle"}
    /\ cmd \in 0..255
    /\ buff \in Seq(0..255)
    /\ (Len(buff) <= Expected(cmd) \/ cmd = PROG_FLASH)
    /\ addr \in 0..65535
    /\ file \in Seq(0..255)
    /\ faults \in 0..MaxFaults

Init ==
    /\ program \in {p \in [Pages -> BoundedSeq(DataBytes, PageSize)] :
                       /\ \A i \in Pages : p[i] # <<>>
                       /\ \A i \in 1..(NumPages - 1) : Len(p[i]) = PageSize}
    /\ step = 1 /\ waiting = FALSE
    /\ acked = {} /\ verified = {}
    /\ toServer = <<>> /\ toHost = <<>>
    /\ pc = "idle" /\ cmd = GET_SYNC /\ buff = <<>>
    /\ addr = 0
    /\ hooked = FALSE
    /\ file = <<>>
    /\ faults = 0

Host == HostSends \/ HostGoesOn \/ HostRetries

Server ==
    \/ onCommand
    \/ fill
    \/ \E late \in BOOLEAN : \/ onQuery(late)
                             \/ onLeaveProgmode(late)
                             \/ onUnknown(late)
    \/ \E late, created \in BOOLEAN : onEnterProgmode(late, created)
    \/ onLoadAddress
    \/ \E readable \in BOOLEAN : onReadPage(readable)
    \/ onProgPage

Next == Host \/ Server \/ LineLosesByte

Spec == Init /\ [][Next]_vars

\* The thread is never blocked: reads time out.  The host retries.
FairSpec == Spec /\ WF_vars(Server) /\ WF_vars(Host)

-----------------------------------------------------------------------------
Stored(p) == /\ Len(file) >= Offset(p) + SizeOf(p)
             /\ SubSeq(file, Offset(p) + 1, Offset(p) + SizeOf(p)) = program[p]

\* "flash memory @here, (length) bytes": a page that was acknowledged is in
\* the file, at its place, and no later command, retry or stray byte taken
\* for a command spoils it.
AckedIsStored == \A p \in acked : Stored(p)

\* Nothing in the address and the size of a page reads as a command when the
\* bytes before it are lost.  (Word address 16#3000 has a GET_SYNC in it.)
PlainPlace(p) == Commands \cap Range(Address(p) \o Size(p)) = {}

\* Nor does its data; or, if it does, too few bytes were lost for the answer
\* to be the acknowledgement the host waits for
PlainData(p) == faults <= 2 \/ Commands \cap Range(program[p]) = {}

\* It is, however many bytes are lost, if all pages are full (a short page
\* that lost a byte is taken for whole), their address, size and data do not
\* read as commands, and no byte of the data may be taken for the memory type
\* or starts another file.  Data may read as the other commands as long as no
\* more than two bytes were lost or late.
PlainIsStored ==
    (\A p \in Pages :
        /\ SizeOf(p) = PageSize
        /\ {PageFlash, ENTER_PROGMODE} \cap Range(program[p]) = {}
        /\ PlainPlace(p) /\ PlainData(p))
    => AckedIsStored

\* A page the host has read back right is in the file, whatever else is in the
\* program and however many bytes are lost, if no page ends in a zero byte
\* (what the file or the card does not give is answered as zeros) and no
\* address or size reads as a command.
VerifiedIsStored ==
    (\A p \in Pages : Last(program[p]) # Blank /\ PlainPlace(p))
    => \A p \in verified : Stored(p)

\* However many bytes were lost, the host gets to the end of its session and
\* the IDE thread out of its loop: the buffer is not held for ever.
SessionEnds == <>[](step > LastStep /\ ~hooked)
=============================================================================
