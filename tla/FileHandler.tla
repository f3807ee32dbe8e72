---------------------------- MODULE FileHandler ----------------------------
(***************************************************************************)
(* ASIF_SD_filehandler and ASIF_FS on the Mega: three threads read and     *)
(* write files through one SdFile object, ASIF_CurrentFile, and one buffer *)
(* for file names, both global, under the semaphore of the SPI port.       *)
(*                                                                         *)
(* A step is one access to what is shared: the semaphore, the name buffer, *)
(* the handle, a byte of the open file.  Each thread has handlers of its   *)
(* own; configFile, which all use, always has the id SYSTEM.               *)
(***************************************************************************)
EXTENDS Naturals, Sequences

CONSTANTS
    Keys,        \* keys of the programs whose files are used
    Pages,       \* the contents of callers' buffers
    Addresses,   \* addresses of program pages
    FileMax,     \* callers keep files below this size
    ClusterSize, \* bytes of a file that follow without a look at the FAT
    SDMayFail    \* an operation on the SD card may fail

Bytes == 0..255
FileIdMax == 12288     \* ASIF_FILEID_MAX, 0x3000
DatMask   == 16384     \* ASIF_FS_DATMASK; ASIF_FS_HEXMASK is the bits below it
JpgMask   == 32768     \* ASIF_FS_JPGMASK
SYSTEM    == 32763     \* ASIF_FILEID_SYSTEM, 0x7FFB
LOG       == 32762     \* ASIF_FILEID_LOG
OnNode    == 32764..32766  \* ASIF_FILEID_TEST, _SHUTDOWN and _BLANK

ASSUME KeysAssumption == Keys \subseteq 0..(FileIdMax - 1)
ASSUME PagesAssumption == Pages \subseteq Seq(Bytes)
ASSUME AddressesAssumption == Addresses \subseteq Nat
ASSUME FileMaxAssumption == FileMax \in Nat
ASSUME ClusterSizeAssumption == ClusterSize \in Nat \ {0}
ASSUME SDMayFailAssumption == SDMayFail \in BOOLEAN

VARIABLES
    sd,        \* holder of asif_spi_semaphore
    name,      \* ASIF_FS.filenamebuffer
    open,      \* the name ASIF_CurrentFile is open on, or Closed
    pos,       \* its position
    was,       \* history: the file as it was when it was opened
    stuck,     \* history: a failed open has left ASIF_CurrentFile open
    files,     \* what is on the SD card, by name
    pc,        \* where each thread is
    req,       \* its call: operation, file id, address, buffer
    reply      \* its locals: bytes done and, for a read, the bytes

vars == <<sd, name, open, pos, was, stuck, files, pc, req, reply>>

Threads == {"IDE", "ENODE", "SENSOR"}
Nobody == "nobody"

ID2PGM(id) == id % DatMask
ID2DAT(id) == (id % DatMask) + DatMask

\* Mutant: no suffix for data files
NameNoDat(id) ==
    CASE id \in OnNode -> [of |-> id, ext |-> "HEX"]
      [] id = SYSTEM   -> [of |-> id, ext |-> "MEM"]
      [] id = LOG      -> [of |-> id, ext |-> "LOG"]
      [] OTHER ->
           [of  |-> id % DatMask,
            ext |-> IF (id \div JpgMask) % 2 # 0 THEN "JPG" ELSE "HEX"]

\* getFilename.  The number in four hexadecimal digits after F_ is a number
\* below 2^14; ids of system files have names of their own.
Name(id) ==
    CASE id \in OnNode -> [of |-> id, ext |-> "HEX"]
      [] id = SYSTEM   -> [of |-> id, ext |-> "MEM"]
      [] id = LOG      -> [of |-> id, ext |-> "LOG"]
      [] OTHER ->
           [of  |-> id % DatMask,
            ext |-> IF (id \div DatMask) % 2 # 0 THEN "DAT"
                    ELSE IF (id \div JpgMask) % 2 # 0 THEN "JPG"
                    ELSE "HEX"]

FileIds == {ID2PGM(k) : k \in Keys} \cup {ID2DAT(k) : k \in Keys} \cup {SYSTEM}
Names == {Name(id) : id \in FileIds}
NoName == [of |-> 0, ext |-> ""]
Closed == NoName

Absent == [exists |-> FALSE, bytes |-> <<>>]
Present(bytes) == [exists |-> TRUE, bytes |-> bytes]

\* A call.  What the caller reads has the length of its buffer.
Ask(kind, id, at, data) == [kind |-> kind, id |-> id, at |-> at, data |-> data]
NoRequest == Ask("none", 0, 0, <<>>)

SaveRequests == {Ask("create", SYSTEM, 0, <<>>)}
                    \cup {Ask("write", SYSTEM, 0, p) : p \in Pages}
PageRequests(op, id) ==
    {Ask(op, id, a, p) : a \in Addresses, p \in Pages}

\* What each thread asks of the files of the program with key k
IdeRequests(k) ==
    {Ask("create", id, 0, <<>>) : id \in {ID2PGM(k), ID2DAT(k)}}
        \cup PageRequests("write", ID2PGM(k))
        \cup PageRequests("read", ID2PGM(k))
EnodeRequests(k) ==
    {Ask("size", ID2PGM(k), 0, <<>>)}
        \cup PageRequests("read", ID2PGM(k))
        \cup PageRequests("verify", ID2PGM(k))
SensorRequests(k) ==
    {Ask("size", ID2DAT(k), 0, <<>>)}
        \cup {Ask("append", ID2DAT(k), 0, p) : p \in Pages}

Requests ==
    [t \in Threads |-> SaveRequests \cup
        UNION {IF t = "IDE" THEN IdeRequests(k)
               ELSE IF t = "ENODE" THEN EnodeRequests(k)
               ELSE SensorRequests(k) : k \in Keys}]

ReadOnly(r) == r.kind \in {"size", "read", "verify"}   \* opened with O_READ

NoReply == [sound |-> TRUE, n |-> 0, bytes |-> <<>>]

Steps == {"idle", "lock", "name", "open", "transfer", "close", "unlock"}
At(t, step) == pc[t] = step
Goto(t, step) == pc' = [pc EXCEPT ![t] = step]
CardOutcomes == IF SDMayFail THEN BOOLEAN ELSE {TRUE}

\* The answer of t so far, and whether the card has failed it
Count(t, n, ok) ==
    reply' = [reply EXCEPT ![t].n = n, ![t].sound = @ /\ ok]

Init ==
    /\ sd = Nobody
    /\ name = NoName
    /\ open = Closed
    /\ pos = 0
    /\ was = Absent
    /\ stuck = FALSE
    /\ files = [f \in Names |-> Absent]
    /\ pc = [t \in Threads |-> "idle"]
    /\ req = [t \in Threads |-> NoRequest]
    /\ reply = [t \in Threads |-> NoReply]

-----------------------------------------------------------------------------
\* A wrapper has put the id in the form it wants and enters create, write...
Call(t, r) ==
    /\ At(t, "idle")
    /\ r.kind = "write" => r.at + Len(r.data) <= FileMax
    /\ r.kind = "append" =>
           Len(files[Name(r.id)].bytes) + Len(r.data) <= FileMax
    /\ req' = [req EXCEPT ![t] = r]
    /\ Goto(t, "lock")
    /\ UNCHANGED <<sd, name, open, pos, was, stuck, files, reply>>

\* Mutant: the lock of a build without ASIF_RTOS
LockSDNot(t) ==
    /\ At(t, "lock")
    /\ sd' = t
    /\ Goto(t, "name")
    /\ UNCHANGED <<name, open, pos, was, stuck, files, req, reply>>

LockSD(t) ==
    /\ At(t, "lock")
    /\ sd = Nobody
    /\ sd' = t
    /\ Goto(t, "name")
    /\ UNCHANGED <<name, open, pos, was, stuck, files, req, reply>>

GetFilename(t) ==
    /\ At(t, "name")
    /\ name' = Name(req[t].id)
    /\ Goto(t, "open")
    /\ UNCHANGED <<sd, open, pos, was, stuck, files, req, reply>>

-----------------------------------------------------------------------------
(* ASIF_CurrentFile.open(name, flags), then seekSet                        *)

Opened(r, file) == IF r.kind = "create" THEN Present(<<>>)
                   ELSE IF ReadOnly(r) THEN file ELSE Present(file.bytes)

\* O_AT_END for write and append
OpenedAt(r, len) == IF r.kind \in {"write", "append"} THEN len ELSE 0

\* size, create and append do not seek
Seeks(r, len) == r.kind \in {"read", "verify", "write"} /\ r.at <= len
SeekSet(r, len) == IF Seeks(r, len) THEN r.at ELSE OpenedAt(r, len)
SeeksInFat(r, len) == Seeks(r, len) /\ r.at > ClusterSize

\* The object is open already, and the card is not asked
OpenRefused(t) ==
    /\ open # Closed
    /\ Count(t, 0, TRUE)
    /\ Goto(t, "unlock")
    /\ UNCHANGED <<open, pos, was, stuck, files>>

\* Nothing to read, or the card fails: possibly when the file is created or
\* truncated already
OpenFails(t, ok) ==
    /\ open = Closed
    /\ ok => ReadOnly(req[t]) /\ ~files[name].exists
    /\ files' \in {files} \cup
           (IF ok THEN {} ELSE {[files EXCEPT ![name] = Opened(req[t], @)]})
    /\ Count(t, 0, ok)
    /\ Goto(t, "unlock")
    /\ UNCHANGED <<open, pos, was, stuck>>

\* The card fails the seek of O_AT_END: open says no but the object is open, and
\* the caller, told no, does not close it.  A seek inside the first cluster does
\* not touch the card.
OpenStays(t, ok) ==
    /\ open = Closed
    /\ ~ok
    /\ req[t].kind \in {"write", "append"}
    /\ Len(files[name].bytes) > ClusterSize
    /\ open' = name
    /\ was' = files[name]
    /\ pos' = 0
    /\ stuck' = TRUE
    /\ Count(t, 0, FALSE)
    /\ Goto(t, "unlock")
    /\ UNCHANGED files

\* seekSet past the end fails, and so it does when the card fails it.  Nobody
\* looks: the file stays where it was opened.  (After the second, the first byte
\* written may go to a cluster before the last; here it goes to the end.)
OpenSucceeds(t, ok) ==
    LET r   == req[t]
        len == Len(files[name].bytes)
    IN  /\ open = Closed
        /\ files[name].exists \/ ~ReadOnly(r)
        /\ ok \/ SeeksInFat(r, len)
        /\ open' = name
        /\ was' = files[name]
        /\ files' = [files EXCEPT ![name] = Opened(r, @)]
        /\ pos' = IF ok THEN SeekSet(r, len) ELSE OpenedAt(r, len)
        /\ Count(t, IF r.kind = "create" THEN 1 ELSE 0, ok)
        /\ Goto(t, IF r.kind = "create" THEN "close" ELSE "transfer")
        /\ UNCHANGED stuck

Open(t, ok) ==
    /\ At(t, "open")
    /\ \/ OpenRefused(t)
       \/ OpenFails(t, ok)
       \/ OpenStays(t, ok)
       \/ OpenSucceeds(t, ok)
    /\ UNCHANGED <<sd, name, req>>

-----------------------------------------------------------------------------
(* The loops, one byte each step, on the file that is open.  A byte that   *)
(* cannot be read, written or matched ends the loop.                       *)

Contents == files[open].bytes
Wanted(t) == req[t].data[reply[t].n + 1]
Unfinished(t) == At(t, "transfer") /\ reply[t].n < Len(req[t].data)

FileSize(t) ==
    /\ At(t, "transfer") /\ req[t].kind = "size"
    /\ Count(t, Len(Contents), TRUE)
    /\ Goto(t, "close")
    /\ UNCHANGED <<sd, name, open, pos, was, stuck, files, req>>

\* Mutant: a short read unlocks the card with the file open
ReadByteLeft(t, ok) ==
    /\ Unfinished(t) /\ req[t].kind = "read"
    /\ IF ok /\ pos < Len(Contents)
         THEN /\ reply' = [reply EXCEPT
                             ![t].n = @ + 1,
                             ![t].bytes = Append(@, Contents[pos + 1])]
              /\ pos' = pos + 1
              /\ UNCHANGED pc
         ELSE /\ Count(t, reply[t].n, ok)
              /\ Goto(t, "unlock")
              /\ UNCHANGED pos
    /\ UNCHANGED <<sd, name, open, was, stuck, files, req>>

ReadByte(t, ok) ==
    /\ Unfinished(t) /\ req[t].kind = "read"
    /\ IF ok /\ pos < Len(Contents)
         THEN /\ reply' = [reply EXCEPT
                             ![t].n = @ + 1,
                             ![t].bytes = Append(@, Contents[pos + 1])]
              /\ pos' = pos + 1
              /\ UNCHANGED pc
         ELSE /\ Count(t, reply[t].n, ok)
              /\ Goto(t, "close")
              /\ UNCHANGED pos
    /\ UNCHANGED <<sd, name, open, was, stuck, files, req>>

\* A byte put at a position of the file or at its end
Overlaid(bytes, at, b) ==
    IF at < Len(bytes) THEN [bytes EXCEPT ![at + 1] = b] ELSE Append(bytes, b)

WriteByte(t, ok) ==
    /\ Unfinished(t) /\ req[t].kind \in {"write", "append"}
    /\ IF ok
         THEN /\ files' = [files EXCEPT ![open].bytes =
                              Overlaid(@, pos, Wanted(t))]
              /\ pos' = pos + 1
              /\ Count(t, reply[t].n + 1, TRUE)
              /\ UNCHANGED pc
         ELSE /\ Count(t, reply[t].n, FALSE)
              /\ Goto(t, "close")
              /\ UNCHANGED <<files, pos>>
    /\ UNCHANGED <<sd, name, open, was, stuck, req>>

\* The end of the file is a mismatch
VerifyByte(t, ok) ==
    /\ Unfinished(t) /\ req[t].kind = "verify"
    /\ IF ok /\ pos < Len(Contents) /\ Contents[pos + 1] = Wanted(t)
         THEN /\ Count(t, reply[t].n + 1, TRUE)
              /\ pos' = pos + 1
              /\ UNCHANGED pc
         ELSE /\ Count(t, 0, ok)
              /\ Goto(t, "close")
              /\ UNCHANGED pos
    /\ UNCHANGED <<sd, name, open, was, stuck, files, req>>

LoopDone(t) ==
    /\ At(t, "transfer")
    /\ req[t].kind # "size"
    /\ reply[t].n = Len(req[t].data)
    /\ Count(t, IF req[t].kind = "verify" THEN 1 ELSE reply[t].n, TRUE)
    /\ Goto(t, "close")
    /\ UNCHANGED <<sd, name, open, pos, was, stuck, files, req>>

\* close() syncs the directory entry.  Nobody looks at its result: when it
\* fails, what the file gained may be lost although the caller counts it.
Close(t, ok) ==
    /\ At(t, "close")
    /\ files' \in {files} \cup
           (IF ok \/ Len(Contents) <= Len(was.bytes) THEN {} ELSE
              {[files EXCEPT ![open].bytes = SubSeq(@, 1, Len(was.bytes))]})
    /\ open' = Closed
    /\ pos' = 0
    /\ was' = Absent
    /\ Count(t, reply[t].n, ok)
    /\ Goto(t, "unlock")
    /\ UNCHANGED <<sd, name, stuck, req>>

UnlockSD(t) ==
    /\ At(t, "unlock")
    /\ sd' = Nobody
    /\ Goto(t, "idle")
    /\ req' = [req EXCEPT ![t] = NoRequest]
    /\ reply' = [reply EXCEPT ![t] = NoReply]
    /\ UNCHANGED <<name, open, pos, was, stuck, files>>

-----------------------------------------------------------------------------
Transfer(t) ==
    \/ FileSize(t)
    \/ \E ok \in CardOutcomes :
           ReadByte(t, ok) \/ WriteByte(t, ok) \/ VerifyByte(t, ok)
    \/ LoopDone(t)

Inside(t) ==
    \/ GetFilename(t)
    \/ \E ok \in CardOutcomes : Open(t, ok) \/ Close(t, ok)
    \/ Transfer(t)
    \/ UnlockSD(t)

Next ==
    \E t \in Threads :
        \/ \E r \in Requests[t] : Call(t, r)
        \/ LockSD(t)
        \/ Inside(t)

Spec == Init /\ [][Next]_vars

-----------------------------------------------------------------------------
Files == [exists : BOOLEAN, bytes : Seq(Bytes)]

AllRequests == (UNION {Requests[t] : t \in Threads}) \cup {NoRequest}

TypeOK ==
    /\ sd \in Threads \cup {Nobody}
    /\ name \in Names \cup {NoName}
    /\ open \in Names \cup {Closed}
    /\ pos \in Nat
    /\ open # Closed => pos <= Len(files[open].bytes)
    /\ was \in Files
    /\ stuck \in BOOLEAN
    /\ files \in [Names -> Files]
    /\ pc \in [Threads -> Steps]
    /\ req \in [Threads -> AllRequests]
    /\ \A t \in Threads : IF At(t, "idle") THEN req[t] = NoRequest
                                           ELSE req[t] \in Requests[t]
    /\ reply \in [Threads -> [sound : BOOLEAN, n : Nat, bytes : Seq(Bytes)]]

\* From the moment it has the name until it has closed the file, a thread finds
\* its own file under the name and the handle that all threads share.
OwnFile ==
    \A t \in Threads :
        /\ At(t, "open") => name = Name(req[t].id)
        /\ pc[t] \in {"transfer", "close"} => open = Name(req[t].id)

\* Every return, early or not, gives the lock back, and closes ASIF_CurrentFile
\* when its open succeeded: a lock left behind would stop all threads, and what
\* a thread leaves open makes every later open fail, on whatever file.  The
\* second does happen in one way, a failed open that nobody closes (stuck), and
\* then no transfer is ever made again.
NothingLeft ==
    /\ sd # Nobody => pc[sd] \notin {"idle", "lock"}
    /\ open # Closed <=> stuck \/ \E t \in Threads : pc[t] \in {"transfer", "close"}
    /\ stuck => \A t \in Threads : pc[t] \notin {"transfer", "close"}

\* While a file is open, what its users may count on is what it held before;
\* and a thread has its answer when it has closed the file.
KeptFiles == [id \in FileIds |-> IF open = Name(id) THEN was ELSE files[Name(id)]]
Answered(t) ==
    IF At(t, "unlock")
      THEN [given |-> TRUE, sound |-> reply[t].sound, n |-> reply[t].n, bytes |-> reply[t].bytes]
      ELSE [given |-> FALSE, sound |-> TRUE, n |-> 0, bytes |-> <<>>]
Answers == [t \in Threads |-> Answered(t)]

Store == INSTANCE FileStore WITH files <- KeptFiles, answer <- Answers

\* Each operation is atomic, acts on the file of its id alone, and is exact
\* unless the card failed it, until a failed open leaves the handle open, from
\* when on all are refused: but for that, one shared name and handle do for three
\* threads.
StoresFiles == Store!Spec
=============================================================================
