----------------------------- MODULE FileStore -----------------------------
(***************************************************************************)
(* What the SD file handler promises its callers, without names, handle or *)
(* lock: each operation on a file takes effect at one moment between the   *)
(* call and the answer, on that file only.  If the card did not fail, file *)
(* and answer are those of the operation; if it did, only the file of the  *)
(* operation suffers, and no file suffers from being read.  A write that   *)
(* the card failed may also leave the store stuck: it has changed nothing, *)
(* and every operation from then on is refused and changes nothing.        *)
(***************************************************************************)
EXTENDS Naturals, Sequences

CONSTANTS Threads, FileIds, Requests

VARIABLES
    files,     \* by file id: does it exist, and what is in it
    req,       \* what each thread has asked for
    answer,    \* what it is answered
    stuck      \* is every operation refused

vars == <<files, req, answer, stuck>>

NoRequest == [kind |-> "none", id |-> 0, at |-> 0, data |-> <<>>]
NoAnswer == [given |-> FALSE, sound |-> TRUE, n |-> 0, bytes |-> <<>>]
Answer(n, bytes) == [given |-> TRUE, sound |-> TRUE, n |-> n, bytes |-> bytes]

Absent == [exists |-> FALSE, bytes |-> <<>>]
Present(bytes) == [exists |-> TRUE, bytes |-> bytes]
ReadOnly(r) == r.kind \in {"size", "read", "verify"}

\* Where a transfer starts: at the address when it is in the file, else where
\* the file was opened, at its start for a read and at its end for a write.
From(r, bytes) ==
    IF r.kind # "append" /\ r.at <= Len(bytes) THEN r.at
    ELSE IF ReadOnly(r) THEN 0 ELSE Len(bytes)

\* The part of the file under the caller's buffer: what is read or compared
Covered(r, bytes) ==
    LET first == From(r, bytes) + 1
        last  == From(r, bytes) + Len(r.data)
    IN  SubSeq(bytes, first, IF last <= Len(bytes) THEN last ELSE Len(bytes))

\* The file with the buffer put over it
Put(r, bytes) ==
    LET at == From(r, bytes)
    IN  SubSeq(bytes, 1, at) \o r.data
            \o SubSeq(bytes, at + Len(r.data) + 1, Len(bytes))

After(r, file) ==
    CASE ReadOnly(r)       -> file
      [] r.kind = "create" -> Present(<<>>)
      [] OTHER             -> Present(Put(r, file.bytes))

Reply(r, file) ==
    CASE r.kind = "create" -> Answer(1, <<>>)
      [] r.kind = "size"   -> Answer(Len(file.bytes), <<>>)
      [] r.kind = "read"   -> Answer(Len(Covered(r, file.bytes)),
                                     Covered(r, file.bytes))
      [] r.kind = "verify" -> Answer(IF /\ file.exists
                                        /\ Covered(r, file.bytes) = r.data
                                       THEN 1 ELSE 0, <<>>)
      [] OTHER             -> Answer(Len(r.data), <<>>)

Init ==
    /\ files = [id \in FileIds |-> Absent]
    /\ req = [t \in Threads |-> NoRequest]
    /\ answer = [t \in Threads |-> NoAnswer]
    /\ stuck = FALSE

Call(t, r) ==
    /\ req[t] = NoRequest
    /\ req' = [req EXCEPT ![t] = r]
    /\ UNCHANGED <<files, answer, stuck>>

InProgress(t) == req[t] # NoRequest /\ ~answer[t].given

Perform(t) ==
    LET r == req[t]
    IN  /\ InProgress(t)
        /\ ~stuck
        /\ answer' = [answer EXCEPT ![t] = Reply(r, files[r.id])]
        /\ files' = [files EXCEPT ![r.id] = After(r, @)]
        /\ UNCHANGED <<req, stuck>>

Refuse(t) ==
    /\ InProgress(t)
    /\ stuck
    /\ answer' = [answer EXCEPT ![t] = Answer(0, <<>>)]
    /\ UNCHANGED <<files, req, stuck>>

\* The card failed: nothing is said of the answer and of the file written
Spoil(t) ==
    LET r == req[t]
    IN  /\ InProgress(t)
        /\ ~stuck
        /\ answer'[t].given /\ ~answer'[t].sound
        /\ \A u \in Threads \ {t} : answer'[u] = answer[u]
        /\ \A id \in FileIds :
               id # r.id \/ ReadOnly(r) => files'[id] = files[id]
        /\ DOMAIN answer' = Threads /\ DOMAIN files' = FileIds
        /\ stuck' \in BOOLEAN
        /\ stuck' => r.kind \in {"write", "append"} /\ files' = files
        /\ UNCHANGED req

Return(t) ==
    /\ answer[t].given
    /\ req' = [req EXCEPT ![t] = NoRequest]
    /\ answer' = [answer EXCEPT ![t] = NoAnswer]
    /\ UNCHANGED <<files, stuck>>

Next ==
    \E t \in Threads :
        \/ \E r \in Requests[t] : Call(t, r)
        \/ Perform(t)
        \/ Refuse(t)
        \/ Spoil(t)
        \/ Return(t)

Spec == Init /\ [][Next]_vars
=============================================================================
