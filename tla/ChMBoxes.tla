------------------------------ MODULE ChMBoxes ------------------------------
(***************************************************************************)
(* Mailboxes of ChibiOS/RT (chmboxes.c): a ring of messages between two    *)
(* semaphores, one that counts the messages and one that counts the free   *)
(* places.  A thread that waited owns the message or the place from the    *)
(* moment the semaphore lets it go, and uses it only when it runs.         *)
(***************************************************************************)
EXTENDS ChSem

CONSTANTS
    Full, Empty,    \* mb_fullsem and mb_emptysem
    BoxSize,        \* the number of places
    Msgs            \* the messages posted

ASSUME MBoxesAssumption ==
    Full \in Objects /\ Empty \in Objects /\ Full # Empty /\ BoxSize \in Nat \ {0}

VARIABLES
    box,            \* the ring, places 0 to BoxSize - 1
    wrptr, rdptr,   \* the next place to write, the next one to read
    mail,           \* history: the messages posted and not fetched, in the
                    \* order they are to be fetched; no code reads it
    stray           \* history: how many threads the last reset found let go
                    \* and not run, each still owning the unit it took
boxVars == <<box, wrptr, rdptr, mail, stray>>

BoxInit ==
    /\ box = [i \in 0..BoxSize - 1 |-> None]
    /\ wrptr = 0 /\ rdptr = 0 /\ mail = <<>> /\ stray = 0

After(i) == IF i + 1 >= BoxSize THEN 0 ELSE i + 1
Before(i) == IF i - 1 < 0 THEN BoxSize - 1 ELSE i - 1

\* The mail is told from the ring only while the units add up.
MailIs(now) == mail' = (IF stray = 0 THEN now ELSE <<>>) /\ UNCHANGED stray

\* Writing a message at the end or ahead of the others, reading the first.
Write(m) ==
    /\ box' = [box EXCEPT ![wrptr] = m]
    /\ wrptr' = After(wrptr) /\ UNCHANGED rdptr
    /\ MailIs(Append(mail, m))
\* Mutant: writes where the reader is, and only then steps back
WriteAheadLate(m) ==
    /\ box' = [box EXCEPT ![rdptr] = m]
    /\ rdptr' = Before(rdptr) /\ UNCHANGED wrptr
    /\ MailIs(<<m>> \o mail)

WriteAhead(m) ==
    /\ rdptr' = Before(rdptr) /\ UNCHANGED wrptr
    /\ box' = [box EXCEPT ![Before(rdptr)] = m]
    /\ MailIs(<<m>> \o mail)
Read ==
    /\ rdptr' = After(rdptr) /\ UNCHANGED <<box, wrptr>>
    /\ MailIs(Tail(mail))

\* The three operations; each takes a unit of one semaphore and gives one
\* to the other.
BoxOps == [op : {"post", "ahead"}, msg : Msgs] \cup {[op |-> "fetch", msg |-> None]}
Takes(b) == IF b.op = "fetch" THEN Full ELSE Empty
Gives(b) == IF b.op = "fetch" THEN Empty ELSE Full
Moves(b) ==
    \/ b.op = "post" /\ Write(b.msg)
    \/ b.op = "ahead" /\ WriteAhead(b.msg)
    \/ b.op = "fetch" /\ Read

BoxCall(t, b, time) ==
    /\ Calls(t)
    /\ \/ /\ SemFree(k, Takes(b)) /\ Moves(b)
          /\ Returns(RescheduleS(SemSignalI(SemTake(k, Takes(b)), Gives(b))))
       \/ /\ ~SemFree(k, Takes(b)) /\ time = Immediate
          /\ Returns(k) /\ UNCHANGED boxVars
       \/ /\ ~SemFree(k, Takes(b)) /\ time # Immediate
          /\ Sleeps(t, SemSleep(k, Takes(b), time), b) /\ UNCHANGED boxVars

BoxBack(t) ==
    /\ t = k.current /\ call[t] \in BoxOps
    /\ LET s == AwakeS(k)
       IN  \/ /\ k.u[t] = "OK" /\ Moves(call[t])
              /\ Sleeps(t, RescheduleS(SemSignalI(s, Gives(call[t]))), User)
           \/ k.u[t] # "OK" /\ Sleeps(t, s, User) /\ UNCHANGED boxVars

BoxInterrupt(b) ==
    /\ InUser
    /\ IF k.cnt[Takes(b)] <= 0
       THEN Returns(Epilogue(k)) /\ UNCHANGED boxVars
       ELSE /\ Returns(Epilogue(SemSignalI(SemTake(k, Takes(b)), Gives(b)))) /\ Moves(b)

\* Threads let go by a semaphore that have not run since.
Owners(o) ==
    {t \in Threads : /\ call[t] \in BoxOps /\ Takes(call[t]) = o
                     /\ k.state[t] \in {"READY", "CURRENT"} /\ k.u[t] = "OK"}

\* chMBReset() wakes who waits, and does not know of the threads that wait no
\* more and have not run: they will write and read after it all the same.
MBReset(t) ==
    /\ Calls(t)
    /\ wrptr' = 0 /\ rdptr' = 0 /\ mail' = <<>> /\ UNCHANGED box
    /\ stray' = Cardinality(Owners(Full)) + Cardinality(Owners(Empty))
    /\ Returns(RescheduleS(SemResetI(SemResetI(k, Empty, BoxSize), Full, 0)))

Fetching == [op |-> "fetch", msg |-> None]
MBPost(t, m, time) == BoxCall(t, [op |-> "post", msg |-> m], time)
MBPostAhead(t, m, time) == BoxCall(t, [op |-> "ahead", msg |-> m], time)
MBFetch(t, time) == BoxCall(t, Fetching, time)
MBPostI(m) == BoxInterrupt([op |-> "post", msg |-> m])
MBPostAheadI(m) == BoxInterrupt([op |-> "ahead", msg |-> m])
MBFetchI == BoxInterrupt(Fetching)

BoxNext(t, times) ==
    \/ \E m \in Msgs : MBPostI(m) \/ MBPostAheadI(m)
    \/ MBFetchI
    \/ \E time \in times : MBFetch(t, time) \/ \E m \in Msgs : MBPost(t, m, time) \/ MBPostAhead(t, m, time)
    \/ BoxBack(t)
    \/ MBReset(t)

\* Each message and each free place is counted by its semaphore or owned by
\* one thread that has been let go, whatever timed out meanwhile; a reset adds
\* one unit for every thread it overtakes, until the next reset.  While there
\* is none too many the ring holds the mail, in order.
Units(o) == (IF k.cnt[o] > 0 THEN k.cnt[o] ELSE 0) + Cardinality(Owners(o))
BoxHoldsMail ==
    /\ Units(Full) + Units(Empty) = BoxSize + stray
    /\ stray = 0 =>
         /\ Units(Full) = Len(mail)
         /\ (rdptr + Len(mail)) % BoxSize = wrptr
         /\ \A i \in 1..Len(mail) : box[(rdptr + i - 1) % BoxSize] = mail[i]
=============================================================================
