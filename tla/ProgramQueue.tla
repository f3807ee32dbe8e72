---------------------------- MODULE ProgramQueue ----------------------------
(***************************************************************************)
(* What the program slots promise, without slots, threads or files: every  *)
(* program that is accepted waits until the node is free, is taken once,   *)
(* and runs at most once, alone.  A program is known by its key; keys only *)
(* grow.  Waiting programs are taken in any order: the code takes the one  *)
(* in the lowest slot, which may be the newest.                            *)
(***************************************************************************)
EXTENDS Naturals

CONSTANT Keys   \* a set of numbers

VARIABLES
    last,      \* the last key accepted
    waiting,   \* programs accepted and not yet taken
    inHand,    \* the program that is taken and not yet running
    running    \* the program on the node

vars == <<last, waiting, inHand, running>>

Init ==
    /\ last = 0
    /\ waiting = {} /\ inHand = {} /\ running = {}

Accept(key) ==
    /\ key > last
    /\ last' = key
    /\ waiting' = waiting \cup {key}
    /\ UNCHANGED <<inHand, running>>

Take(key) ==
    /\ key \in waiting
    /\ inHand = {} /\ running = {}
    /\ waiting' = waiting \ {key}
    /\ inHand' = {key}
    /\ UNCHANGED <<last, running>>

Begin ==
    /\ inHand # {}
    /\ running' = inHand
    /\ inHand' = {}
    /\ UNCHANGED <<last, waiting>>

GiveUp ==
    /\ inHand # {}
    /\ inHand' = {}
    /\ UNCHANGED <<last, waiting, running>>

End ==
    /\ running # {}
    /\ running' = {}
    /\ UNCHANGED <<last, waiting, inHand>>

Next ==
    \/ \E key \in Keys : Accept(key) \/ Take(key)
    \/ Begin
    \/ GiveUp
    \/ End

Spec == Init /\ [][Next]_vars
=============================================================================
