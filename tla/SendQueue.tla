------------------------------ MODULE SendQueue ------------------------------
(***************************************************************************)
(* What an interface promises to those that send through it: the device    *)
(* gets the messages in the order they were queued, each once, and as long *)
(* as the interface is open it gets all of them.                           *)
(***************************************************************************)
EXTENDS Sequences

CONSTANT Messages

VARIABLES
    pending,    \* messages queued and not yet taken by the device
    taken,      \* messages the device took
    open        \* the interface has not been closed

vars == <<pending, taken, open>>

Init == pending = <<>> /\ taken = <<>> /\ open = TRUE

Queue ==
    /\ open
    /\ \E m \in Messages : pending' = Append(pending, m)
    /\ UNCHANGED <<taken, open>>

\* The message being sent while the interface closes is still taken.
Take ==
    /\ pending # <<>>
    /\ taken' = Append(taken, Head(pending)) /\ pending' = Tail(pending)
    /\ UNCHANGED open

Close == open /\ open' = FALSE /\ UNCHANGED <<pending, taken>>

Next == Queue \/ Take \/ Close

Spec == Init /\ [][Next]_vars

Fair == WF_vars(open /\ Take)

=============================================================================
