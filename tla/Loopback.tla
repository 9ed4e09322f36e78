------------------------------ MODULE Loopback ------------------------------
(***************************************************************************)
(* The loopback driver of the viewer (core/drivers/Loopback/Loopback.cpp), *)
(* which stands for an adapter and Modules virtual modules.  sendMessage   *)
(* runs in the handler's send thread, recvMessage in its receive thread,   *)
(* timeout in the GUI thread.                                              *)
(***************************************************************************)
EXTENDS DataFlow

CONSTANT Modules    \* virtual modules

ASSUME LoopbackAssumption == Modules \in Nat \ {0}

VARIABLES
    permits,    \* m_semaphore
    owed        \* permits sendMessage is about to release

loopVars == <<permits, owed>>

LoopInit == permits = 0 /\ owed = 0

LoopTypeOK == permits \in Nat /\ owed \in Nat

-----------------------------------------------------------------------------
\* The send thread takes a message when sendMessage has returned.
Taken == owed = 0 /\ queue # <<>> /\ queue' = Tail(queue)
Msg   == Head(queue)

\* An answer is queued and its permit released under the mutex.
LoopRead ==
    /\ Taken /\ Msg.kind = "read"
    /\ IF Msg.var \in Readable
          THEN /\ arrivals' = Append(arrivals, Answer(Msg.var, table[Msg.var]))
               /\ permits' = permits + 1
          ELSE UNCHANGED <<arrivals, permits>>
    /\ UNCHANGED <<table, owed>>

\* The virtual modules have one memory, written to its end.
LoopWrite ==
    /\ Taken /\ Msg.kind = "write"
    /\ table' = IF Msg.var \in Readable
                   THEN [table EXCEPT ![Msg.var] = Msg.data] ELSE table
    /\ UNCHANGED <<arrivals, loopVars>>

\* Every virtual module queues an answer and a line of text; the permits that
\* follow are one per module, and one in all in a mutant.
OnePermitMutant == 1
AlivePermits == Modules

AliveAnswers ==
    [n \in 1..(2 * Modules) |->
        Event(IF n % 2 = 1 THEN "aliveAnswer" ELSE "console")]

LoopAlive ==
    /\ Taken /\ Msg.kind = "alive"
    /\ arrivals' = arrivals \o AliveAnswers
    /\ owed' = AlivePermits
    /\ UNCHANGED <<table, permits>>

Release ==
    /\ owed > 0
    /\ permits' = permits + owed /\ owed' = 0
    /\ UNCHANGED <<table, pathVars>>

LoopStep == LoopRead \/ LoopWrite \/ LoopAlive \/ Release

\* recvMessage: with a permit the message at the front, without one nothing,
\* whatever waits in the list; a mutant does not look at what tryAcquire says.
UnaskedMutant ==
    /\ permits' = permits - 1
    /\ UNCHANGED owed

Acquire ==
    /\ permits > 0
    /\ permits' = permits - 1
    /\ UNCHANGED owed

=============================================================================
