---------------------------- MODULE DataFlowTable ----------------------------
(***************************************************************************)
(* The data-flow side of a module: netv_transceiver of                     *)
(* NETV16/NETV16_Common.c, called from the main loop, and the interrupts   *)
(* of the application, which change the variables in RAM while the main    *)
(* loop copies them byte by byte.                                          *)
(***************************************************************************)
EXTENDS DataFlow

CONSTANTS
    Faults,         \* subset of {"loseRequest", "loseAnswer"}
    Computed,       \* values the interrupts of the application store
    MaxUpdates      \* bound on the updates by interrupts

ASSUME TableAssumption ==
    /\ Faults \subseteq {"loseRequest", "loseAnswer"}
    /\ Computed \subseteq Nat /\ MaxUpdates \in Nat

VARIABLES
    ph,         \* netv_transceiver: waits, copies with interrupts off, answers
    held,       \* g_rMessage
    copied,     \* bytes copied so far
    updates     \* updates by interrupts so far

tableVars == <<ph, held, copied, updates>>

\* g_rMessage between two messages.
Nothing == Event("alive")

TableInit ==
    /\ ph = "receive" /\ held = Nothing /\ copied = 0
    /\ updates = 0

TableTypeOK ==
    /\ ph \in {"receive", "copy", "answer"}
    /\ held \in Message
    /\ copied \in 0..Size
    /\ updates \in 0..MaxUpdates

-----------------------------------------------------------------------------
In == Head(queue)

\* netv_recv_message.
Receive == ph = "receive" /\ queue # <<>> /\ queue' = Tail(queue)

\* A single attempt: the answer is lost when the driver has no room.
SendImAlive ==
    /\ Receive /\ In.kind = "alive"
    /\ arrivals' = IF Len(arrivals) < Capacity
                     THEN Append(arrivals, Event("aliveAnswer"))
                     ELSE arrivals
    /\ UNCHANGED <<table, tableVars>>

\* Reads within the table are copied; those beyond it leave the message as it
\* came, and it is sent back all the same.
ReceiveRead ==
    /\ Receive /\ In.kind = "read"
    /\ held' = In
    /\ ph' = IF In.var \in Readable THEN "copy" ELSE "answer"
    /\ UNCHANGED <<table, copied, updates, arrivals>>

\* "must protect firt 8 bytes" (NETV16_Common.c:351).
MayWrite == Writable

ReceiveWrite ==
    /\ Receive /\ In.kind = "write"
    /\ IF In.var \in MayWrite THEN held' = In /\ ph' = "copy"
                              ELSE UNCHANGED <<held, ph>>
    /\ UNCHANGED <<table, copied, updates, arrivals>>

\* One turn of a copying loop, between the two "disi".
Copy(byte) ==
    IF held.kind = "read"
       THEN /\ held' = [held EXCEPT !.data[byte] = table[held.var][byte]]
            /\ UNCHANGED table
       ELSE /\ table' = [table EXCEPT ![held.var][byte] = held.data[byte]]
            /\ held' = IF byte < Size THEN held ELSE Nothing

CopyByte ==
    /\ ph = "copy"
    /\ Copy(copied + 1)
    /\ IF copied + 1 < Size
          THEN copied' = copied + 1 /\ UNCHANGED ph
          ELSE copied' = 0 /\ ph' = IF held.kind = "read" THEN "answer" ELSE "receive"
    /\ UNCHANGED <<updates, pathVars>>

\* msg_remote is cleared and the message sent until the driver takes it.
SendAnswer ==
    /\ ph = "answer"
    /\ Len(arrivals) < Capacity
    /\ arrivals' = Append(arrivals, Answer(held.var, held.data))
    /\ ph' = "receive" /\ held' = Nothing
    /\ UNCHANGED <<table, copied, updates, queue>>

\* An interrupt stores a variable, two bytes or more, to its end: it comes
\* between any two instructions of the main loop but those under "disi", which
\* does not last as long as the writing of an EEPROM; in a mutant there is none.
UnmaskedMutant == TRUE
InterruptsOn == ph = "copy" => held.var \notin Ram

Interrupt(v, value) ==
    /\ InterruptsOn
    /\ updates < MaxUpdates
    /\ table' = [table EXCEPT ![v] = BytesOf(value)]
    /\ updates' = updates + 1
    /\ UNCHANGED <<ph, held, copied, pathVars>>

-----------------------------------------------------------------------------
\* Messages the adapter refuses or the bus discards: the module, when it turns
\* to the next message, finds that one instead.
LoseRequest ==
    /\ "loseRequest" \in Faults
    /\ ph = "receive" /\ queue # <<>>
    /\ queue' = Tail(queue)
    /\ UNCHANGED <<table, tableVars, arrivals>>

LoseAnswer ==
    /\ "loseAnswer" \in Faults /\ arrivals # <<>>
    /\ arrivals' = Tail(arrivals)
    /\ UNCHANGED <<table, tableVars, queue>>

TableStep ==
    \/ SendImAlive \/ ReceiveRead \/ ReceiveWrite \/ CopyByte \/ SendAnswer

TableNext ==
    \/ TableStep
    \/ \E v \in Ram, value \in Computed : Interrupt(v, value)
    \/ LoseRequest \/ LoseAnswer

=============================================================================
