------------------------------ MODULE BootLink ------------------------------
(***************************************************************************)
(* Messages of the NETV bootloader dialogue and the two FIFO paths that    *)
(* carry them: toDev (host send queue, adapter and CAN bus, up to the      *)
(* module's receive buffers) and toHost (answers, up to the events posted  *)
(* to the bootloader plugin).  The interface handler and the bus keep the  *)
(* order of the messages of one sender; what they may do is lose one.      *)
(*                                                                         *)
(* data[] is a sequence of naturals: a base address, a boot state, a       *)
(* module id, or the words of a WRITE_INC, whose last byte is in half when *)
(* it has an odd number of them.                                           *)
(***************************************************************************)
EXTENDS Naturals, Sequences

CONSTANTS
    Capacity,   \* bound on the messages in flight in each direction
    Faults      \* the faults of this instance, see FaultKinds

FaultKinds == {"loseRequest", "loseAnswer", "powerLoss"}

ASSUME LinkAssumption ==
    /\ Capacity \in Nat \ {0}
    /\ Faults \subseteq FaultKinds

VARIABLES toDev, toHost

linkVars == <<toDev, toHost>>

-----------------------------------------------------------------------------
\* Values the firmware and the viewer agree on.
BOOT_NORMAL == 5        \* NETV_BOOT_NORMAL, NETV_NORMAL_MODE_ID
BOOT_IDLE   == 10       \* NETV_BOOT_IDLE, NETV_BOOT_MODE_ID
Broadcast   == 255

BootCommands ==
    {"SET_BASE_ADDR", "GET_BASE_ADDR", "SET_MODULE_ADDR", "GET_MODULE_ADDR",
     "SET_STATE", "GET_STATE", "SET_DELAY", "GET_DELAY", "READ_INC",
     "WRITE_INC", "READ_PAGE", "WRITE_PAGE", "WRITE_BOOTCONFIG", "RESET"}

Message ==
    {m \in [type : {"BOOTLOADER", "EMERGENCY", "EVENTS"},
            cmd  : BootCommands \cup {"PROGRAM", "ALIVE"},
            dest : Nat,
            data : Seq(Nat),
            half : {<<>>} \cup {<<byte>> : byte \in 0..255},
            nack : BOOLEAN] :
        m.cmd = "SET_BASE_ADDR" => Len(m.data) = 1}

Msg(type, cmd, dest, data) ==
    [type |-> type, cmd |-> cmd, dest |-> dest, data |-> data, half |-> <<>>,
     nack |-> FALSE]

Boot(cmd, dest, data) == Msg("BOOTLOADER", cmd, dest, data)

Emergency(dest)   == Msg("EMERGENCY", "PROGRAM", dest, <<>>)
AliveRequest      == Msg("EVENTS", "ALIVE", Broadcast, <<>>)
AliveAnswer(state, id) == Msg("EVENTS", "ALIVE", id, <<state, id>>)

IsAlive(m) == m.cmd = "ALIVE"

-----------------------------------------------------------------------------
LinkInit == toDev = <<>> /\ toHost = <<>>

\* pushNETVMessage queues without limit; netv_send_message waits for room.
Push(m)   == toDev' = Append(toDev, m)
ToHost(m) == Len(toHost) < Capacity /\ toHost' = Append(toHost, m)

\* Capacity also bounds what the timers of the host may add to the queue.
Room == Len(toDev) < Capacity

\* A frame refused by the adapter or discarded by the bus before the module.
LoseRequest ==
    /\ "loseRequest" \in Faults
    /\ toDev # <<>>
    /\ toDev' = Tail(toDev)
    /\ UNCHANGED toHost

\* An answer discarded on its way back, as the serial driver does with a
\* frame whose checksum is wrong.
LoseAnswer ==
    /\ "loseAnswer" \in Faults
    /\ toHost # <<>>
    /\ toHost' = Tail(toHost)
    /\ UNCHANGED toDev

LinkTypeOK == toDev \in Seq(Message) /\ toHost \in Seq(Message)

=============================================================================
