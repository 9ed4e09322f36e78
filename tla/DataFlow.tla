------------------------------ MODULE DataFlow ------------------------------
(***************************************************************************)
(* The data-flow messages of the NETV protocol and the two paths between a *)
(* viewer and its interface: the send queue of the interface handler with  *)
(* what the adapter and the bus hold, and the list of received messages.   *)
(***************************************************************************)
EXTENDS Naturals, Sequences, FiniteSets

CONSTANTS
    Ram,            \* variables at an offset within the RAM table
    Eeprom,         \* variables in EEPROM, beyond its first eight bytes
    BootConfig,     \* variables in EEPROM that reach into those eight bytes
    Outside,        \* variables that end beyond the table
    NoVariable,     \* in the messages that are about none
    Size,           \* bytes of a variable
    Capacity        \* bound on what the timers add to a path

Variables == Ram \cup Eeprom \cup BootConfig \cup Outside
Readable  == Ram \cup Eeprom \cup BootConfig
Writable  == Ram \cup Eeprom

ASSUME DataFlowAssumption ==
    /\ IsFiniteSet(Variables) /\ Ram # {} /\ NoVariable \notin Variables
    /\ Outside \cap Readable = {} /\ BootConfig \cap Writable = {}
    /\ Size \in Nat \ {0} /\ Capacity \in Nat \ {0}

Bytes == 1..Size
Data  == [Bytes -> Nat]

\* The bytes of a value; the data the constructor of NETV_MESSAGE fills with
\* zeros; the bytes of one value, and not of two.
BytesOf(value) == [b \in Bytes |-> value]
Zeros          == BytesOf(0)
Whole(data)    == \A a, b \in Bytes : data[a] = data[b]

\* The bootloader's cells are programmed before, the others are erased.
Factory(v) == BytesOf(IF v \in BootConfig THEN 1 ELSE 0)

(* "read" and "answer" are NETV_TYPE_REQUEST_DATA with the read bit and       *)
(* msg_remote 1 and 0, "write" the one with the write bit and msg_remote 0;   *)
(* "alive" and "aliveAnswer" are the NETV_EVENTS_CMD_ALIVE with msg_remote 1  *)
(* and 0, "console" is a line of text.                                        *)
Kinds == {"read", "write", "answer", "alive", "aliveAnswer", "console"}

Message == [kind : Kinds, var : Variables \cup {NoVariable}, data : Data]

Read(v)       == [kind |-> "read", var |-> v, data |-> Zeros]
Write(v, d)   == [kind |-> "write", var |-> v, data |-> d]
Answer(v, d)  == [kind |-> "answer", var |-> v, data |-> d]
Event(kind)   == [kind |-> kind, var |-> NoVariable, data |-> Zeros]

VARIABLES
    table,      \* the values of the variables in the memories of the module
    queue,      \* m_msgQueue of the handler, and the way to the module
    arrivals    \* the way back, and the driver's list of received messages

pathVars == <<queue, arrivals>>

\* sendCANMessage() puts a message at the end; a mutant puts it in front.
PushFrontMutant(m) == queue' = <<m>> \o queue
Push(m) == queue' = Append(queue, m)

PathInit ==
    /\ table = [v \in Readable |-> Factory(v)]
    /\ queue = <<>> /\ arrivals = <<>>

PathTypeOK ==
    /\ table \in [Readable -> Data]
    /\ queue \in Seq(Message) /\ arrivals \in Seq(Message)

=============================================================================
