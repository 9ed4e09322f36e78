--------------------------- MODULE SerialReceiver ---------------------------
(***************************************************************************)
(* Requests on their way to a module: the bytes the viewer writes, the     *)
(* line, the receive interrupt and netv_recv_message of the module         *)
(* (NETVProtocolStack/NETV16/NETV16_SerialDriver.c; NETV8 and NETV32 have  *)
(* the same code but for the instructions that mask interrupts).           *)
(*                                                                         *)
(* The interrupt may come between any two steps of netv_recv_message; the  *)
(* accesses to g_availableBytes, done with interrupts masked, are single   *)
(* steps.                                                                  *)
(***************************************************************************)
EXTENDS SerialFrames

CONSTANTS
    RingSize,       \* RX_BUFFER_SIZE
    Requests        \* messages the viewer sends

ASSUME RingAssumption ==
    /\ RingSize \in Nat \ {0} /\ FrameSize <= RingSize
    /\ Requests \subseteq Messages

VARIABLES
    toModule,       \* bytes on the line
    ring,           \* g_recvDataBytes
    writeIndex,     \* g_writeIndex
    readIndex,      \* g_readIndex
    available,      \* g_availableBytes
    at,             \* next step of netv_recv_message
    buf,            \* buf.messageBytes, the bytes copied so far
    fifo,           \* bytes stored and not yet taken, in order of arrival
    overrun,        \* a byte was stored over one not yet taken
    requested,      \* messages sent
    obtained,       \* messages netv_recv_message returned
    lost            \* bytes lost on the line

ringVars     == <<ring, writeIndex, readIndex, available, at, buf, fifo, overrun>>
receiverVars == <<toModule, ringVars, requested, obtained, lost>>

ReceiverInit ==
    /\ toModule = <<>>
    /\ ring = [k \in 0..RingSize-1 |-> 0]
    /\ writeIndex = 0 /\ readIndex = 0 /\ available = 0
    /\ at = "idle" /\ buf = <<>>
    /\ fifo = <<>> /\ overrun = FALSE
    /\ requested = <<>> /\ obtained = <<>> /\ lost = 0

\* Bytes stored and not yet taken.
Unread == available - Len(buf) - (IF at = "skip" THEN 1 ELSE 0)

-----------------------------------------------------------------------------
\* SerialEmulator::event writes a whole frame.
Request ==
    /\ \E m \in Requests :
          /\ toModule' = toModule \o Frame(m)
          /\ requested' = Append(requested, m)
    /\ UNCHANGED <<ringVars, obtained, lost>>

LoseByte ==
    /\ toModule # <<>>
    /\ toModule' = Tail(toModule)
    /\ lost' = lost + 1
    /\ UNCHANGED <<ringVars, requested, obtained>>

\* The interrupt tests for the end of the buffer, not for room.  A mutant off
\* by one.
LateWrapMutant(k) == IF k > RingSize THEN 0 ELSE k + 1
Wrapped(k) == IF k + 1 >= RingSize THEN 0 ELSE k + 1

Interrupt ==
    /\ toModule # <<>>
    /\ toModule' = Tail(toModule)
    /\ ring' = [ring EXCEPT ![writeIndex] = Head(toModule)]
    /\ writeIndex' = Wrapped(writeIndex)
    /\ available' = available + 1
    /\ fifo' = Append(fifo, Head(toModule))
    /\ overrun' = (overrun \/ Unread >= RingSize)
    /\ UNCHANGED <<readIndex, at, buf, requested, obtained, lost>>

-----------------------------------------------------------------------------
(* netv_recv_message, called again and again by the main loop.              *)
BytesAvailable ==
    /\ at = "idle" /\ available >= FrameSize
    /\ at' = "test"
    /\ UNCHANGED <<ring, readIndex, available, buf, fifo, obtained>>

NextRead == (readIndex + 1) % RingSize

Take == readIndex' = NextRead /\ fifo' = Tail(fifo)

\* The byte at the front is looked at, and passed over unless it is a start.
TestStart ==
    /\ at = "test"
    /\ IF ring[readIndex] = START_BYTE
          THEN at' = "copy" /\ UNCHANGED <<readIndex, fifo>>
          ELSE at' = "skip" /\ Take
    /\ UNCHANGED <<ring, available, buf, obtained>>

\* A mutant that gives up a whole frame.
SkipFrameMutant == FrameSize
Skipped == 1

Skip ==
    /\ at = "skip"
    /\ available' = available - Skipped
    /\ at' = "idle"
    /\ UNCHANGED <<ring, readIndex, buf, fifo, obtained>>

CopyByte ==
    /\ at = "copy"
    /\ buf' = Append(buf, ring[readIndex])
    /\ Take
    /\ at' = IF Len(buf') = FrameSize THEN "release" ELSE "copy"
    /\ UNCHANGED <<ring, available, obtained>>

\* The bytes are given back, then the checksum verified.
Release ==
    /\ at = "release"
    /\ available' = available - FrameSize
    /\ obtained' = IF ChecksumMatches(buf) THEN Append(obtained, Content(buf)) ELSE obtained
    /\ buf' = <<>>
    /\ at' = "idle"
    /\ UNCHANGED <<ring, readIndex, fifo>>

RecvMessage ==
    /\ BytesAvailable \/ TestStart \/ Skip \/ CopyByte \/ Release
    /\ UNCHANGED <<toModule, writeIndex, overrun, requested, lost>>

=============================================================================
