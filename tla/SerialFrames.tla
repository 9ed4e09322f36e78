---------------------------- MODULE SerialFrames ----------------------------
(***************************************************************************)
(* Frames of the serial link between the viewer and a module: a start      *)
(* byte, the message, and the sum of the bytes before it as a checksum.    *)
(* Both ends use the same structure (NETVSerialMessage, CANSerialMessage). *)
(***************************************************************************)
EXTENDS Integers, SequencesExt

CONSTANTS
    Modulus,        \* values of a byte, 256
    START_BYTE,
    FrameSize,      \* sizeof(NETVSerialMessage), 15
    MaxSent,        \* bound on the frames sent, both ways together
    MaxLost         \* bound on the bytes lost, both ways together

ASSUME FrameAssumption ==
    /\ Modulus \in Nat \ {0} /\ START_BYTE \in 0..Modulus-1
    /\ FrameSize \in Nat \ {0, 1}
    /\ MaxSent \in Nat /\ MaxLost \in Nat

Byte == 0..Modulus-1

\* The fields and data between start and checksum.
Messages == [1..FrameSize-2 -> Byte]
Content(frame) == SubSeq(frame, 2, FrameSize - 1)

\* serial_calculate_checksum
Checksum(bytes) ==
    LET sum[n \in 0..Len(bytes)] ==
            IF n = 0 THEN 0 ELSE (sum[n - 1] + bytes[n]) % Modulus
    IN  sum[Len(bytes)]

Frame(message) ==
    LET bytes == <<START_BYTE>> \o message IN Append(bytes, Checksum(bytes))

ChecksumMatches(frame) == Last(frame) = Checksum(Front(frame))

\* A frame that holds no start byte but its own.
Distinct(message) == START_BYTE \notin Range(Tail(Frame(message)))

=============================================================================
