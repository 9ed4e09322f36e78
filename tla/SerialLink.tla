----------------------------- MODULE SerialLink -----------------------------
(***************************************************************************)
(* The serial link in both directions: requests of the viewer to a module, *)
(* answers of the module to the viewer.                                    *)
(***************************************************************************)
EXTENDS SerialReceiver, SerialViewer

vars == <<receiverVars, viewerVars>>

Init == ReceiverInit /\ ViewerInit

MayLose == lost + lostBack < MaxLost

MaySend == Len(requested) + Len(answered) < MaxSent

Next ==
    \/ MaySend /\ Request /\ UNCHANGED viewerVars
    \/ MayLose /\ LoseByte /\ UNCHANGED viewerVars
    \/ (Interrupt \/ RecvMessage) /\ UNCHANGED viewerVars
    \/ MaySend /\ AnswerBack /\ UNCHANGED receiverVars
    \/ MayLose /\ LoseByteBack /\ UNCHANGED receiverVars
    \/ (Arrive \/ SlotStep \/ RecvThread) /\ UNCHANGED receiverVars

Spec == Init /\ [][Next]_vars

\* Bytes arrive, the main loop of the module runs, and so do the event loop
\* and the receive thread of the viewer.
FairSpec ==
    /\ Spec
    /\ WF_vars(Interrupt /\ UNCHANGED viewerVars)
    /\ WF_vars(RecvMessage /\ UNCHANGED viewerVars)
    /\ WF_vars(Arrive /\ UNCHANGED receiverVars)
    /\ WF_vars(SlotStep /\ UNCHANGED receiverVars)
    /\ WF_vars(RecvThread /\ UNCHANGED receiverVars)

-----------------------------------------------------------------------------
\* Every variable keeps its type.
TypeOK ==
    /\ toModule \in Seq(Byte)
    /\ ring \in [0..RingSize-1 -> Byte]
    /\ writeIndex \in 0..RingSize-1 /\ readIndex \in 0..RingSize-1
    /\ available \in Nat
    /\ at \in {"idle", "test", "skip", "copy", "release"}
    /\ buf \in Seq(Byte) /\ Len(buf) <= FrameSize
    /\ fifo \in Seq(Byte)
    /\ overrun \in BOOLEAN /\ ready \in BOOLEAN /\ taking \in BOOLEAN
    /\ lost \in Nat /\ lostBack \in Nat
    /\ toViewer \in Seq(Byte) /\ port \in Seq(Byte)
    /\ batch \in Seq([1..FrameSize -> Byte])
    /\ slot \in {"idle", "release"} /\ semaphore \in Nat
    /\ recvQueue \in Seq(Messages)
    /\ requested \in Seq(Messages) /\ obtained \in Seq(Messages)
    /\ answered \in Seq(Messages) /\ received \in Seq(Messages)

\* The byte that is k places behind the read index.
Place(k) == IF readIndex + k < RingSize THEN readIndex + k ELSE readIndex + k - RingSize

(* The receive ring is a first-in first-out buffer although the interrupt   *)
(* and the main loop share it: as long as it was never overrun the bytes    *)
(* from the read index to the write index are those that arrived and were   *)
(* not taken, in order, and g_availableBytes counts them but for those that *)
(* netv_recv_message has copied and not given back yet.                     *)
RingIsFifo ==
    ~overrun =>
        /\ Len(fifo) = Unread /\ Unread <= RingSize
        /\ writeIndex = Place(Unread)
        /\ \A k \in 1..Len(fifo) : fifo[k] = ring[Place(k - 1)]

(* An overrun costs messages, not the ring: once everything has been read   *)
(* the two indices meet again.                                              *)
RingRecovers == at = "idle" /\ available = 0 => readIndex = writeIndex

\* The permit recvMessage has acquired.
InHand == IF taking THEN 1 ELSE 0

(* The semaphore of recvMessage counts the messages in m_recvQueue: none is *)
(* left behind in it, and OVERFLOW is never returned.                       *)
PermitsMatch ==
    semaphore + InHand + (IF slot = "release" THEN 1 ELSE 0)
        = Len(recvQueue)

(* Without bytes lost or overrun, both ends get the messages of the other   *)
(* in order, each once, whatever bytes they are made of and however the     *)
(* bytes arrive.                                                            *)
InOrder ==
    /\ lost = 0 /\ ~overrun => IsPrefix(obtained, requested)
    /\ lostBack = 0 => IsPrefix(received, answered)

(* ... and all of them.                                                     *)
AllArrive ==
    /\ [](lost = 0 /\ ~overrun) => []<>(obtained = requested)
    /\ [](lostBack = 0) => []<>(received = answered)

(* A byte lost on the way to the module costs at most two messages, its own *)
(* and the next one, when no message holds a start byte: netv_recv_message  *)
(* finds the next start.                                                    *)
CostOfLoss ==
    /\ ~overrun /\ \A m \in Range(requested) : Distinct(m)
    /\ toModule = <<>> /\ at = "idle" /\ available < FrameSize
    => Len(requested) - Len(obtained) <= 2 * lost

=============================================================================
