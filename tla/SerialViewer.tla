---------------------------- MODULE SerialViewer ----------------------------
(***************************************************************************)
(* Answers on their way to the viewer: the bytes a module writes, the      *)
(* line, serialReadyRead in the GUI thread and recvMessage in the receive  *)
(* thread of the interface handler                                         *)
(* (NetworkViewer/core/drivers/SerialEmulator/SerialEmulator.cpp).         *)
(***************************************************************************)
EXTENDS SerialFrames

CONSTANTS Answers   \* messages the module sends

ASSUME AnswersAssumption == Answers \subseteq Messages

VARIABLES
    toViewer,       \* bytes on the line
    port,           \* bytes m_serialPort has received
    ready,          \* readyRead() has been emitted since the last slot call
    batch,          \* frames of the slot call in progress still to be looked at
    slot,           \* "idle", or "release" between push_back and release
    recvQueue,      \* m_recvQueue
    semaphore,      \* m_recvSemaphore
    taking,         \* recvMessage has acquired the semaphore
    answered,       \* messages sent
    received,       \* messages recvMessage returned
    lostBack        \* bytes lost on the line

slotVars   == <<port, ready, batch, slot>>
viewerVars == <<toViewer, slotVars, recvQueue, semaphore, taking, answered,
                received, lostBack>>

ViewerInit ==
    /\ toViewer = <<>> /\ port = <<>> /\ ready = FALSE
    /\ batch = <<>> /\ slot = "idle"
    /\ recvQueue = <<>> /\ semaphore = 0 /\ taking = FALSE
    /\ answered = <<>> /\ received = <<>> /\ lostBack = 0

-----------------------------------------------------------------------------
\* netv_send_message writes a frame; nothing comes between its bytes.
AnswerBack ==
    /\ \E m \in Answers :
          /\ toViewer' = toViewer \o Frame(m)
          /\ answered' = Append(answered, m)
    /\ UNCHANGED <<slotVars, recvQueue, semaphore, taking, received, lostBack>>

LoseByteBack ==
    /\ toViewer # <<>>
    /\ toViewer' = Tail(toViewer)
    /\ lostBack' = lostBack + 1
    /\ UNCHANGED <<slotVars, recvQueue, semaphore, taking, answered, received>>

Arrive ==
    /\ toViewer # <<>>
    /\ toViewer' = Tail(toViewer)
    /\ port' = Append(port, Head(toViewer))
    /\ ready' = TRUE
    /\ UNCHANGED <<batch, slot, recvQueue, semaphore, taking, answered, received, lostBack>>

-----------------------------------------------------------------------------
(* serialReadyRead: the bytes before the first start byte are flushed, then *)
(* as many frames as there are bytes for are read, and looked at one after  *)
(* the other: those that are valid are queued.                              *)
Synced(bytes) ==
    LET starts == {n \in 1..Len(bytes) : bytes[n] = START_BYTE}
    IN IF starts = {} THEN <<>> ELSE SubSeq(bytes, Min(starts), Len(bytes))

FrameAt(bytes, n) == SubSeq(bytes, (n - 1) * FrameSize + 1, n * FrameSize)

ValidFrame(f) == Head(f) = START_BYTE /\ ChecksumMatches(f)

\* The bytes of an incomplete frame stay; a mutant that reads them too.
DropRestMutant(bytes, count) == <<>>
Rest(bytes, count) == SubSeq(bytes, count * FrameSize + 1, Len(bytes))

SerialReadyRead ==
    /\ ready /\ batch = <<>> /\ slot = "idle"
    /\ LET bytes == Synced(port)
           count == Len(bytes) \div FrameSize
       IN /\ port' = Rest(bytes, count)
          /\ batch' = [n \in 1..count |-> FrameAt(bytes, n)]
    /\ ready' = FALSE
    /\ UNCHANGED <<toViewer, slot, recvQueue, semaphore, taking, answered, received, lostBack>>

DropFrame ==
    /\ batch # <<>> /\ slot = "idle" /\ ~ValidFrame(Head(batch))
    /\ batch' = Tail(batch)
    /\ UNCHANGED <<toViewer, port, ready, slot, recvQueue, semaphore, taking, answered,
                   received, lostBack>>

QueueFrame ==
    /\ batch # <<>> /\ slot = "idle" /\ ValidFrame(Head(batch))
    /\ recvQueue' = Append(recvQueue, Content(Head(batch)))
    /\ slot' = "release"
    /\ UNCHANGED <<toViewer, port, ready, batch, semaphore, taking, answered, received, lostBack>>

NoReleaseMutant == semaphore
OneMore == semaphore + 1

ReleaseOne ==
    /\ slot = "release"
    /\ semaphore' = OneMore
    /\ batch' = Tail(batch)
    /\ slot' = "idle"
    /\ UNCHANGED <<toViewer, port, ready, recvQueue, taking, answered, received, lostBack>>

-----------------------------------------------------------------------------
(* recvMessage; a call that does not get the semaphore within 10 ms changes *)
(* nothing.                                                                 *)
TryAcquire ==
    /\ ~taking /\ semaphore > 0
    /\ semaphore' = semaphore - 1
    /\ taking' = TRUE
    /\ UNCHANGED <<toViewer, slotVars, recvQueue, answered, received, lostBack>>

\* NETVDEVICE_OVERFLOW is returned when the queue is empty.
PopFrame ==
    /\ taking
    /\ IF recvQueue = <<>>
          THEN UNCHANGED <<recvQueue, received>>
          ELSE recvQueue' = Tail(recvQueue) /\ received' = Append(received, Head(recvQueue))
    /\ taking' = FALSE
    /\ UNCHANGED <<toViewer, slotVars, semaphore, answered, lostBack>>

RecvThread == TryAcquire \/ PopFrame
SlotStep   == SerialReadyRead \/ DropFrame \/ QueueFrame \/ ReleaseOne

=============================================================================
