-------------------------- MODULE SerialLink_proofs --------------------------
(***************************************************************************)
(* The receive ring of the modules, the receive queue of the viewer and    *)
(* the line between them, for every size of the ring and of the frames,    *)
(* every number of messages and every choice of them.                      *)
(*                                                                         *)
(* The ring and the queue come first: what they hold plays no part there,  *)
(* so that a sequence is only known to be one (IsSeq).  The types of the   *)
(* bytes follow, then the order of what arrives, then the cost of what is  *)
(* lost.                                                                   *)
(***************************************************************************)
EXTENDS SerialLink, SequenceTheorems, WellFoundedInduction, TLAPS

IsSeq(s) == \E S : s \in Seq(S)

(* Where netv_recv_message is, and the bytes it has reserved.              *)
Reserved ==
    /\ at \in {"idle", "test", "skip", "copy", "release"}
    /\ available \in Nat
    /\ at # "idle" => available >= FrameSize
    /\ IsSeq(buf) /\ Len(buf) \in Nat
    /\ at \in {"idle", "test", "skip"} => Len(buf) = 0
    /\ at = "copy" => Len(buf) < FrameSize
    /\ at = "release" => Len(buf) = FrameSize

Indices == readIndex \in 0..RingSize-1 /\ writeIndex \in 0..RingSize-1

RingIsFunction == ring = [k \in 0..RingSize-1 |-> ring[k]]

(* The indices are as far apart as the bytes not taken, up to turns of the  *)
(* ring: this survives an overrun.                                          *)
Apart == \E turns \in Nat : readIndex + Unread = writeIndex + turns * RingSize

(* Without an overrun there is no full turn.                                *)
Window ==
    ~overrun =>
        /\ Unread <= RingSize
        /\ writeIndex = Place(Unread)
        /\ fifo = [k \in 1..Unread |-> ring[Place(k - 1)]]

RingInv == Reserved /\ Indices /\ RingIsFunction /\ Apart /\ Window

-----------------------------------------------------------------------------
(* Sequences of anything.                                                   *)
LEMMA SeqAppend ==
    ASSUME NEW s, IsSeq(s), NEW x
    PROVE  /\ IsSeq(Append(s, x)) /\ Len(Append(s, x)) = Len(s) + 1
           /\ Append(s, x) = [k \in 1..Len(s)+1 |-> IF k = Len(s) + 1 THEN x ELSE s[k]]
<1>1. PICK S : s \in Seq(S)
    BY DEF IsSeq
<1>2. s \in Seq(S \cup {x}) /\ x \in S \cup {x}
    BY <1>1
<1>3. Append(s, x) \in Seq(S \cup {x})
    BY <1>2
<1>4. Len(Append(s, x)) = Len(s) + 1
    BY <1>2
<1>5. Append(s, x) \in [1..Len(s)+1 -> S \cup {x}]
    BY <1>3, <1>4, LenProperties
<1>6. \A k \in 1..Len(s)+1 : Append(s, x)[k] = IF k = Len(s) + 1 THEN x ELSE s[k]
    BY <1>2, AppendProperties, Len(s) \in Nat
<1>7. Append(s, x) = [k \in 1..Len(s)+1 |-> IF k = Len(s) + 1 THEN x ELSE s[k]]
    BY <1>5, <1>6
<1>. QED BY <1>3, <1>4, <1>7 DEF IsSeq

(* A function of the first n numbers is a sequence, and so is its tail.     *)
LEMMA FunctionIsSeq ==
    ASSUME NEW n \in Nat, NEW s, s = [k \in 1..n |-> s[k]]
    PROVE  IsSeq(s) /\ Len(s) = n
           /\ (n > 0 => Tail(s) = [k \in 1..n-1 |-> s[k + 1]])
<1> DEFINE S == {s[k] : k \in 1..n}
<1>1. s \in [1..n -> S]
    OBVIOUS
<1>2. s \in Seq(S)
    BY <1>1
<1>3. Len(s) = n
    BY <1>1, <1>2
<1>. QED BY <1>2, <1>3, SMTT(20) DEF IsSeq

(* The index that follows another one.                                      *)
LEMMA NextReadIs ==
    ASSUME readIndex \in 0..RingSize-1
    PROVE  NextRead = IF readIndex + 1 = RingSize THEN 0 ELSE readIndex + 1
<1> USE RingAssumption
<1>1. CASE readIndex + 1 = RingSize
    BY <1>1 DEF NextRead
<1>2. CASE readIndex + 1 # RingSize
    <2>1. readIndex + 1 \in 0..RingSize-1
        BY <1>2
    <2>. QED BY <2>1, <1>2 DEF NextRead
<1>. QED BY <1>1, <1>2

(* Never more bytes are reserved than counted.                              *)
LEMMA UnreadNat == Reserved => Unread \in Nat
BY FrameAssumption DEF Reserved, Unread

-----------------------------------------------------------------------------
(* Nothing is unread at the start.                                          *)
LEMMA NothingUnread == available = 0 /\ buf = <<>> /\ at = "idle" => Unread = 0
<1> SUFFICES ASSUME available = 0, buf = <<>>, at = "idle" PROVE Unread = 0
    OBVIOUS
<1>1. Len(buf) = 0
    OBVIOUS
<1>2. (IF at = "skip" THEN 1 ELSE 0) = 0
    OBVIOUS
<1>3. Unread = 0 - 0 - 0
    BY <1>1, <1>2, Zenon DEF Unread
<1>. QED BY <1>3

(* The ring is empty at the start.                                          *)
LEMMA InitRing == ReceiverInit => RingInv
<1> SUFFICES ASSUME ReceiverInit PROVE RingInv
    OBVIOUS
<1> USE FrameAssumption, RingAssumption DEF ReceiverInit
<1>1. IsSeq(<<>>) /\ Len(<<>>) = 0
    <2>1. <<>> \in Seq({})
        OBVIOUS
    <2>. QED BY <2>1 DEF IsSeq
<1>2. Reserved
    BY <1>1 DEF Reserved
<1>3. Unread = 0
    BY NothingUnread
<1>4. Indices /\ RingIsFunction
    BY DEF Indices, RingIsFunction
<1>5. Apart
    <2>1. readIndex + Unread = writeIndex + 0 * RingSize
        BY <1>3
    <2>. QED BY <2>1 DEF Apart
<1>6. Window
    <2>1. fifo = [k \in 1..0 |-> ring[Place(k - 1)]]
        OBVIOUS
    <2>. QED BY <1>3, <2>1 DEF Window, Place
<1>. QED BY <1>2, <1>4, <1>5, <1>6 DEF RingInv

(* A byte arrives.                                                          *)
LEMMA InterruptRing == RingInv /\ Interrupt => RingInv'
<1> SUFFICES ASSUME RingInv, Interrupt PROVE RingInv'
    OBVIOUS
<1> USE FrameAssumption, RingAssumption
<1>1. /\ Unread \in Nat /\ Unread' = Unread + 1
      /\ readIndex' = readIndex
    BY UnreadNat DEF RingInv, Reserved, Interrupt, Unread
<1>2. Reserved'
    BY DEF RingInv, Reserved, Interrupt
<1>3. Indices'
    BY DEF RingInv, Indices, Interrupt, Wrapped
<1>6. RingIsFunction'
    BY DEF RingInv, RingIsFunction, Interrupt
<1>4. Apart'
    <2>1. PICK turns \in Nat : readIndex + Unread = writeIndex + turns * RingSize
        BY DEF RingInv, Apart
    <2>2. CASE writeIndex + 1 = RingSize
        <3>1. writeIndex' = 0
            BY <2>2 DEF Interrupt, Wrapped
        <3>2. (turns + 1) * RingSize = turns * RingSize + RingSize
            OBVIOUS
        <3>3. readIndex' + Unread' = writeIndex' + (turns + 1) * RingSize
            BY <1>1, <2>1, <2>2, <3>1, <3>2 DEF RingInv, Indices
        <3>. QED BY <3>3, turns + 1 \in Nat DEF Apart
    <2>3. CASE writeIndex + 1 # RingSize
        <3>1. writeIndex' = writeIndex + 1
            BY <2>3 DEF Interrupt, Wrapped, RingInv, Indices
        <3>2. readIndex' + Unread' = writeIndex' + turns * RingSize
            BY <1>1, <2>1, <3>1 DEF RingInv, Indices
        <3>. QED BY <3>2 DEF Apart
    <2>. QED BY <2>2, <2>3
<1>5. ASSUME ~overrun' PROVE /\ Unread' <= RingSize
                             /\ writeIndex' = Place(Unread)'
                             /\ fifo' = [k \in 1..Unread |-> ring[Place(k - 1)]]'
    <2>0. PICK n \in Nat : n = Unread
        BY <1>1
    <2>1. ~overrun /\ ~(Unread >= RingSize)
        BY <1>5 DEF Interrupt
    <2>2. /\ n < RingSize /\ Unread' = n + 1 /\ writeIndex = Place(n)
          /\ fifo = [k \in 1..n |-> ring[Place(k - 1)]]
        BY <1>1, <2>0, <2>1 DEF RingInv, Window
    <2>3. writeIndex' = Place(n + 1)'
        BY <1>1, <2>2 DEF Interrupt, Wrapped, Place, RingInv, Indices
    <2>4. \A k \in 1..n : ring'[Place(k - 1)'] = ring[Place(k - 1)]
        <3>1. TAKE k \in 1..n
        <3>2. Place(k - 1)' = Place(k - 1) /\ Place(k - 1) \in 0..RingSize-1
            BY <1>1, <2>2 DEF Place, RingInv, Indices
        <3>3. Place(k - 1) # writeIndex
            BY <1>1, <2>2 DEF Place, RingInv, Indices
        <3>. QED BY <3>2, <3>3 DEF Interrupt, RingInv, RingIsFunction
    <2>5. ring'[Place(n)'] = Head(toModule)
        <3>1. Place(n)' = writeIndex
            BY <1>1, <2>2 DEF Place
        <3>2. writeIndex \in DOMAIN ring
            BY DEF RingInv, Indices, RingIsFunction
        <3>. QED BY <3>1, <3>2 DEF Interrupt
    <2>6. IsSeq(fifo) /\ Len(fifo) = n
        BY <2>2, FunctionIsSeq
    <2>7. fifo' = [k \in 1..n+1 |-> IF k = n + 1 THEN Head(toModule) ELSE fifo[k]]
        <3>1. fifo' = Append(fifo, Head(toModule))
            BY DEF Interrupt
        <3>. QED BY <2>6, <3>1, SeqAppend
    <2>8. \A k \in 1..n+1 :
             (IF k = n + 1 THEN Head(toModule) ELSE fifo[k]) = ring'[Place(k - 1)']
        <3>1. TAKE k \in 1..n+1
        <3>2. CASE k = n + 1
            <4>1. k - 1 = n
                BY <3>2
            <4>. QED BY <2>5, <3>2, <4>1
        <3>3. CASE k # n + 1
            <4>1. k \in 1..n
                BY <3>3
            <4>. QED BY <2>2, <2>4, <3>3, <4>1
        <3>. QED BY <3>2, <3>3
    <2>9. fifo' = [k \in 1..n+1 |-> ring'[Place(k - 1)']]
        BY <2>7, <2>8
    <2>. QED BY <2>2, <2>3, <2>9
<1>. QED BY <1>2, <1>3, <1>4, <1>5, <1>6 DEF RingInv, Window

(* A byte is taken from the front.                                          *)
LEMMA TakeRing ==
    ASSUME RingInv, Take, Reserved', Unread' = Unread - 1, Unread > 0,
           UNCHANGED <<ring, writeIndex, overrun>>
    PROVE  RingInv'
<1> USE FrameAssumption, RingAssumption
<1>1. Unread \in Nat
    BY UnreadNat DEF RingInv
<1>2. readIndex' = IF readIndex + 1 = RingSize THEN 0 ELSE readIndex + 1
    BY NextReadIs DEF Take, RingInv, Indices
<1>3. Indices' /\ RingIsFunction'
    BY <1>2 DEF RingInv, Indices, RingIsFunction
<1>4. Apart'
    <2>1. PICK turns \in Nat : readIndex + Unread = writeIndex + turns * RingSize
        BY DEF RingInv, Apart
    <2>2. CASE readIndex + 1 # RingSize
        <3>1. readIndex' + Unread' = writeIndex' + turns * RingSize
            BY <1>1, <1>2, <2>1, <2>2 DEF RingInv, Indices
        <3>. QED BY <3>1 DEF Apart
    <2>3. CASE readIndex + 1 = RingSize
        <3>1. turns # 0
            BY <1>1, <2>1, <2>3 DEF RingInv, Indices
        <3>2. (turns - 1) * RingSize = turns * RingSize - RingSize
            OBVIOUS
        <3>3. readIndex' + Unread' = writeIndex' + (turns - 1) * RingSize
            BY <1>1, <1>2, <2>1, <2>3, <3>2 DEF RingInv, Indices
        <3>. QED BY <3>1, <3>3, turns - 1 \in Nat DEF Apart
    <2>. QED BY <2>2, <2>3
<1>5. ASSUME ~overrun' PROVE /\ Unread' <= RingSize
                             /\ writeIndex' = Place(Unread)'
                             /\ fifo' = [k \in 1..Unread |-> ring[Place(k - 1)]]'
    <2>1. /\ Unread <= RingSize /\ writeIndex = Place(Unread)
          /\ fifo = [k \in 1..Unread |-> ring[Place(k - 1)]]
        BY <1>5 DEF RingInv, Window
    <2>2. writeIndex' = Place(Unread)'
        BY <1>1, <1>2, <2>1 DEF Place, RingInv, Indices
    <2>3. \A k \in 1..Unread-1 : Place(k - 1)' = Place(k)
        BY <1>1, <1>2, <2>1 DEF Place, RingInv, Indices
    <2>4. fifo' = [k \in 1..Unread-1 |-> fifo[k + 1]]
        BY <1>1, <2>1, FunctionIsSeq DEF Take
    <2>5. \A k \in 1..Unread-1 : fifo[k + 1] = ring'[Place(k - 1)']
        <3>1. TAKE k \in 1..Unread-1
        <3>2. fifo[k + 1] = ring[Place(k)]
            BY <1>1, <2>1
        <3>. QED BY <2>3, <3>2
    <2>. QED BY <1>1, <2>1, <2>2, <2>4, <2>5
<1>. QED BY <1>3, <1>4, <1>5 DEF RingInv, Window

(* Neither the bytes nor the indices change.                                *)
LEMMA SameRing ==
    ASSUME RingInv, Reserved', Unread' = Unread,
           UNCHANGED <<ring, readIndex, writeIndex, fifo, overrun>>
    PROVE  RingInv'
<1>1. Place(Unread)' = Place(Unread)
    BY DEF Place
<1>2. \A k : Place(k - 1)' = Place(k - 1)
    BY DEF Place
<1>3. ASSUME ~overrun' PROVE fifo' = [k \in 1..Unread |-> ring[Place(k - 1)]]'
    <2>1. fifo = [k \in 1..Unread |-> ring[Place(k - 1)]]
        BY <1>3 DEF RingInv, Window
    <2>. QED BY <1>2, <2>1
<1>. QED BY <1>1, <1>3 DEF RingInv, Indices, RingIsFunction, Apart, Window

(* A step of netv_recv_message.                                             *)
LEMMA RecvRing == RingInv /\ RecvMessage => RingInv'
<1> SUFFICES ASSUME RingInv, RecvMessage PROVE RingInv'
    OBVIOUS
<1> USE FrameAssumption, RingAssumption
<1>0. UNCHANGED <<writeIndex, overrun>>
    BY DEF RecvMessage
<1>1. CASE BytesAvailable
    <2>1. Reserved' /\ Unread' = Unread
        BY <1>1 DEF BytesAvailable, RingInv, Reserved, Unread
    <2>. QED BY <1>0, <1>1, <2>1, SameRing DEF BytesAvailable
<1>2. CASE TestStart
    <2>1. CASE ring[readIndex] = START_BYTE
        <3>1. Reserved' /\ Unread' = Unread
            BY <1>2, <2>1 DEF TestStart, RingInv, Reserved, Unread
        <3>. QED BY <1>0, <1>2, <2>1, <3>1, SameRing DEF TestStart
    <2>2. CASE ring[readIndex] # START_BYTE
        <3>1. Reserved' /\ Unread' = Unread - 1 /\ Unread > 0
            BY <1>2, <2>2 DEF TestStart, RingInv, Reserved, Unread
        <3>. QED BY <1>0, <1>2, <2>2, <3>1, TakeRing DEF TestStart
    <2>. QED BY <2>1, <2>2
<1>3. CASE Skip
    <2>1. Reserved' /\ Unread' = Unread
        BY <1>3 DEF Skip, Skipped, RingInv, Reserved, Unread
    <2>. QED BY <1>0, <1>3, <2>1, SameRing DEF Skip
<1>4. CASE CopyByte
    <2>1. IsSeq(buf') /\ Len(buf') = Len(buf) + 1
        BY <1>4, SeqAppend DEF CopyByte, RingInv, Reserved
    <2>2. Reserved' /\ Unread' = Unread - 1 /\ Unread > 0
        BY <1>4, <2>1 DEF CopyByte, RingInv, Reserved, Unread
    <2>. QED BY <1>0, <1>4, <2>2, TakeRing DEF CopyByte
<1>5. CASE Release
    <2>1. IsSeq(<<>>) /\ Len(<<>>) = 0
        <3>1. <<>> \in Seq({})
            OBVIOUS
        <3>. QED BY <3>1 DEF IsSeq
    <2>2. Reserved' /\ Unread' = Unread
        BY <1>5, <2>1 DEF Release, RingInv, Reserved, Unread
    <2>. QED BY <1>0, <1>5, <2>2, SameRing DEF Release
<1>. QED BY <1>1, <1>2, <1>3, <1>4, <1>5 DEF RecvMessage

(* Every step keeps the invariant of the ring.                              *)
LEMMA StepRing == RingInv /\ [Next]_vars => RingInv'
<1> SUFFICES ASSUME RingInv, [Next]_vars PROVE RingInv'
    OBVIOUS
<1>1. CASE Interrupt
    BY <1>1, InterruptRing
<1>2. CASE RecvMessage
    BY <1>2, RecvRing
<1>3. CASE UNCHANGED ringVars
    <2>1. Reserved' /\ Unread' = Unread
        BY <1>3 DEF ringVars, RingInv, Reserved, Unread
    <2>. QED BY <1>3, <2>1, SameRing DEF ringVars
<1>. QED BY <1>1, <1>2, <1>3
    DEF Next, vars, receiverVars, Request, LoseByte

(* The invariant of the ring holds in every reachable state.                *)
THEOREM RingHolds == Spec => []RingInv
<1>1. Init => RingInv
    BY InitRing DEF Init
<1>. QED BY <1>1, StepRing, PTL DEF Spec

(* The receive ring delivers the bytes in order although the interrupt and  *)
(* the main loop share it without a lock (NETV16_SerialDriver.c:33-221).    *)
THEOREM RingStaysFifo == Spec => []RingIsFifo
<1>1. RingInv => RingIsFifo
    <2> SUFFICES ASSUME RingInv, ~overrun
                 PROVE  /\ Len(fifo) = Unread /\ Unread <= RingSize
                        /\ writeIndex = Place(Unread)
                        /\ \A k \in 1..Len(fifo) : fifo[k] = ring[Place(k - 1)]
        BY DEF RingIsFifo
    <2>1. Unread \in Nat
        BY UnreadNat DEF RingInv
    <2>2. /\ Unread <= RingSize /\ writeIndex = Place(Unread)
          /\ fifo = [k \in 1..Unread |-> ring[Place(k - 1)]]
        BY DEF RingInv, Window
    <2>3. Len(fifo) = Unread
        BY <2>1, <2>2, FunctionIsSeq
    <2>. QED BY <2>1, <2>2, <2>3
<1>. QED BY <1>1, RingHolds, PTL

(* After an overrun the indices still meet once everything has been read.   *)
THEOREM RingAlwaysRecovers == Spec => []RingRecovers
<1>1. RingInv => RingRecovers
    <2> SUFFICES ASSUME RingInv, at = "idle", available = 0
                 PROVE  readIndex = writeIndex
        BY DEF RingRecovers
    <2> USE RingAssumption
    <2>1. Unread = 0
        <3>1. Len(buf) = 0
            BY DEF RingInv, Reserved
        <3>. QED BY <3>1 DEF Unread
    <2>2. PICK turns \in Nat : readIndex + Unread = writeIndex + turns * RingSize
        BY DEF RingInv, Apart
    <2>3. turns > 0 => turns * RingSize >= RingSize
        <3>1. turns > 0 => turns * RingSize = (turns - 1) * RingSize + RingSize
            OBVIOUS
        <3>2. turns > 0 => (turns - 1) * RingSize >= 0
            OBVIOUS
        <3>. QED BY <3>1, <3>2
    <2>. QED BY <2>1, <2>2, <2>3 DEF RingInv, Indices
<1>. QED BY <1>1, RingHolds, PTL

-----------------------------------------------------------------------------
(* The receive queue of the viewer.                                         *)
QueueInv ==
    /\ IsSeq(recvQueue) /\ semaphore \in Nat
    /\ PermitsMatch

(* The tail of a sequence of anything.                                      *)
LEMMA SeqTail ==
    ASSUME NEW s, IsSeq(s), s # <<>>
    PROVE  IsSeq(Tail(s)) /\ Len(s) \in Nat /\ Len(Tail(s)) = Len(s) - 1
<1>1. PICK S : s \in Seq(S)
    BY DEF IsSeq
<1>2. Tail(s) \in Seq(S) /\ Len(s) \in Nat /\ Len(Tail(s)) = Len(s) - 1
    BY <1>1
<1>. QED BY <1>2 DEF IsSeq

(* Every step keeps the permits in step with the queue.                     *)
LEMMA StepQueue == QueueInv /\ [Next]_vars => QueueInv'
<1> SUFFICES ASSUME QueueInv, [Next]_vars PROVE QueueInv'
    OBVIOUS
<1> USE DEF QueueInv, PermitsMatch
<1>0. InHand \in {0, 1}
    BY DEF InHand
<1>1. CASE QueueFrame
    <2>1. IsSeq(recvQueue') /\ Len(recvQueue') = Len(recvQueue) + 1
        BY <1>1, SeqAppend DEF QueueFrame
    <2>2. InHand' = InHand
        BY <1>1 DEF QueueFrame, InHand
    <2>. QED BY <1>0, <1>1, <2>1, <2>2 DEF QueueFrame
<1>2. CASE ReleaseOne
    <2>1. InHand' = InHand
        BY <1>2 DEF ReleaseOne, InHand
    <2>. QED BY <1>0, <1>2, <2>1 DEF ReleaseOne, OneMore
<1>3. CASE TryAcquire
    <2>1. InHand = 0 /\ InHand' = 1
        BY <1>3, Zenon DEF TryAcquire, InHand
    <2>. QED BY <1>3, <2>1 DEF TryAcquire, slotVars
<1>4. CASE PopFrame
    <2>1. InHand = 1 /\ InHand' = 0
        BY <1>4, Zenon DEF PopFrame, InHand
    <2>2. recvQueue # <<>>
        <3>1. Len(recvQueue) # 0
            BY <2>1
        <3>. QED BY <3>1
    <2>3. IsSeq(recvQueue') /\ Len(recvQueue) \in Nat /\ Len(recvQueue') = Len(recvQueue) - 1
        BY <1>4, <2>2, SeqTail DEF PopFrame
    <2>. QED BY <1>4, <2>1, <2>3 DEF PopFrame, slotVars
<1>5. CASE UNCHANGED <<recvQueue, semaphore, taking, slot>>
    <2>1. InHand' = InHand
        BY <1>5 DEF InHand
    <2>. QED BY <1>5, <2>1
<1>. QED BY <1>1, <1>2, <1>3, <1>4, <1>5
    DEF Next, vars, viewerVars, slotVars, AnswerBack, LoseByteBack, Arrive,
        SlotStep, SerialReadyRead, DropFrame, RecvThread

(* At the start the queue is empty and so is the semaphore.                 *)
LEMMA QueueInit == Init => QueueInv
<1> SUFFICES ASSUME ViewerInit PROVE QueueInv
    BY DEF Init
<1>1. IsSeq(<<>>) /\ Len(<<>>) = 0
    <2>1. <<>> \in Seq({})
        OBVIOUS
    <2>. QED BY <2>1 DEF IsSeq
<1>2. InHand = 0
    BY Zenon DEF ViewerInit, InHand
<1>. QED BY <1>1, <1>2 DEF ViewerInit, QueueInv, PermitsMatch

(* The semaphore of recvMessage counts the queued messages, whatever the    *)
(* order in which the GUI thread and the receive thread step                *)
(* (SerialEmulator.cpp:151-205 and 286-298).                                *)
THEOREM PermitsAlwaysMatch == Spec => []PermitsMatch
<1>1. QueueInv => PermitsMatch
    BY DEF QueueInv
<1>. QED BY <1>1, QueueInit, StepQueue, PTL DEF Spec

-----------------------------------------------------------------------------
(* Frames.                                                                  *)
LEMMA LeastOf ==
    ASSUME NEW S \in SUBSET Nat, S # {}
    PROVE  \E least \in S : \A n \in S : least <= n
<1> DEFINE R == {ss \in Nat \X Nat : ss[1] < ss[2]}
<1>1. IsWellFoundedOn(R, Nat)
    BY NatLessThanWellFounded, Zenon DEF OpToRel
<1>2. PICK x \in S : \A y \in S : <<y, x>> \notin R
    BY <1>1, WFMin
<1>3. ASSUME NEW y \in S PROVE x <= y
    <2>1. x \in Nat /\ y \in Nat /\ ~(y < x)
        BY <1>2
    <2>. QED BY <2>1
<1>. QED BY <1>3

(* The running sums of a checksum, as far as they go.                       *)
SumsTo(h, bytes, n) ==
    /\ h \in [0..n -> Byte] /\ h[0] = 0
    /\ \A i \in 1..n : h[i] = (h[i - 1] + bytes[i]) % Modulus

(* There are such sums, whatever the bytes: a least n without any would be  *)
(* neither 0 nor the successor of one that has them.                        *)
LEMMA SumsExist ==
    ASSUME NEW bytes \in Seq(Byte), NEW n \in 0..Len(bytes)
    PROVE  \E h : SumsTo(h, bytes, n)
<1> USE FrameAssumption
<1> DEFINE None == {k \in 0..Len(bytes) : ~\E h : SumsTo(h, bytes, k)}
<1>1. ASSUME None # {} PROVE FALSE
    <2>1. None \in SUBSET Nat
        OBVIOUS
    <2>2. PICK k \in None : \A l \in None : k <= l
        BY <1>1, <2>1, LeastOf
    <2>3. k # 0
        <3>1. SumsTo([i \in 0..0 |-> 0], bytes, 0)
            BY DEF SumsTo, Byte
        <3>. QED BY <2>2, <3>1
    <2>4. k - 1 \in 0..Len(bytes) /\ k \in 1..Len(bytes) /\ k - 1 \notin None
        BY <2>1, <2>2, <2>3
    <2>5. PICK h : SumsTo(h, bytes, k - 1)
        BY <2>4
    <2>6. bytes[k] \in Byte /\ h[k - 1] \in Byte
        BY <2>4, <2>5 DEF SumsTo
    <2> DEFINE more == [i \in 0..k |-> IF i = k THEN (h[k - 1] + bytes[k]) % Modulus ELSE h[i]]
    <2>7. (h[k - 1] + bytes[k]) % Modulus \in Byte
        BY <2>6 DEF Byte
    <2>8. more \in [0..k -> Byte]
        BY <2>4, <2>5, <2>7 DEF SumsTo
    <2>9. more[0] = 0
        BY <2>4, <2>5 DEF SumsTo
    <2>10. \A i \in 1..k : more[i] = (more[i - 1] + bytes[i]) % Modulus
        <3>1. TAKE i \in 1..k
        <3>2. CASE i = k
            BY <2>4, <3>2
        <3>3. CASE i # k
            <4>1. i \in 1..k-1 /\ i - 1 \in 0..k /\ i - 1 # k /\ i \in 0..k
                BY <2>4, <3>3
            <4>2. more[i] = h[i] /\ more[i - 1] = h[i - 1]
                BY <3>3, <4>1
            <4>. QED BY <2>5, <4>1, <4>2 DEF SumsTo
        <3>. QED BY <3>2, <3>3
    <2>11. SumsTo(more, bytes, k)
        BY <2>8, <2>9, <2>10 DEF SumsTo
    <2>. QED BY <2>2, <2>11
<1>2. n \notin None
    BY <1>1
<1>. QED BY <1>2

(* A checksum is a byte.                                                    *)
LEMMA ChecksumIsByte ==
    ASSUME NEW bytes \in Seq(Byte)
    PROVE  Checksum(bytes) \in Byte
<1> USE FrameAssumption
<1> DEFINE len == Len(bytes)
           Equation(f) == f = [n \in 0..len |->
                                  IF n = 0 THEN 0 ELSE (f[n - 1] + bytes[n]) % Modulus]
           sum == CHOOSE f : Equation(f)
<1>1. len \in Nat /\ 0 \in Byte
    BY DEF Byte
<1>2. Checksum(bytes) = sum[len]
    BY DEF Checksum
<1>3. Equation(sum)
    <2>1. PICK h : SumsTo(h, bytes, len)
        BY <1>1, SumsExist
    <2>2. Equation(h)
        <3>1. h = [n \in 0..len |-> h[n]]
            BY <2>1 DEF SumsTo
        <3>2. \A n \in 0..len : h[n] = IF n = 0 THEN 0 ELSE (h[n - 1] + bytes[n]) % Modulus
            BY <1>1, <2>1 DEF SumsTo
        <3>. QED BY <3>1, <3>2
    <2>. QED BY <2>2
<1> HIDE DEF sum
<1> DEFINE Bad == {n \in 0..len : sum[n] \notin Byte}
<1>4. ASSUME Bad # {} PROVE FALSE
    <2>1. Bad \in SUBSET Nat
        BY <1>1
    <2>2. PICK k \in Bad : \A l \in Bad : k <= l
        BY <1>4, <2>1, LeastOf
    <2>3. sum[k] = IF k = 0 THEN 0 ELSE (sum[k - 1] + bytes[k]) % Modulus
        BY <1>3, <2>2
    <2>4. k # 0
        BY <1>1, <2>2, <2>3
    <2>5. k - 1 \in 0..len /\ k \in 1..len /\ k - 1 \notin Bad
        BY <1>1, <2>1, <2>2, <2>4
    <2>6. sum[k - 1] \in Byte /\ bytes[k] \in Byte
        BY <2>5
    <2>7. (sum[k - 1] + bytes[k]) % Modulus \in Byte
        BY <2>6 DEF Byte
    <2>. QED BY <2>2, <2>3, <2>4, <2>7
<1>5. sum[len] \in Byte
    BY <1>1, <1>4
<1>. QED BY <1>2, <1>5
-----------------------------------------------------------------------------
(* A message is the inside of its frame, a frame as long as it should be.   *)
LEMMA FrameIs ==
    ASSUME NEW m \in Messages
    PROVE  /\ Frame(m) \in Seq(Byte) /\ Len(Frame(m)) = FrameSize
           /\ Frame(m)[1] = START_BYTE
           /\ ValidFrame(Frame(m))
           /\ Content(Frame(m)) = m
<1> USE FrameAssumption
<1> DEFINE bytes == <<START_BYTE>> \o m
           sum   == Checksum(bytes)
<1>1. m \in Seq(Byte) /\ Len(m) = FrameSize - 2
    BY DEF Messages
<1>2. <<START_BYTE>> \in Seq(Byte) /\ Len(<<START_BYTE>>) = 1
    BY DEF Byte
<1>3. /\ bytes \in Seq(Byte) /\ Len(bytes) = FrameSize - 1
      /\ bytes[1] = START_BYTE
      /\ \A i \in 1..FrameSize-2 : bytes[i + 1] = m[i]
    <2>1. bytes \in Seq(Byte) /\ Len(bytes) = 1 + Len(m)
        BY <1>1, <1>2, ConcatProperties
    <2>2. \A i \in 1..1 + Len(m) :
             bytes[i] = IF i <= 1 THEN <<START_BYTE>>[i] ELSE m[i - 1]
        BY <1>1, <1>2, ConcatProperties
    <2>3. bytes[1] = START_BYTE
        BY <1>1, <2>2
    <2>4. ASSUME NEW i \in 1..FrameSize-2 PROVE bytes[i + 1] = m[i]
        <3>1. i + 1 \in 1..1 + Len(m) /\ ~(i + 1 <= 1) /\ (i + 1) - 1 = i
            BY <1>1
        <3>. QED BY <2>2, <3>1
    <2>. QED BY <1>1, <2>1, <2>3, <2>4
<1>4. sum \in Byte
    BY <1>3, ChecksumIsByte
<1>5. Frame(m) = Append(bytes, sum)
    BY DEF Frame
<1> HIDE DEF bytes, sum
<1>6. /\ Frame(m) \in Seq(Byte) /\ Len(Frame(m)) = FrameSize
      /\ \A i \in 1..FrameSize-1 : Frame(m)[i] = bytes[i]
      /\ Frame(m)[FrameSize] = sum
    BY <1>3, <1>4, <1>5, AppendProperties
<1>7. Frame(m)[1] = START_BYTE
    BY <1>3, <1>6
<1>8. Front(Frame(m)) = bytes /\ Last(Frame(m)) = sum
    <2>1. Front(Frame(m)) = SubSeq(Frame(m), 1, FrameSize - 1)
        BY <1>6 DEF Front
    <2>2. /\ SubSeq(Frame(m), 1, FrameSize - 1) \in Seq(Byte)
          /\ Len(SubSeq(Frame(m), 1, FrameSize - 1)) = FrameSize - 1
          /\ \A i \in 1..FrameSize-1 : SubSeq(Frame(m), 1, FrameSize - 1)[i] = Frame(m)[i]
        BY <1>6
    <2>3. SubSeq(Frame(m), 1, FrameSize - 1) = bytes
        BY <1>3, <1>6, <2>2, SeqEqual
    <2>. QED BY <1>6, <2>1, <2>3 DEF Last
<1>9. ValidFrame(Frame(m))
    <2>1. Head(Frame(m)) = START_BYTE
        BY <1>6, <1>7
    <2>. QED BY <1>8, <2>1 DEF ValidFrame, ChecksumMatches, sum
<1>10. Content(Frame(m)) = m
    <2>1. /\ SubSeq(Frame(m), 2, FrameSize - 1) \in Seq(Byte)
          /\ Len(SubSeq(Frame(m), 2, FrameSize - 1)) = FrameSize - 2
          /\ \A i \in 1..FrameSize-2 :
                SubSeq(Frame(m), 2, FrameSize - 1)[i] = Frame(m)[i + 1]
        BY <1>6
    <2>2. \A i \in 1..FrameSize-2 : Frame(m)[i + 1] = m[i]
        <3>1. TAKE i \in 1..FrameSize-2
        <3>2. i + 1 \in 1..FrameSize-1
            OBVIOUS
        <3>. QED BY <1>3, <1>6, <3>2
    <2>. QED BY <1>1, <2>1, <2>2, SeqEqual DEF Content
<1>. QED BY <1>6, <1>7, <1>9, <1>10

(* The content of anything as long as a frame is a message.                 *)
LEMMA ContentIs ==
    ASSUME NEW s \in Seq(Byte), Len(s) = FrameSize
    PROVE  Content(s) \in Messages
<1> USE FrameAssumption
<1>1. /\ SubSeq(s, 2, FrameSize - 1) \in Seq(Byte)
      /\ Len(SubSeq(s, 2, FrameSize - 1)) = FrameSize - 2
    OBVIOUS
<1>2. SubSeq(s, 2, FrameSize - 1) \in [1..FrameSize-2 -> Byte]
    BY <1>1, LenProperties
<1>. QED BY <1>2 DEF Content, Messages

-----------------------------------------------------------------------------
(* What is not said of the types by RingInv and QueueInv.                   *)
ReceiverTypes ==
    /\ toModule \in Seq(Byte)
    /\ ring \in [0..RingSize-1 -> Byte]
    /\ buf \in Seq(Byte)
    /\ fifo \in Seq(Byte) /\ Len(fifo) = Unread
    /\ overrun \in BOOLEAN /\ lost \in Nat
    /\ requested \in Seq(Messages) /\ obtained \in Seq(Messages)

ViewerTypes ==
    /\ ready \in BOOLEAN /\ taking \in BOOLEAN /\ lostBack \in Nat
    /\ toViewer \in Seq(Byte) /\ port \in Seq(Byte)
    /\ batch \in Seq([1..FrameSize -> Byte])
    /\ slot \in {"idle", "release"} /\ (slot = "release" => batch # <<>>)
    /\ recvQueue \in Seq(Messages)
    /\ answered \in Seq(Messages) /\ received \in Seq(Messages)

(* Nothing has the wrong type at the start.                                 *)
LEMMA TypesInit == Init => ReceiverTypes /\ ViewerTypes
<1> SUFFICES ASSUME Init PROVE ReceiverTypes /\ ViewerTypes
    OBVIOUS
<1>1. <<>> \in Seq(Byte) /\ <<>> \in Seq(Messages) /\ <<>> \in Seq([1..FrameSize -> Byte])
    OBVIOUS
<1>2. Unread = 0
    BY NothingUnread DEF Init, ReceiverInit
<1>3. 0 \in Byte
    BY FrameAssumption DEF Byte
<1>4. ReceiverTypes
    BY <1>1, <1>2, <1>3 DEF Init, ReceiverInit, ReceiverTypes
<1>5. ViewerTypes
    BY <1>1 DEF Init, ViewerInit, ViewerTypes
<1>. QED BY <1>4, <1>5

(* The steps on the way to the module.                                      *)
LEMMA ReceiverTypesStep ==
    RingInv /\ ReceiverTypes /\ [Next]_vars => ReceiverTypes'
<1> SUFFICES ASSUME RingInv, ReceiverTypes, [Next]_vars PROVE ReceiverTypes'
    OBVIOUS
<1> USE FrameAssumption, RingAssumption DEF ReceiverTypes
<1>1. CASE Request
    <2>1. PICK m \in Requests : /\ toModule' = toModule \o Frame(m)
                                /\ requested' = Append(requested, m)
        BY <1>1 DEF Request
    <2>2. m \in Messages /\ Frame(m) \in Seq(Byte)
        BY FrameIs
    <2>3. toModule' \in Seq(Byte) /\ requested' \in Seq(Messages)
        BY <2>1, <2>2
    <2>. QED BY <1>1, <2>3 DEF Request, ringVars, Unread
<1>2. CASE LoseByte
    BY <1>2 DEF LoseByte, ringVars, Unread
<1>3. CASE Interrupt
    <2>1. Head(toModule) \in Byte /\ toModule' \in Seq(Byte)
        BY <1>3 DEF Interrupt
    <2>2. fifo' \in Seq(Byte) /\ Len(fifo') = Len(fifo) + 1
        BY <1>3, <2>1 DEF Interrupt
    <2>3. Unread \in Nat /\ Unread' = Unread + 1
        BY <1>3, UnreadNat DEF RingInv, Reserved, Interrupt, Unread
    <2>4. ring' \in [0..RingSize-1 -> Byte]
        BY <1>3, <2>1 DEF Interrupt
    <2>5. overrun' \in BOOLEAN
        BY <1>3, Zenon DEF Interrupt
    <2>. QED BY <1>3, <2>1, <2>2, <2>3, <2>4, <2>5 DEF Interrupt
<1>4. CASE RecvMessage
    <2>0. UNCHANGED <<toModule, overrun, requested, lost>>
        BY <1>4 DEF RecvMessage
    <2>1. CASE BytesAvailable
        BY <2>0, <2>1 DEF BytesAvailable, Unread
    <2>2. CASE TestStart
        <3>1. CASE ring[readIndex] = START_BYTE
            BY <2>0, <2>2, <3>1 DEF TestStart, Unread
        <3>2. CASE ring[readIndex] # START_BYTE
            <4>1. Unread' = Unread - 1 /\ Unread > 0 /\ Unread \in Nat
                BY <2>2, <3>2, UnreadNat DEF TestStart, RingInv, Reserved, Unread
            <4>2. fifo' \in Seq(Byte) /\ Len(fifo') = Len(fifo) - 1
                <5>1. fifo' = Tail(fifo) /\ fifo # <<>>
                    BY <2>2, <3>2, <4>1 DEF TestStart, Take
                <5>. QED BY <5>1
            <4>. QED BY <2>0, <2>2, <4>1, <4>2 DEF TestStart
        <3>. QED BY <3>1, <3>2
    <2>3. CASE Skip
        <3>1. Unread' = Unread
            BY <2>3 DEF Skip, Skipped, RingInv, Reserved, Unread
        <3>. QED BY <2>0, <2>3, <3>1 DEF Skip
    <2>4. CASE CopyByte
        <3>1. ring[readIndex] \in Byte
            BY DEF RingInv, Indices
        <3>2. buf' \in Seq(Byte) /\ Len(buf') = Len(buf) + 1
            BY <2>4, <3>1 DEF CopyByte
        <3>3. Unread' = Unread - 1 /\ Unread > 0 /\ Unread \in Nat
            BY <2>4, <3>2, UnreadNat DEF CopyByte, RingInv, Reserved, Unread
        <3>4. fifo' \in Seq(Byte) /\ Len(fifo') = Len(fifo) - 1
            BY <2>4, <3>3 DEF CopyByte, Take
        <3>. QED BY <2>0, <2>4, <3>2, <3>3, <3>4 DEF CopyByte
    <2>5. CASE Release
        <3>1. Content(buf) \in Messages
            BY <2>5, ContentIs DEF Release, RingInv, Reserved
        <3>2. obtained' \in Seq(Messages)
            BY <2>5, <3>1 DEF Release
        <3>3. buf' \in Seq(Byte) /\ Len(buf') = 0
            BY <2>5 DEF Release
        <3>4. Unread' = Unread
            <4>1. Len(buf) = FrameSize /\ Len(buf') = 0 /\ available' = available - FrameSize
                BY <2>5, <3>3 DEF Release, RingInv, Reserved
            <4>2. at = "release" /\ at' = "idle" /\ available \in Nat
                BY <2>5 DEF Release, RingInv, Reserved
            <4>. QED BY <4>1, <4>2 DEF Unread
        <3>. QED BY <2>0, <2>5, <3>2, <3>3, <3>4 DEF Release
    <2>. QED BY <1>4, <2>1, <2>2, <2>3, <2>4, <2>5 DEF RecvMessage
<1>5. CASE UNCHANGED receiverVars
    BY <1>5 DEF receiverVars, ringVars, Unread
<1>. QED BY <1>1, <1>2, <1>3, <1>4, <1>5 DEF Next, vars

-----------------------------------------------------------------------------
(* The quotient of two numbers is a number.                                 *)
LEMMA QuotientIs ==
    ASSUME NEW a \in Nat, NEW f \in Nat \ {0}
    PROVE  a \div f \in Nat
<1>1. a \div f \in Int /\ a < (a \div f + 1) * f
    OBVIOUS
<1>2. \A d \in Int : d + 1 <= 0 => (d + 1) * f <= 0
    OBVIOUS
<1>. QED BY <1>1, <1>2

(* The frames and the rest that some bytes are cut into.                    *)
LEMMA CutIs ==
    ASSUME NEW bytes \in Seq(Byte), NEW count \in Nat,
           count = Len(bytes) \div FrameSize
    PROVE  /\ count * FrameSize <= Len(bytes)
           /\ Len(bytes) < (count + 1) * FrameSize
           /\ \A n \in 1..count :
                 /\ (n - 1) * FrameSize \in Nat
                 /\ n * FrameSize = (n - 1) * FrameSize + FrameSize
                 /\ n * FrameSize <= count * FrameSize
<1> USE FrameAssumption
<1>1. \A a, f \in Nat : f > 0 => (a \div f) * f <= a /\ a < (a \div f + 1) * f
    OBVIOUS
<1>2. ASSUME NEW n \in 1..count
      PROVE  /\ (n - 1) * FrameSize \in Nat
             /\ n * FrameSize = (n - 1) * FrameSize + FrameSize
             /\ n * FrameSize <= count * FrameSize
    <2>1. \A a, b, f \in Nat : a <= b => a * f <= b * f /\ a * f \in Nat
        OBVIOUS
    <2>2. \A a, f \in Nat : (a + 1) * f = a * f + f
        OBVIOUS
    <2>3. n - 1 \in Nat /\ n \in Nat /\ (n - 1) + 1 = n /\ n <= count /\ n - 1 <= n
        OBVIOUS
    <2>. QED BY <2>1, <2>2, <2>3
<1>. QED BY <1>1, <1>2

(* The nth frame of some bytes that hold at least n.                        *)
LEMMA FramesAre ==
    ASSUME NEW bytes \in Seq(Byte), NEW count \in Nat,
           count = Len(bytes) \div FrameSize,
           NEW n \in 1..count
    PROVE  /\ FrameAt(bytes, n) \in Seq(Byte)
           /\ Len(FrameAt(bytes, n)) = FrameSize
           /\ \A j \in 1..FrameSize : FrameAt(bytes, n)[j] = bytes[(n - 1) * FrameSize + j]
<1> USE FrameAssumption
<1> DEFINE low == (n - 1) * FrameSize
<1>1. low \in Nat /\ n * FrameSize = low + FrameSize /\ low + FrameSize <= Len(bytes)
    <2>1. /\ count * FrameSize <= Len(bytes)
          /\ \A k \in 1..count :
                /\ (k - 1) * FrameSize \in Nat
                /\ k * FrameSize = (k - 1) * FrameSize + FrameSize
                /\ k * FrameSize <= count * FrameSize
        BY CutIs, Zenon
    <2>2. low \in Nat /\ n * FrameSize = low + FrameSize
        BY <2>1, Zenon
    <2>3. low + FrameSize <= count * FrameSize
        <3>1. n * FrameSize <= count * FrameSize
            BY <2>1, Zenon
        <3>. QED BY <2>2, <3>1, Zenon
    <2>4. PICK top \in Nat : top = count * FrameSize
        <3>1. \A a, f \in Nat : a * f \in Nat
            OBVIOUS
        <3>. QED BY <3>1
    <2>5. low + FrameSize <= top /\ top <= Len(bytes)
        BY <2>1, <2>3, <2>4, Zenon
    <2> HIDE DEF low
    <2>. QED BY <2>2, <2>5
<1> HIDE DEF low
<1>2. FrameAt(bytes, n) = SubSeq(bytes, low + 1, low + FrameSize)
    BY <1>1 DEF FrameAt, low
<1>3. /\ SubSeq(bytes, low + 1, low + FrameSize) \in Seq(Byte)
      /\ Len(SubSeq(bytes, low + 1, low + FrameSize)) = FrameSize
      /\ \A j \in 1..FrameSize : SubSeq(bytes, low + 1, low + FrameSize)[j] = bytes[low + j]
    BY <1>1
<1>. QED BY <1>2, <1>3 DEF low

(* What is left of them when the whole frames have been taken.              *)
LEMMA RestIs ==
    ASSUME NEW bytes \in Seq(Byte), NEW count \in Nat,
           count = Len(bytes) \div FrameSize
    PROVE  /\ Rest(bytes, count) \in Seq(Byte)
           /\ Len(Rest(bytes, count)) = Len(bytes) - count * FrameSize
           /\ \A j \in 1..Len(bytes) - count * FrameSize :
                 Rest(bytes, count)[j] = bytes[count * FrameSize + j]
<1> USE FrameAssumption
<1> DEFINE cut == count * FrameSize
<1>1. cut \in Nat /\ cut <= Len(bytes)
    <2>1. \A a, f \in Nat : a * f \in Nat
        OBVIOUS
    <2>. QED BY <2>1, CutIs
<1> HIDE DEF cut
<1>2. Rest(bytes, count) = SubSeq(bytes, cut + 1, Len(bytes))
    BY DEF Rest, cut
<1>3. /\ SubSeq(bytes, cut + 1, Len(bytes)) \in Seq(Byte)
      /\ Len(SubSeq(bytes, cut + 1, Len(bytes))) = Len(bytes) - cut
      /\ \A j \in 1..Len(bytes)-cut : SubSeq(bytes, cut + 1, Len(bytes))[j] = bytes[cut + j]
    BY <1>1
<1>. QED BY <1>2, <1>3 DEF cut

(* What is flushed is a prefix, nothing when a start byte comes first.      *)
LEMMA SyncedIs ==
    ASSUME NEW bytes \in Seq(Byte)
    PROVE  /\ Synced(bytes) \in Seq(Byte)
           /\ bytes = <<>> => Synced(bytes) = bytes
           /\ bytes # <<>> /\ bytes[1] = START_BYTE => Synced(bytes) = bytes
<1> DEFINE starts == {n \in 1..Len(bytes) : bytes[n] = START_BYTE}
<1>1. CASE starts = {}
    <2>1. Synced(bytes) = <<>>
        BY <1>1 DEF Synced
    <2>2. bytes # <<>> => 1 \in 1..Len(bytes)
        OBVIOUS
    <2>3. bytes # <<>> => bytes[1] # START_BYTE
        BY <1>1, <2>2
    <2>. QED BY <2>1, <2>3
<1>2. CASE starts # {}
    <2>1. starts \in SUBSET Nat
        OBVIOUS
    <2>2. PICK l \in starts : \A n \in starts : l <= n
        BY <1>2, <2>1, LeastOf
    <2>3. Min(starts) \in starts /\ \A n \in starts : Min(starts) <= n
        BY <2>2 DEF Min
    <2>4. Synced(bytes) = SubSeq(bytes, Min(starts), Len(bytes))
        BY <1>2 DEF Synced
    <2>5. PICK first \in 1..Len(bytes) : first = Min(starts)
        BY <2>3
    <2>6. SubSeq(bytes, first, Len(bytes)) \in Seq(Byte)
        BY SubSeqProperties
    <2>7. ASSUME bytes # <<>>, bytes[1] = START_BYTE PROVE first = 1
        <3>1. 1 \in starts
            BY <2>7
        <3>2. first <= 1
            BY <2>3, <2>5, <3>1
        <3>. QED BY <3>2
    <2>8. SubSeq(bytes, 1, Len(bytes)) = bytes
        OBVIOUS
    <2>9. bytes # <<>>
        BY <2>5
    <2>. QED BY <2>4, <2>5, <2>6, <2>7, <2>8, <2>9
<1>. QED BY <1>1, <1>2

(* The steps on the way to the viewer.                                      *)
LEMMA ViewerTypesStep == ViewerTypes /\ [Next]_vars => ViewerTypes'
<1> SUFFICES ASSUME ViewerTypes, [Next]_vars PROVE ViewerTypes'
    OBVIOUS
<1> USE FrameAssumption, AnswersAssumption DEF ViewerTypes
<1>1. CASE AnswerBack
    <2>1. PICK m \in Answers : /\ toViewer' = toViewer \o Frame(m)
                               /\ answered' = Append(answered, m)
        BY <1>1 DEF AnswerBack
    <2>2. m \in Messages /\ Frame(m) \in Seq(Byte)
        BY FrameIs
    <2>3. toViewer' \in Seq(Byte) /\ answered' \in Seq(Messages)
        BY <2>1, <2>2
    <2>. QED BY <1>1, <2>3 DEF AnswerBack, slotVars
<1>2. CASE LoseByteBack
    BY <1>2 DEF LoseByteBack, slotVars
<1>3. CASE Arrive
    <2>1. Head(toViewer) \in Byte /\ toViewer' \in Seq(Byte)
        BY <1>3 DEF Arrive
    <2>. QED BY <1>3, <2>1 DEF Arrive
<1>4. CASE SerialReadyRead
    <2> DEFINE bytes == Synced(port)
               count == Len(bytes) \div FrameSize
    <2>1. bytes \in Seq(Byte)
        BY SyncedIs
    <2>2. count \in Nat
        <3>1. Len(bytes) \in Nat
            BY <2>1
        <3>. QED BY <3>1, QuotientIs
    <2>3. port' = Rest(bytes, count) /\ batch' = [n \in 1..count |-> FrameAt(bytes, n)]
        BY <1>4, Zenon DEF SerialReadyRead
    <2> HIDE DEF bytes
    <2>4. port' \in Seq(Byte)
        BY <2>1, <2>2, <2>3, RestIs
    <2>5. ASSUME NEW n \in 1..count PROVE FrameAt(bytes, n) \in [1..FrameSize -> Byte]
        <3>1. FrameAt(bytes, n) \in Seq(Byte) /\ Len(FrameAt(bytes, n)) = FrameSize
            BY <2>1, <2>2, FramesAre
        <3>. QED BY <3>1
    <2> HIDE DEF count
    <2>6. batch' \in [1..count -> [1..FrameSize -> Byte]]
        BY <2>2, <2>3, <2>5
    <2>7. batch' \in Seq([1..FrameSize -> Byte])
        BY <2>2, <2>6
    <2>. QED BY <1>4, <2>4, <2>7 DEF SerialReadyRead
<1>5. CASE DropFrame
    BY <1>5 DEF DropFrame
<1>6. CASE QueueFrame
    <2>1. Head(batch) \in [1..FrameSize -> Byte]
        BY <1>6 DEF QueueFrame
    <2>2. Head(batch) \in Seq(Byte) /\ Len(Head(batch)) = FrameSize
        BY <2>1
    <2>3. Content(Head(batch)) \in Messages
        BY <2>2, ContentIs
    <2>. QED BY <1>6, <2>3 DEF QueueFrame
<1>7. CASE ReleaseOne
    <2>1. Tail(batch) \in Seq([1..FrameSize -> Byte])
        BY <1>7 DEF ReleaseOne
    <2>2. batch' = Tail(batch) /\ slot' = "idle"
        BY <1>7 DEF ReleaseOne
    <2>3. UNCHANGED <<toViewer, port, ready, recvQueue, taking, answered, received, lostBack>>
        BY <1>7 DEF ReleaseOne
    <2>. QED BY <2>1, <2>2, <2>3
<1>8. CASE TryAcquire
    <2>1. taking' = TRUE
        BY <1>8 DEF TryAcquire
    <2>2. UNCHANGED <<toViewer, port, ready, batch, slot, recvQueue, answered, received, lostBack>>
        BY <1>8 DEF TryAcquire, slotVars
    <2>. QED BY <2>1, <2>2
<1>9. CASE PopFrame
    <2>0. /\ taking' = FALSE
          /\ UNCHANGED <<toViewer, port, ready, batch, slot, answered, lostBack>>
        BY <1>9 DEF PopFrame, slotVars
    <2>1. CASE recvQueue = <<>>
        <3>1. UNCHANGED <<recvQueue, received>>
            BY <1>9, <2>1 DEF PopFrame
        <3>. QED BY <2>0, <3>1
    <2>2. CASE recvQueue # <<>>
        <3>1. Head(recvQueue) \in Messages /\ Tail(recvQueue) \in Seq(Messages)
            BY <2>2
        <3>2. /\ recvQueue' = Tail(recvQueue)
              /\ received' = Append(received, Head(recvQueue))
            BY <1>9, <2>2 DEF PopFrame
        <3>3. received' \in Seq(Messages)
            BY <3>1, <3>2
        <3>. QED BY <2>0, <3>1, <3>2, <3>3
    <2>. QED BY <2>1, <2>2
<1>10. CASE UNCHANGED viewerVars
    BY <1>10 DEF viewerVars, slotVars
<1>. QED BY <1>1, <1>2, <1>3, <1>4, <1>5, <1>6, <1>7, <1>8, <1>9, <1>10
    DEF Next, vars, SlotStep, RecvThread

(* The invariants so far.                                                   *)
THEOREM TypesHold == Spec => [](RingInv /\ QueueInv /\ ReceiverTypes /\ ViewerTypes)
<1>1. Init => QueueInv
    BY QueueInit
<1>. QED BY <1>1, RingHolds, StepQueue, TypesInit, ReceiverTypesStep, ViewerTypesStep,
            PTL DEF Spec

(* Every variable of the link keeps its type: the indices stay inside the   *)
(* ring, and what is queued and returned is as long as a message.           *)
THEOREM TypeCorrect == Spec => []TypeOK
<1>1. ASSUME RingInv, QueueInv, ReceiverTypes, ViewerTypes
      PROVE  TypeOK
    <2>1. /\ writeIndex \in 0..RingSize-1 /\ readIndex \in 0..RingSize-1
          /\ available \in Nat /\ at \in {"idle", "test", "skip", "copy", "release"}
        BY <1>1 DEF RingInv, Reserved, Indices
    <2>2. /\ Len(buf) \in Nat
          /\ Len(buf) = 0 \/ Len(buf) < FrameSize \/ Len(buf) = FrameSize
        BY <1>1 DEF RingInv, Reserved
    <2>3. Len(buf) <= FrameSize
        BY <2>2, FrameAssumption
    <2>4. semaphore \in Nat
        BY <1>1 DEF QueueInv
    <2>. QED BY <1>1, <2>1, <2>3, <2>4, Zenon DEF ReceiverTypes, ViewerTypes, TypeOK
<1>. QED BY <1>1, TypesHold, PTL
-----------------------------------------------------------------------------
(* The bytes are those of the frames of all messages but the first ones,    *)
(* whole and in order.                                                      *)
Aligned(bytes, messages, from) ==
    /\ from \in 0..Len(messages)
    /\ Len(bytes) = FrameSize * (Len(messages) - from)
    /\ \A i \in 1..Len(messages)-from, j \in 1..FrameSize :
          bytes[FrameSize * (i - 1) + j] = Frame(messages[from + i])[j]

(* The messages of t, as far as s goes.                                     *)
Begins(s, t) == Len(s) <= Len(t) /\ \A i \in 1..Len(s) : s[i] = t[i]

(* The module has the messages sent so far and finds a start byte where it  *)
(* looks for one.                                                           *)
Stream == (buf \o fifo) \o toModule

ReceiverOrder ==
    lost = 0 /\ ~overrun =>
        /\ at # "skip"
        /\ Begins(obtained, requested)
        /\ Aligned(Stream, requested, Len(obtained))

(* The viewer has taken or queued the messages sent so far, the frames of   *)
(* the slot call in progress are the next ones, and the port begins with a  *)
(* frame.                                                                   *)
Through == received \o recvQueue
Pending == IF slot = "release" THEN Tail(batch) ELSE batch

ViewerOrder ==
    lostBack = 0 =>
        /\ Begins(Through, answered)
        /\ \A i \in 1..Len(Pending) : Pending[i] = Frame(answered[Len(Through) + i])
        /\ Aligned(port \o toViewer, answered, Len(Through) + Len(Pending))

(* Moving the first element from one sequence to the end of another.        *)
LEMMA Shift ==
    ASSUME NEW S, NEW a \in Seq(S), NEW b \in Seq(S), b # <<>>
    PROVE  Append(a, Head(b)) \o Tail(b) = a \o b
<1> DEFINE l == Append(a, Head(b)) \o Tail(b)
           r == a \o b
<1>1. /\ Append(a, Head(b)) \in Seq(S) /\ Len(Append(a, Head(b))) = Len(a) + 1
      /\ Tail(b) \in Seq(S) /\ Len(Tail(b)) = Len(b) - 1
      /\ Len(a) \in Nat /\ Len(b) \in Nat /\ Len(b) > 0
    OBVIOUS
<1>2. /\ l \in Seq(S) /\ Len(l) = Len(a) + Len(b)
      /\ r \in Seq(S) /\ Len(r) = Len(a) + Len(b)
    BY <1>1, ConcatProperties
<1>3. ASSUME NEW i \in 1..Len(a) + Len(b) PROVE l[i] = r[i]
    <2>1. r[i] = IF i <= Len(a) THEN a[i] ELSE b[i - Len(a)]
        BY <1>1, ConcatProperties
    <2>2. l[i] = IF i <= Len(a) + 1 THEN Append(a, Head(b))[i] ELSE Tail(b)[i - (Len(a) + 1)]
        <3>1. i \in 1..(Len(a) + 1) + (Len(b) - 1)
            BY <1>1
        <3>. QED BY <1>1, <3>1, ConcatProperties
    <2>3. CASE i <= Len(a)
        <3>1. Append(a, Head(b))[i] = a[i]
            BY <1>1, <2>3, AppendProperties
        <3>. QED BY <1>1, <2>1, <2>2, <2>3, <3>1
    <2>4. CASE i = Len(a) + 1
        <3>1. Append(a, Head(b))[i] = Head(b) /\ Head(b) = b[1]
            BY <1>1, <2>4, AppendProperties
        <3>2. i - Len(a) = 1
            BY <1>1, <2>4
        <3>. QED BY <1>1, <2>1, <2>2, <2>4, <3>1, <3>2
    <2>5. CASE i > Len(a) + 1
        <3>1. i - (Len(a) + 1) \in 1..Len(b)-1
            BY <1>1, <2>5
        <3>2. Tail(b)[i - (Len(a) + 1)] = b[(i - (Len(a) + 1)) + 1]
            BY <1>1, <3>1
        <3>3. (i - (Len(a) + 1)) + 1 = i - Len(a)
            BY <1>1
        <3>. QED BY <1>1, <2>1, <2>2, <2>5, <3>2, <3>3
    <2>. QED BY <1>1, <2>3, <2>4, <2>5
<1>. QED BY <1>2, <1>3, SeqEqual

(* Both parts of a sequence of bytes.                                       *)
LEMMA Joined ==
    ASSUME NEW s \in Seq(Byte), NEW t \in Seq(Byte)
    PROVE  /\ s \o t \in Seq(Byte)
           /\ Len(s \o t) = Len(s) + Len(t)
           /\ \A i \in 1..Len(s) : (s \o t)[i] = s[i]
           /\ \A i \in 1..Len(t) : (s \o t)[Len(s) + i] = t[i]
<1>1. /\ s \o t \in Seq(Byte)
      /\ Len(s \o t) = Len(s) + Len(t)
      /\ Len(s) \in Nat /\ Len(t) \in Nat
      /\ \A i \in 1..Len(s)+Len(t) : (s \o t)[i] = IF i <= Len(s) THEN s[i] ELSE t[i - Len(s)]
    BY ConcatProperties
<1>2. \A i \in 1..Len(s) : (s \o t)[i] = s[i]
    BY <1>1
<1>3. ASSUME NEW i \in 1..Len(t) PROVE (s \o t)[Len(s) + i] = t[i]
    <2>1. Len(s) + i \in 1..Len(s)+Len(t) /\ ~(Len(s) + i <= Len(s)) /\ (Len(s) + i) - Len(s) = i
        BY <1>1
    <2>. QED BY <1>1, <2>1
<1>. QED BY <1>1, <1>2, <1>3

(* Multiplying.                                                             *)
LEMMA Times ==
    /\ \A a, f \in Nat : f * a \in Nat /\ f * (a + 1) = f * a + f
    /\ \A a, b, f \in Nat : a <= b => f * a <= f * b
    /\ \A a, b, f \in Nat : f > 0 /\ f * a <= f * b => a <= b
<1>1. \A a, f \in Nat : f * a \in Nat /\ f * (a + 1) = f * a + f
    OBVIOUS
<1>2. \A a, b, f \in Nat : a <= b => f * a <= f * b
    OBVIOUS
<1>3. ASSUME NEW a \in Nat, NEW b \in Nat, NEW f \in Nat, f > 0, f * a <= f * b, ~(a <= b)
      PROVE  FALSE
    <2>1. f * (b + 1) <= f * a
        BY <1>2, <1>3
    <2>. QED BY <1>1, <1>3, <2>1
<1>. QED BY <1>1, <1>2, <1>3

(* ... a sum.                                                               *)
LEMMA TimesSum == \A a, b, f \in Nat : f * (a + b) = f * a + f * b
OBVIOUS

(* Where a byte is: the frame and the place in it.                          *)
LEMMA PlaceInFrame ==
    ASSUME NEW count \in Nat, NEW i \in 1..count, NEW j \in 1..FrameSize
    PROVE  /\ FrameSize * (i - 1) \in Nat
           /\ FrameSize * (i - 1) + j \in 1..FrameSize*count
           /\ FrameSize * i = FrameSize * (i - 1) + FrameSize
<1> USE FrameAssumption
<1>1. i - 1 \in Nat /\ i \in Nat /\ i <= count /\ (i - 1) + 1 = i /\ FrameSize \in Nat
    OBVIOUS
<1>2. /\ FrameSize * (i - 1) \in Nat
      /\ FrameSize * i = FrameSize * (i - 1) + FrameSize
      /\ FrameSize * i <= FrameSize * count
      /\ FrameSize * count \in Nat
    <2>1. FrameSize * (i - 1) \in Nat /\ FrameSize * count \in Nat
        BY <1>1, Times, Zenon
    <2>2. FrameSize * i <= FrameSize * count
        BY <1>1, Times, Zenon
    <2>3. FrameSize * ((i - 1) + 1) = FrameSize * (i - 1) + FrameSize
        BY <1>1, Times, Zenon
    <2>. QED BY <1>1, <2>1, <2>2, <2>3
<1>3. \A low, top \in Nat : low + FrameSize <= top => low + j \in 1..top
    OBVIOUS
<1>. QED BY <1>2, <1>3

(* A message is sent.                                                       *)
LEMMA AlignedAppend ==
    ASSUME NEW s \in Seq(Byte), NEW messages \in Seq(Messages), NEW from,
           Aligned(s, messages, from), NEW m \in Messages
    PROVE  Aligned(s \o Frame(m), Append(messages, m), from)
<1> USE FrameAssumption
<1> DEFINE count == Len(messages) - from
           more == Append(messages, m)
           all == s \o Frame(m)
<1>1. from \in Nat /\ count \in Nat /\ from <= Len(messages) /\ Len(messages) \in Nat
    BY DEF Aligned
<1>2. /\ Len(more) = Len(messages) + 1
      /\ \A i \in 1..Len(messages) : more[i] = messages[i]
      /\ more[Len(messages) + 1] = m
    BY AppendProperties
<1>3. Frame(m) \in Seq(Byte) /\ Len(Frame(m)) = FrameSize
    BY FrameIs
<1>4. /\ Len(all) = Len(s) + FrameSize
      /\ \A i \in 1..Len(s) : all[i] = s[i]
      /\ \A i \in 1..FrameSize : all[Len(s) + i] = Frame(m)[i]
    BY <1>3, Joined
<1>5. Len(s) = FrameSize * count
    BY DEF Aligned
<1>6. Len(more) - from = count + 1 /\ from + (count + 1) = Len(messages) + 1
    BY <1>1, <1>2
<1>7. Len(all) = FrameSize * (count + 1)
    <2>1. FrameSize * (count + 1) = FrameSize * count + FrameSize
        BY <1>1, Times
    <2>. QED BY <1>4, <1>5, <2>1
<1>8. ASSUME NEW i \in 1..count+1, NEW j \in 1..FrameSize
      PROVE  all[FrameSize * (i - 1) + j] = Frame(more[from + i])[j]
    <2>1. CASE i = count + 1
        <3>1. i - 1 = count /\ from + i = Len(messages) + 1
            BY <1>1, <1>6, <2>1
        <3>. QED BY <1>2, <1>4, <1>5, <3>1
    <2>2. CASE i # count + 1
        <3>1. i \in 1..count /\ from + i \in 1..Len(messages)
            BY <1>1, <2>2
        <3>2. FrameSize * (i - 1) + j \in 1..Len(s)
            BY <1>1, <1>5, <3>1, PlaceInFrame
        <3>3. s[FrameSize * (i - 1) + j] = Frame(messages[from + i])[j]
            BY <3>1 DEF Aligned
        <3>. QED BY <1>2, <1>4, <3>1, <3>2, <3>3
    <2>. QED BY <2>1, <2>2
<1>9. from \in 0..Len(more)
    BY <1>1, <1>2
<1> HIDE DEF count, more, all
<1>10. Aligned(all, more, from)
    BY <1>6, <1>7, <1>8, <1>9 DEF Aligned
<1>. QED BY <1>10 DEF all, more

(* The first frames, and what is left without them.                         *)
LEMMA AlignedCut ==
    ASSUME NEW s \in Seq(Byte), NEW messages \in Seq(Messages), NEW from,
           Aligned(s, messages, from),
           NEW cut \in Nat, FrameSize * cut <= Len(s)
    PROVE  /\ from \in Nat /\ from + cut <= Len(messages)
           /\ \A i \in 1..cut, j \in 1..FrameSize :
                 s[FrameSize * (i - 1) + j] = Frame(messages[from + i])[j]
           /\ \A r \in Seq(Byte) :
                 /\ Len(r) = Len(s) - FrameSize * cut
                 /\ \A n \in 1..Len(r) : r[n] = s[FrameSize * cut + n]
                 => Aligned(r, messages, from + cut)
<1> USE FrameAssumption
<1> DEFINE count == Len(messages) - from
           left  == count - cut
<1>1. from \in Nat /\ count \in Nat /\ from <= Len(messages) /\ Len(messages) \in Nat
    BY DEF Aligned
<1>2. Len(s) = FrameSize * count
    BY DEF Aligned
<1>3. cut <= count
    <2>1. FrameSize * cut <= FrameSize * count
        BY <1>2
    <2>2. FrameSize \in Nat /\ FrameSize > 0
        OBVIOUS
    <2>. QED BY <1>1, <2>1, <2>2, Times, Zenon
<1>4. from + cut <= Len(messages) /\ left \in Nat /\ Len(messages) - (from + cut) = left
    BY <1>1, <1>3
<1>5. ASSUME NEW i \in 1..cut, NEW j \in 1..FrameSize
      PROVE  s[FrameSize * (i - 1) + j] = Frame(messages[from + i])[j]
    BY <1>1, <1>3, SMTT(20) DEF Aligned
<1>6. ASSUME NEW r \in Seq(Byte), Len(r) = Len(s) - FrameSize * cut,
             \A n \in 1..Len(r) : r[n] = s[FrameSize * cut + n]
      PROVE  Aligned(r, messages, from + cut)
    <2>1. FrameSize * count = FrameSize * cut + FrameSize * left
        <3>1. cut \in Nat /\ left \in Nat /\ FrameSize \in Nat /\ cut + left = count
            BY <1>1, <1>4
        <3>2. FrameSize * (cut + left) = FrameSize * cut + FrameSize * left
            BY <3>1, TimesSum, Zenon
        <3>. QED BY <3>1, <3>2
    <2>2. FrameSize * cut \in Nat /\ FrameSize * left \in Nat
        <3>1. FrameSize \in Nat
            OBVIOUS
        <3>. QED BY <1>4, <3>1, Times, Zenon
    <2>3. Len(r) = FrameSize * left
        BY <1>2, <1>6, <2>1, <2>2
    <2>4. ASSUME NEW i \in 1..left, NEW j \in 1..FrameSize
          PROVE  r[FrameSize * (i - 1) + j] = Frame(messages[(from + cut) + i])[j]
        <3>1. FrameSize * (i - 1) + j \in 1..Len(r) /\ FrameSize * (i - 1) \in Nat
            BY <1>4, <2>3, PlaceInFrame
        <3>2. r[FrameSize * (i - 1) + j] = s[FrameSize * cut + (FrameSize * (i - 1) + j)]
            BY <1>6, <3>1
        <3>3. FrameSize * cut + FrameSize * (i - 1) = FrameSize * ((cut + i) - 1)
            <4>1. i - 1 \in Nat /\ cut + (i - 1) = (cut + i) - 1 /\ FrameSize \in Nat
                OBVIOUS
            <4>2. FrameSize * (cut + (i - 1)) = FrameSize * cut + FrameSize * (i - 1)
                BY <4>1, TimesSum, Zenon
            <4>3. FrameSize * (cut + (i - 1)) = FrameSize * ((cut + i) - 1)
                BY <4>1, Zenon
            <4>. QED BY <4>2, <4>3, Zenon
        <3>4. FrameSize * cut + (FrameSize * (i - 1) + j) = FrameSize * ((cut + i) - 1) + j
            BY <2>2, <3>1, <3>3
        <3>5. cut + i \in 1..count /\ from + (cut + i) = (from + cut) + i
            BY <1>1, <1>4
        <3>6. s[FrameSize * ((cut + i) - 1) + j] = Frame(messages[from + (cut + i)])[j]
            BY <3>5 DEF Aligned
        <3>. QED BY <3>2, <3>4, <3>5, <3>6
    <2>5. from + cut \in 0..Len(messages)
        BY <1>1, <1>4
    <2> HIDE DEF count, left
    <2>. QED BY <1>4, <2>3, <2>4, <2>5 DEF Aligned
<1>. QED BY <1>1, <1>4, <1>5, <1>6

(* Nothing sent, nothing on its way.                                        *)
LEMMA AlignedEmpty == Aligned(<<>>, <<>>, 0)
<1>1. Len(<<>>) = 0 /\ FrameSize * 0 = 0
    BY FrameAssumption
<1>. QED BY <1>1 DEF Aligned

(* There is a whole frame, and it is that of the next message.              *)
LEMMA AlignedFirst ==
    ASSUME NEW s \in Seq(Byte), NEW messages \in Seq(Messages), NEW from,
           Aligned(s, messages, from), Len(s) > 0
    PROVE  /\ from + 1 \in 1..Len(messages) /\ FrameSize <= Len(s)
           /\ \A j \in 1..FrameSize : s[j] = Frame(messages[from + 1])[j]
           /\ s[1] = START_BYTE
<1> USE FrameAssumption
<1> DEFINE count == Len(messages) - from
<1>1. from \in Nat /\ count \in Nat /\ from <= Len(messages) /\ Len(messages) \in Nat
    BY DEF Aligned
<1>2. Len(s) = FrameSize * count
    BY DEF Aligned
<1>3. count > 0
    <2>1. count = 0 => FrameSize * count = 0
        OBVIOUS
    <2>. QED BY <1>1, <1>2, <2>1
<1>4. FrameSize * 1 <= FrameSize * count /\ FrameSize * 1 = FrameSize
    <2>1. 1 <= count /\ 1 \in Nat /\ FrameSize \in Nat
        BY <1>1, <1>3
    <2>. QED BY <1>1, <2>1, Times
<1>5. \A j \in 1..FrameSize : s[FrameSize * (1 - 1) + j] = Frame(messages[from + 1])[j]
    <2>1. 1 \in 1..Len(messages)-from
        BY <1>1, <1>3
    <2>. QED BY <2>1, Zenon DEF Aligned
<1>6. \A j \in 1..FrameSize : FrameSize * (1 - 1) + j = j
    OBVIOUS
<1>7. from + 1 \in 1..Len(messages)
    BY <1>1, <1>3
<1>8. \A j \in 1..FrameSize : s[j] = Frame(messages[from + 1])[j]
    BY <1>5, <1>6
<1>9. s[1] = START_BYTE
    <2>1. messages[from + 1] \in Messages /\ 1 \in 1..FrameSize
        BY <1>7
    <2>. QED BY <1>8, <2>1, FrameIs
<1>. QED BY <1>2, <1>4, <1>7, <1>8, <1>9

-----------------------------------------------------------------------------
(* The bytes on their way to the module, in two groupings.                  *)
LEMMA StreamIs ==
    ASSUME ReceiverTypes
    PROVE  /\ Stream = buf \o (fifo \o toModule)
           /\ Stream \in Seq(Byte) /\ fifo \o toModule \in Seq(Byte)
           /\ Len(Stream) = Len(buf) + Len(fifo \o toModule)
           /\ Len(fifo \o toModule) = Len(fifo) + Len(toModule)
<1>1. buf \in Seq(Byte) /\ fifo \in Seq(Byte) /\ toModule \in Seq(Byte)
    BY DEF ReceiverTypes
<1>2. (buf \o fifo) \o toModule = buf \o (fifo \o toModule)
    BY <1>1, ConcatAssociative
<1>3. fifo \o toModule \in Seq(Byte) /\ Len(fifo \o toModule) = Len(fifo) + Len(toModule)
    BY <1>1, Joined
<1>4. /\ buf \o (fifo \o toModule) \in Seq(Byte)
      /\ Len(buf \o (fifo \o toModule)) = Len(buf) + Len(fifo \o toModule)
    BY <1>1, <1>3, Joined
<1>. QED BY <1>2, <1>3, <1>4 DEF Stream

(* At the index is the first byte that has not been taken.                  *)
LEMMA FrontOfRing ==
    ASSUME RingInv, ReceiverTypes, ~overrun, Unread > 0
    PROVE  fifo # <<>> /\ ring[readIndex] = Head(fifo) /\ Head(fifo) = fifo[1]
<1>1. fifo \in Seq(Byte) /\ Len(fifo) = Unread
    BY DEF ReceiverTypes
<1>2. fifo # <<>> /\ Head(fifo) = fifo[1] /\ 1 \in 1..Unread
    BY <1>1
<1>3. fifo = [k \in 1..Unread |-> ring[Place(k - 1)]]
    BY DEF RingInv, Window
<1>4. fifo[1] = ring[Place(1 - 1)]
    BY <1>2, <1>3
<1>5. Place(1 - 1) = readIndex
    BY RingAssumption DEF Place, RingInv, Indices
<1>. QED BY <1>2, <1>4, <1>5

(* netv_recv_message looks at the front and finds a start byte.             *)
LEMMA FindsStart ==
    ASSUME RingInv, ReceiverTypes, ReceiverOrder, lost = 0, ~overrun, TestStart
    PROVE  ring[readIndex] = START_BYTE
<1>1. at = "test" /\ Len(buf) = 0 /\ available >= FrameSize /\ available \in Nat
    BY DEF TestStart, RingInv, Reserved
<1>2. Unread > 0
    BY <1>1, FrameAssumption DEF Unread
<1>3. fifo # <<>> /\ ring[readIndex] = fifo[1] /\ Len(fifo) = Unread /\ fifo \in Seq(Byte)
    BY <1>2, FrontOfRing DEF ReceiverTypes
<1>4. buf = <<>> /\ toModule \in Seq(Byte)
    BY <1>1 DEF ReceiverTypes
<1>5. Stream = fifo \o toModule /\ Stream \in Seq(Byte)
    <2>1. <<>> \o (fifo \o toModule) = fifo \o toModule
        BY StreamIs, ConcatEmptySeq
    <2>. QED BY <1>4, <2>1, StreamIs
<1>6. 1 \in 1..Len(fifo) /\ Len(toModule) \in Nat
    BY <1>2, <1>3, <1>4
<1>7. Len(Stream) > 0 /\ Stream[1] = fifo[1]
    BY <1>3, <1>4, <1>5, <1>6, Joined
<1>8. Aligned(Stream, requested, Len(obtained))
    BY DEF ReceiverOrder
<1>9. Stream[1] = START_BYTE
    BY <1>5, <1>7, <1>8, AlignedFirst DEF ReceiverTypes
<1>. QED BY <1>3, <1>7, <1>9

(* What netv_recv_message has copied is the frame of the next message.      *)
LEMMA ReleasesNext ==
    ASSUME RingInv, ReceiverTypes, ReceiverOrder, lost = 0, ~overrun, Release
    PROVE  /\ Len(obtained) + 1 \in 1..Len(requested)
           /\ obtained' = Append(obtained, requested[Len(obtained) + 1])
           /\ Aligned(fifo \o toModule, requested, Len(obtained) + 1)
<1> USE FrameAssumption
<1> DEFINE rest == fifo \o toModule
           next == requested[Len(obtained) + 1]
<1>1. Len(buf) = FrameSize /\ buf \in Seq(Byte)
    BY DEF Release, RingInv, Reserved, ReceiverTypes
<1>2. /\ Aligned(Stream, requested, Len(obtained))
      /\ requested \in Seq(Messages) /\ obtained \in Seq(Messages)
    BY DEF ReceiverOrder, ReceiverTypes
<1>3. /\ Stream = buf \o rest /\ Stream \in Seq(Byte) /\ rest \in Seq(Byte)
      /\ Len(Stream) = FrameSize + Len(rest) /\ Len(rest) \in Nat
    <2>1. /\ Stream = buf \o rest /\ Stream \in Seq(Byte) /\ rest \in Seq(Byte)
          /\ Len(Stream) = Len(buf) + Len(rest)
        BY StreamIs
    <2>2. Len(rest) \in Nat
        BY <2>1, LenProperties
    <2>. QED BY <1>1, <2>1, <2>2
<1>4. /\ \A i \in 1..FrameSize : Stream[i] = buf[i]
      /\ \A i \in 1..Len(rest) : Stream[FrameSize + i] = rest[i]
    BY <1>1, <1>3, Joined
<1>5. /\ Len(obtained) + 1 \in 1..Len(requested)
      /\ \A j \in 1..FrameSize : Stream[j] = Frame(next)[j]
    <2>1. Len(Stream) > 0
        BY <1>3
    <2> HIDE DEF rest, next
    <2>3. /\ Stream \in Seq(Byte) /\ requested \in Seq(Messages)
          /\ Aligned(Stream, requested, Len(obtained))
        BY <1>2, <1>3
    <2>2. /\ Len(obtained) + 1 \in 1..Len(requested) /\ FrameSize <= Len(Stream)
          /\ \A j \in 1..FrameSize : Stream[j] = Frame(requested[Len(obtained) + 1])[j]
          /\ Stream[1] = START_BYTE
        BY <2>1, <2>3, AlignedFirst, Zenon
    <2>. QED BY <2>2 DEF next
<1>6. next \in Messages
    BY <1>2, <1>5
<1>7. buf = Frame(next)
    <2>1. Frame(next) \in Seq(Byte) /\ Len(Frame(next)) = FrameSize
        BY <1>6, FrameIs
    <2> HIDE DEF next
    <2>. QED BY <1>1, <1>4, <1>5, <2>1, SeqEqual
<1>8. ChecksumMatches(buf) /\ Content(buf) = next
    <2>1. ValidFrame(Frame(next)) /\ Content(Frame(next)) = next
        BY <1>6, FrameIs
    <2>. QED BY <1>7, <2>1 DEF ValidFrame
<1>9. Aligned(rest, requested, Len(obtained) + 1)
    <2>1. FrameSize * 1 = FrameSize
        OBVIOUS
    <2>2. FrameSize * 1 <= Len(Stream) /\ Len(rest) = Len(Stream) - FrameSize * 1
        BY <1>3, <2>1
    <2>3. \A n \in 1..Len(rest) : rest[n] = Stream[FrameSize * 1 + n]
        BY <1>4, <2>1
    <2> HIDE DEF rest
    <2>. QED BY <1>2, <1>3, <2>2, <2>3, AlignedCut
<1>. QED BY <1>5, <1>8, <1>9 DEF Release

(* A message more at both ends.                                             *)
LEMMA BeginsLonger ==
    ASSUME NEW s \in Seq(Messages), NEW t \in Seq(Messages), Begins(s, t)
    PROVE  /\ \A m \in Messages : Begins(s, Append(t, m))
           /\ Len(s) + 1 <= Len(t) => Begins(Append(s, t[Len(s) + 1]), t)
<1>1. Len(s) \in Nat /\ Len(t) \in Nat
    OBVIOUS
<1>2. ASSUME NEW m \in Messages PROVE Begins(s, Append(t, m))
    <2>1. Len(Append(t, m)) = Len(t) + 1 /\ \A i \in 1..Len(t) : Append(t, m)[i] = t[i]
        BY AppendProperties
    <2>. QED BY <1>1, <2>1 DEF Begins
<1>3. ASSUME Len(s) + 1 <= Len(t) PROVE Begins(Append(s, t[Len(s) + 1]), t)
    <2> DEFINE m == t[Len(s) + 1]
    <2>1. m \in Messages
        BY <1>1, <1>3
    <2>2. /\ Len(Append(s, m)) = Len(s) + 1
          /\ \A i \in 1..Len(s) : Append(s, m)[i] = s[i]
          /\ Append(s, m)[Len(s) + 1] = m
        BY <2>1, AppendProperties
    <2>. QED BY <1>1, <1>3, <2>2 DEF Begins
<1>. QED BY <1>2, <1>3

(* The steps on the way to the module keep the order.                       *)
LEMMA ReceiverOrderStep ==
    RingInv /\ ReceiverTypes /\ ReceiverOrder /\ [Next]_vars => ReceiverOrder'
<1> SUFFICES ASSUME RingInv, ReceiverTypes, ReceiverOrder, [Next]_vars,
                    lost' = 0, ~overrun'
             PROVE  /\ at' # "skip"
                    /\ Begins(obtained', requested')
                    /\ Aligned(Stream', requested', Len(obtained'))
    BY DEF ReceiverOrder
<1> USE FrameAssumption, RingAssumption
<1>1. lost = 0 /\ ~overrun /\ ~LoseByte
    BY DEF Next, vars, receiverVars, ringVars, Request, LoseByte, Interrupt, RecvMessage,
           ReceiverTypes
<1>2. /\ at # "skip" /\ Begins(obtained, requested)
      /\ Aligned(Stream, requested, Len(obtained))
    BY <1>1 DEF ReceiverOrder
<1>3. /\ toModule \in Seq(Byte) /\ fifo \in Seq(Byte) /\ buf \in Seq(Byte)
      /\ requested \in Seq(Messages) /\ obtained \in Seq(Messages)
      /\ Stream \in Seq(Byte) /\ Stream = buf \o (fifo \o toModule)
    BY StreamIs DEF ReceiverTypes
<1>4. CASE Request
    <2>1. PICK m \in Requests : /\ toModule' = toModule \o Frame(m)
                                /\ requested' = Append(requested, m)
        BY <1>4 DEF Request
    <2>2. m \in Messages /\ Frame(m) \in Seq(Byte)
        BY FrameIs
    <2>3. UNCHANGED <<at, buf, fifo, obtained>>
        BY <1>4 DEF Request, ringVars
    <2>4. Stream' = Stream \o Frame(m)
        <3>1. buf \o fifo \in Seq(Byte)
            BY <1>3, Joined
        <3>2. (buf \o fifo) \o (toModule \o Frame(m)) = ((buf \o fifo) \o toModule) \o Frame(m)
            BY <1>3, <2>2, <3>1, ConcatAssociative, SMTT(20)
        <3>. QED BY <2>1, <2>3, <3>2 DEF Stream
    <2>5. Aligned(Stream \o Frame(m), Append(requested, m), Len(obtained))
        BY <1>2, <1>3, <2>2, AlignedAppend
    <2>6. Begins(obtained, Append(requested, m))
        BY <1>2, <1>3, <2>2, BeginsLonger
    <2>. QED BY <1>2, <2>1, <2>3, <2>4, <2>5, <2>6
<1>5. CASE Interrupt
    <2>1. /\ toModule # <<>>
          /\ fifo' = Append(fifo, Head(toModule)) /\ toModule' = Tail(toModule)
          /\ UNCHANGED <<at, buf, requested, obtained>>
        BY <1>5 DEF Interrupt
    <2>2. Append(fifo, Head(toModule)) \o Tail(toModule) = fifo \o toModule
        BY <1>3, <2>1, Shift
    <2>3. Stream' = Stream
        <3>1. Append(fifo, Head(toModule)) \in Seq(Byte) /\ Tail(toModule) \in Seq(Byte)
            BY <1>3, <2>1
        <3>2. (buf \o Append(fifo, Head(toModule))) \o Tail(toModule)
                  = buf \o (Append(fifo, Head(toModule)) \o Tail(toModule))
            BY <1>3, <3>1, ConcatAssociative, SMTT(20)
        <3>. QED BY <1>3, <2>1, <2>2, <3>2 DEF Stream
    <2>. QED BY <1>2, <2>1, <2>3
<1>6. CASE RecvMessage
    <2>0. UNCHANGED <<toModule, requested>>
        BY <1>6 DEF RecvMessage
    <2>1. CASE BytesAvailable
        <3>1. Stream' = Stream
            BY <2>0, <2>1 DEF BytesAvailable, Stream
        <3>. QED BY <1>2, <2>0, <2>1, <3>1 DEF BytesAvailable
    <2>2. CASE TestStart
        <3>1. ring[readIndex] = START_BYTE
            BY <1>1, <2>2, FindsStart
        <3>2. at' = "copy" /\ UNCHANGED <<fifo, buf, obtained>>
            BY <2>2, <3>1 DEF TestStart
        <3>3. Stream' = Stream
            BY <2>0, <3>2 DEF Stream
        <3>. QED BY <1>2, <2>0, <3>2, <3>3
    <2>3. CASE Skip
        BY <1>2, <2>3 DEF Skip
    <2>4. CASE CopyByte
        <3>1. Len(buf) < FrameSize /\ available >= FrameSize /\ available \in Nat /\ Len(buf) \in Nat
            BY <2>4 DEF CopyByte, RingInv, Reserved
        <3>2. Unread > 0
            BY <2>4, <3>1 DEF CopyByte, Unread
        <3>3. fifo # <<>> /\ ring[readIndex] = Head(fifo)
            BY <1>1, <3>2, FrontOfRing
        <3>4. buf' = Append(buf, Head(fifo)) /\ fifo' = Tail(fifo) /\ obtained' = obtained
            BY <2>4, <3>3 DEF CopyByte, Take
        <3>5. Stream' = Stream
            BY <1>3, <2>0, <3>3, <3>4, Shift DEF Stream
        <3>6. at' # "skip"
            BY <2>4 DEF CopyByte
        <3>. QED BY <1>2, <2>0, <3>4, <3>5, <3>6
    <2>5. CASE Release
        <3>1. /\ Len(obtained) + 1 \in 1..Len(requested)
              /\ obtained' = Append(obtained, requested[Len(obtained) + 1])
              /\ Aligned(fifo \o toModule, requested, Len(obtained) + 1)
            BY <1>1, <2>5, ReleasesNext
        <3>2. buf' = <<>> /\ fifo' = fifo /\ at' = "idle"
            BY <2>5 DEF Release
        <3>3. Stream' = fifo \o toModule
            <4>1. <<>> \o fifo = fifo
                BY <1>3, ConcatEmptySeq
            <4>. QED BY <2>0, <3>2, <4>1 DEF Stream
        <3>4. requested[Len(obtained) + 1] \in Messages
            BY <1>3, <3>1
        <3>5. Len(obtained') = Len(obtained) + 1
            BY <1>3, <3>1, <3>4
        <3>6. Begins(obtained', requested)
            <4>1. Len(obtained) + 1 <= Len(requested)
                BY <3>1
            <4>. QED BY <1>2, <1>3, <3>1, <4>1, BeginsLonger
        <3>. QED BY <2>0, <3>1, <3>2, <3>3, <3>5, <3>6
    <2>. QED BY <1>6, <2>1, <2>2, <2>3, <2>4, <2>5 DEF RecvMessage
<1>7. CASE UNCHANGED receiverVars
    <2>1. UNCHANGED <<at, obtained, requested>> /\ Stream' = Stream
        BY <1>7 DEF receiverVars, ringVars, Stream
    <2>. QED BY <1>2, <2>1
<1>. QED BY <1>1, <1>4, <1>5, <1>6, <1>7 DEF Next, vars

-----------------------------------------------------------------------------
(* The port begins with a frame, so that nothing of it is flushed, and what *)
(* serialReadyRead cuts it into are the frames of the next messages.        *)
LEMMA ReadsFrames ==
    ASSUME ViewerTypes, NEW from, Aligned(port \o toViewer, answered, from),
           NEW count, count = Len(port) \div FrameSize
    PROVE  /\ Synced(port) = port
           /\ count \in Nat /\ from \in Nat /\ from + count <= Len(answered)
           /\ \A n \in 1..count : FrameAt(port, n) = Frame(answered[from + n])
           /\ Aligned(Rest(port, count) \o toViewer, answered, from + count)
<1> USE FrameAssumption
<1> DEFINE all == port \o toViewer
           rest == Rest(port, count)
           left == rest \o toViewer
<1>1. /\ port \in Seq(Byte) /\ toViewer \in Seq(Byte) /\ answered \in Seq(Messages)
      /\ Len(port) \in Nat /\ Len(toViewer) \in Nat
    BY DEF ViewerTypes
<1>2. /\ all \in Seq(Byte) /\ Len(all) = Len(port) + Len(toViewer)
      /\ \A i \in 1..Len(port) : all[i] = port[i]
      /\ \A i \in 1..Len(toViewer) : all[Len(port) + i] = toViewer[i]
    BY <1>1, Joined
<1>3. count \in Nat
    BY <1>1, QuotientIs
<1>4. Synced(port) = port
    <2>1. ASSUME port # <<>> PROVE port[1] = START_BYTE
        <3>1. 1 \in 1..Len(port)
            BY <1>1, <2>1
        <3>2. Len(all) > 0 /\ all[1] = port[1]
            BY <1>1, <1>2, <3>1
        <3> HIDE DEF all
        <3>3. all[1] = START_BYTE
            BY <1>1, <1>2, <3>2, AlignedFirst, Zenon DEF all
        <3>. QED BY <3>2, <3>3
    <2>. QED BY <1>1, <2>1, SyncedIs
<1>5. count * FrameSize <= Len(port) /\ count * FrameSize = FrameSize * count
    BY <1>1, <1>3, CutIs
<1>6. FrameSize * count \in Nat
    BY <1>3, Times
<1>7. FrameSize * count <= Len(all)
    BY <1>1, <1>2, <1>5, <1>6
<1>8. /\ from \in Nat /\ from + count <= Len(answered)
      /\ \A i \in 1..count, j \in 1..FrameSize :
            all[FrameSize * (i - 1) + j] = Frame(answered[from + i])[j]
      /\ \A r \in Seq(Byte) :
            /\ Len(r) = Len(all) - FrameSize * count
            /\ \A n \in 1..Len(r) : r[n] = all[FrameSize * count + n]
            => Aligned(r, answered, from + count)
    <2> HIDE DEF all
    <2>. QED BY <1>1, <1>2, <1>3, <1>7, AlignedCut, ZenonT(40) DEF all
<1>9. ASSUME NEW n \in 1..count PROVE FrameAt(port, n) = Frame(answered[from + n])
    <2>1. /\ FrameAt(port, n) \in Seq(Byte) /\ Len(FrameAt(port, n)) = FrameSize
          /\ \A j \in 1..FrameSize : FrameAt(port, n)[j] = port[(n - 1) * FrameSize + j]
        BY <1>1, <1>3, FramesAre
    <2>2. answered[from + n] \in Messages
        <3>1. from + n \in 1..Len(answered)
            BY <1>1, <1>3, <1>8
        <3>. QED BY <1>1, <3>1
    <2>3. Frame(answered[from + n]) \in Seq(Byte) /\ Len(Frame(answered[from + n])) = FrameSize
        BY <2>2, FrameIs
    <2>4. ASSUME NEW j \in 1..FrameSize
          PROVE  FrameAt(port, n)[j] = Frame(answered[from + n])[j]
        <3>1. FrameSize * (n - 1) + j \in 1..FrameSize*count
            BY <1>3, PlaceInFrame
        <3>2. FrameSize * (n - 1) + j \in 1..Len(port)
            BY <1>1, <1>5, <1>6, <3>1
        <3>3. (n - 1) * FrameSize = FrameSize * (n - 1)
            OBVIOUS
        <3>4. all[FrameSize * (n - 1) + j] = port[FrameSize * (n - 1) + j]
            BY <1>2, <3>2
        <3>. QED BY <1>8, <2>1, <3>3, <3>4
    <2>. QED BY <2>1, <2>3, <2>4, SeqEqual
<1>10. /\ rest \in Seq(Byte) /\ Len(rest) = Len(port) - FrameSize * count
       /\ \A j \in 1..Len(port) - FrameSize * count : rest[j] = port[FrameSize * count + j]
    <2>1. /\ rest \in Seq(Byte) /\ Len(rest) = Len(port) - count * FrameSize
          /\ \A j \in 1..Len(port) - count * FrameSize : rest[j] = port[count * FrameSize + j]
        BY <1>1, <1>3, RestIs
    <2>. QED BY <1>5, <2>1
<1> DEFINE cut == FrameSize * count
<1> HIDE DEF all, rest, cut
<1>11. /\ left \in Seq(Byte) /\ Len(left) = Len(rest) + Len(toViewer)
       /\ \A i \in 1..Len(rest) : left[i] = rest[i]
       /\ \A i \in 1..Len(toViewer) : left[Len(rest) + i] = toViewer[i]
    BY <1>1, <1>10, Joined
<1> HIDE DEF left
<1>12. cut \in Nat /\ cut <= Len(port) /\ Len(rest) = Len(port) - cut
    BY <1>5, <1>6, <1>10 DEF cut
<1>13. Len(left) = Len(all) - cut
    BY <1>1, <1>2, <1>11, <1>12
<1>14. ASSUME NEW n \in 1..Len(left) PROVE left[n] = all[cut + n]
    <2>1. CASE n <= Len(rest)
        <3>1. n \in 1..Len(rest) /\ cut + n \in 1..Len(port)
            BY <1>1, <1>12, <2>1
        <3>2. rest[n] = port[cut + n]
            BY <1>10, <1>12, <3>1 DEF cut
        <3>. QED BY <1>2, <1>11, <3>1, <3>2
    <2>2. CASE n > Len(rest)
        <3>1. n - Len(rest) \in 1..Len(toViewer) /\ Len(rest) + (n - Len(rest)) = n
            BY <1>1, <1>11, <1>12, <2>2
        <3>2. cut + n = Len(port) + (n - Len(rest))
            BY <1>1, <1>12
        <3>3. left[n] = toViewer[n - Len(rest)]
            BY <1>11, <3>1
        <3>4. all[cut + n] = toViewer[n - Len(rest)]
            BY <1>2, <3>1, <3>2
        <3>. QED BY <3>3, <3>4
    <2>. QED BY <1>1, <1>12, <2>1, <2>2, SMTT(20)
<1>15. Aligned(left, answered, from + count)
    BY <1>8, <1>11, <1>13, <1>14 DEF cut
<1>. QED BY <1>3, <1>4, <1>8, <1>9, <1>15 DEF left, rest

(* What has been taken and queued, as one sequence.                         *)
LEMMA ThroughIs ==
    ASSUME ViewerTypes
    PROVE  /\ Through \in Seq(Messages) /\ Len(Through) \in Nat
           /\ \A m \in Messages : received \o Append(recvQueue, m) = Append(Through, m)
<1>1. received \in Seq(Messages) /\ recvQueue \in Seq(Messages)
    BY DEF ViewerTypes
<1>2. Through \in Seq(Messages) /\ Len(Through) = Len(received) + Len(recvQueue)
    BY <1>1, ConcatProperties DEF Through
<1>3. ASSUME NEW m \in Messages
      PROVE  received \o Append(recvQueue, m) = Append(Through, m)
    <2>1. /\ Append(recvQueue, m) = recvQueue \o <<m>> /\ <<m>> \in Seq(Messages)
          /\ Append(Through, m) = Through \o <<m>>
        BY <1>1, <1>2, AppendIsConcat
    <2>2. received \o (recvQueue \o <<m>>) = (received \o recvQueue) \o <<m>>
        BY <1>1, <2>1, ConcatAssociative
    <2>. QED BY <2>1, <2>2 DEF Through
<1>. QED BY <1>2, <1>3

(* Three sequences of bytes in two groupings.                               *)
LEMMA BytesAssociative ==
    ASSUME NEW s \in Seq(Byte), NEW t \in Seq(Byte), NEW u \in Seq(Byte)
    PROVE  (s \o t) \o u = s \o (t \o u)
BY ConcatAssociative

(* The steps on the way to the viewer keep the order.                       *)
LEMMA ViewerOrderStep ==
    ViewerTypes /\ ViewerOrder /\ [Next]_vars => ViewerOrder'
<1> SUFFICES ASSUME ViewerTypes, ViewerOrder, [Next]_vars, lostBack' = 0
             PROVE  /\ Begins(Through', answered')
                    /\ \A i \in 1..Len(Pending') :
                          Pending'[i] = Frame(answered'[Len(Through') + i])
                    /\ Aligned(port' \o toViewer', answered', Len(Through') + Len(Pending'))
    BY DEF ViewerOrder
<1> USE FrameAssumption, AnswersAssumption
<1>1. lostBack = 0 /\ ~LoseByteBack
    BY DEF Next, vars, viewerVars, AnswerBack, LoseByteBack, Arrive, SlotStep, SerialReadyRead,
           DropFrame, QueueFrame, ReleaseOne, RecvThread, TryAcquire, PopFrame, ViewerTypes
<1>2. /\ Begins(Through, answered)
      /\ \A i \in 1..Len(Pending) : Pending[i] = Frame(answered[Len(Through) + i])
      /\ Aligned(port \o toViewer, answered, Len(Through) + Len(Pending))
    BY <1>1 DEF ViewerOrder
<1>3. /\ toViewer \in Seq(Byte) /\ port \in Seq(Byte)
      /\ port \o toViewer \in Seq(Byte)
      /\ answered \in Seq(Messages)
      /\ Through \in Seq(Messages) /\ Len(Through) \in Nat
      /\ batch \in Seq([1..FrameSize -> Byte]) /\ (slot = "release" => batch # <<>>)
    BY Joined, ThroughIs DEF ViewerTypes
<1>4. Pending \in Seq([1..FrameSize -> Byte]) /\ Len(Pending) \in Nat
    BY <1>3 DEF Pending
<1>5. Len(Through) + Len(Pending) \in Nat /\ Len(Through) + Len(Pending) <= Len(answered)
    BY <1>2, <1>3, <1>4 DEF Aligned
<1>6. CASE AnswerBack
    <2>1. PICK m \in Answers : /\ toViewer' = toViewer \o Frame(m)
                               /\ answered' = Append(answered, m)
        BY <1>6 DEF AnswerBack
    <2>2. m \in Messages /\ Frame(m) \in Seq(Byte)
        BY FrameIs
    <2>3. UNCHANGED <<port, Through, Pending>>
        BY <1>6 DEF AnswerBack, slotVars, Through, Pending
    <2>4. port' \o toViewer' = (port \o toViewer) \o Frame(m)
        <3>0. port \in Seq(Byte) /\ toViewer \in Seq(Byte) /\ Frame(m) \in Seq(Byte)
            BY <1>3, <2>2
        <3>1. (port \o toViewer) \o Frame(m) = port \o (toViewer \o Frame(m))
            BY <3>0, BytesAssociative
        <3>. QED BY <2>1, <2>3, <3>1
    <2>5. Aligned(port' \o toViewer', answered', Len(Through) + Len(Pending))
        BY <1>2, <1>3, <2>1, <2>2, <2>4, AlignedAppend
    <2>6. Begins(Through, answered')
        BY <1>2, <1>3, <2>1, <2>2, BeginsLonger
    <2>7. ASSUME NEW i \in 1..Len(Pending)
          PROVE  Pending[i] = Frame(answered'[Len(Through) + i])
        <3>1. Len(Through) + i \in 1..Len(answered)
            BY <1>3, <1>4, <1>5
        <3>2. answered'[Len(Through) + i] = answered[Len(Through) + i]
            BY <1>3, <2>1, <2>2, <3>1, AppendProperties
        <3>. QED BY <1>2, <3>2
    <2>. QED BY <2>3, <2>5, <2>6, <2>7
<1>7. CASE Arrive
    <2>1. /\ toViewer # <<>>
          /\ port' = Append(port, Head(toViewer)) /\ toViewer' = Tail(toViewer)
          /\ UNCHANGED <<answered, Through, Pending>>
        BY <1>7 DEF Arrive, Through, Pending
    <2>2. port' \o toViewer' = port \o toViewer
        BY <1>3, <2>1, Shift
    <2>. QED BY <1>2, <2>1, <2>2
<1>8. CASE SerialReadyRead
    <2> DEFINE count == Len(port) \div FrameSize
               from  == Len(Through)
    <2>1. batch = <<>> /\ slot = "idle" /\ UNCHANGED <<toViewer, slot, answered, Through>>
        BY <1>8 DEF SerialReadyRead, Through
    <2>2. Pending = <<>> /\ Pending' = batch'
        BY <2>1 DEF Pending
    <2>3. Len(Pending) = 0 /\ from + Len(Pending) = from
        BY <1>3, <2>2
    <2>4. Aligned(port \o toViewer, answered, from)
        BY <1>2, <2>3
    <2>5. /\ Synced(port) = port
          /\ count \in Nat /\ from + count <= Len(answered)
          /\ \A n \in 1..count : FrameAt(port, n) = Frame(answered[from + n])
          /\ Aligned(Rest(port, count) \o toViewer, answered, from + count)
        BY <2>4, ReadsFrames
    <2>6. port' = Rest(port, count) /\ batch' = [n \in 1..count |-> FrameAt(port, n)]
        BY <1>8, <2>5 DEF SerialReadyRead
    <2> HIDE DEF count
    <2>7. Len(batch') = count
        BY <2>5, <2>6, FunctionIsSeq
    <2>8. \A i \in 1..Len(Pending') : Pending'[i] = Frame(answered'[Len(Through') + i])
        BY <2>1, <2>2, <2>5, <2>6, <2>7
    <2>9. Aligned(port' \o toViewer', answered', Len(Through') + Len(Pending'))
        BY <2>1, <2>2, <2>5, <2>6, <2>7
    <2>. QED BY <1>2, <2>1, <2>8, <2>9
<1>9. ASSUME batch # <<>>, slot = "idle"
      PROVE  /\ Pending = batch /\ Len(Through) + 1 <= Len(answered)
             /\ answered[Len(Through) + 1] \in Messages
             /\ Head(batch) = Frame(answered[Len(Through) + 1])
             /\ ValidFrame(Head(batch))
             /\ Content(Head(batch)) = answered[Len(Through) + 1]
    <2>1. Pending = batch /\ 1 \in 1..Len(Pending) /\ Head(batch) = batch[1]
        BY <1>3, <1>9 DEF Pending
    <2>2. Len(Through) + 1 \in 1..Len(answered)
        BY <1>3, <1>4, <1>5, <2>1
    <2>3. answered[Len(Through) + 1] \in Messages
        BY <1>3, <2>2
    <2>4. Head(batch) = Frame(answered[Len(Through) + 1])
        BY <1>2, <2>1
    <2>. QED BY <2>1, <2>2, <2>3, <2>4, FrameIs
<1>10. CASE DropFrame
    BY <1>9, <1>10 DEF DropFrame
<1>11. CASE QueueFrame
    <2> DEFINE m == answered[Len(Through) + 1]
    <2>1. batch # <<>> /\ slot = "idle" /\ slot' = "release"
          /\ UNCHANGED <<toViewer, port, batch, received, answered>>
        BY <1>11 DEF QueueFrame
    <2>2. /\ Pending = batch /\ Len(Through) + 1 <= Len(answered) /\ m \in Messages
          /\ Content(Head(batch)) = m
        BY <1>9, <2>1
    <2>3. recvQueue' = Append(recvQueue, m)
        BY <1>11, <2>2 DEF QueueFrame
    <2>4. Through' = Append(Through, m)
        BY <2>1, <2>2, <2>3, ThroughIs DEF Through
    <2>5. Pending' = Tail(Pending)
        BY <2>1, <2>2 DEF Pending
    <2>6. Len(Through') = Len(Through) + 1 /\ Len(Pending') = Len(Pending) - 1
          /\ \A i \in 1..Len(Pending)-1 : Pending'[i] = Pending[i + 1]
        BY <1>3, <1>4, <2>1, <2>2, <2>4, <2>5
    <2>7. Begins(Through', answered')
        BY <1>2, <1>3, <2>1, <2>2, <2>4, BeginsLonger
    <2>8. ASSUME NEW i \in 1..Len(Pending')
          PROVE  Pending'[i] = Frame(answered'[Len(Through') + i])
        <3>1. i \in 1..Len(Pending)-1 /\ i + 1 \in 1..Len(Pending)
              /\ Len(Through') + i = Len(Through) + (i + 1)
            BY <1>3, <1>4, <2>6
        <3>. QED BY <1>2, <2>1, <2>6, <3>1
    <2>9. Len(Through') + Len(Pending') = Len(Through) + Len(Pending)
        BY <1>3, <1>4, <2>6
    <2>. QED BY <1>2, <2>1, <2>7, <2>8, <2>9
<1>12. CASE ReleaseOne
    <2>1. /\ UNCHANGED <<toViewer, port, answered, Through>>
          /\ slot = "release" /\ slot' = "idle" /\ batch' = Tail(batch)
        BY <1>12 DEF ReleaseOne, Through
    <2>2. Pending' = Pending
        BY <2>1 DEF Pending
    <2>. QED BY <1>2, <2>1, <2>2
<1>13. CASE TryAcquire
    <2>1. UNCHANGED <<toViewer, port, answered, Through, Pending>>
        BY <1>13 DEF TryAcquire, slotVars, Through, Pending
    <2>. QED BY <1>2, <2>1
<1>14. CASE PopFrame
    <2>1. UNCHANGED <<toViewer, port, answered, Pending>>
        BY <1>14 DEF PopFrame, slotVars, Pending
    <2>2. Through' = Through
        <3>1. CASE recvQueue = <<>>
            BY <1>14, <3>1 DEF PopFrame, Through
        <3>2. CASE recvQueue # <<>>
            <4>1. /\ received' = Append(received, Head(recvQueue))
                  /\ recvQueue' = Tail(recvQueue)
                BY <1>14, <3>2 DEF PopFrame
            <4>2. received \in Seq(Messages) /\ recvQueue \in Seq(Messages)
                BY DEF ViewerTypes
            <4>. QED BY <3>2, <4>1, <4>2, Shift DEF Through
        <3>. QED BY <3>1, <3>2
    <2>. QED BY <1>2, <2>1, <2>2
<1>15. CASE UNCHANGED viewerVars
    <2>1. UNCHANGED <<toViewer, port, answered, Through, Pending>>
        BY <1>15 DEF viewerVars, slotVars, Through, Pending
    <2>. QED BY <1>2, <2>1
<1>. QED BY <1>1, <1>6, <1>7, <1>8, <1>10, <1>11, <1>12, <1>13, <1>14, <1>15
    DEF Next, vars, SlotStep, RecvThread

(* At the start nothing is on its way.                                      *)
LEMMA OrderInit == Init => ReceiverOrder /\ ViewerOrder
<1> SUFFICES ASSUME Init PROVE ReceiverOrder /\ ViewerOrder
    OBVIOUS
<1>1. Len(<<>>) = 0 /\ <<>> \o <<>> = <<>> /\ 0 + 0 = 0
    <2>1. <<>> \in Seq({})
        OBVIOUS
    <2>. QED BY <2>1, ConcatEmptySeq
<1>2. Begins(<<>>, <<>>)
    BY <1>1 DEF Begins
<1>3. /\ buf = <<>> /\ fifo = <<>> /\ toModule = <<>> /\ requested = <<>>
      /\ obtained = <<>> /\ at = "idle"
    BY DEF Init, ReceiverInit
<1>4. Stream = <<>>
    BY <1>1, <1>3, Zenon DEF Stream
<1>5. ReceiverOrder
    BY <1>1, <1>2, <1>3, <1>4, AlignedEmpty DEF ReceiverOrder
<1>6. /\ toViewer = <<>> /\ port = <<>> /\ batch = <<>> /\ slot = "idle"
      /\ recvQueue = <<>> /\ received = <<>> /\ answered = <<>>
    BY DEF Init, ViewerInit
<1>7. Through = <<>> /\ Pending = <<>>
    <2>1. Through = <<>>
        BY <1>1, <1>6, Zenon DEF Through
    <2>2. Pending = <<>>
        BY <1>6 DEF Pending
    <2>. QED BY <2>1, <2>2
<1>8. \A i \in 1..Len(Pending) : Pending[i] = Frame(answered[Len(Through) + i])
    BY <1>1, <1>7
<1>9. Aligned(port \o toViewer, answered, Len(Through) + Len(Pending))
    <2>1. Len(Through) + Len(Pending) = 0
        BY <1>1, <1>7
    <2>2. port \o toViewer = <<>>
        BY <1>1, <1>6
    <2>. QED BY <1>6, <2>1, <2>2, AlignedEmpty
<1>10. ViewerOrder
    BY <1>2, <1>6, <1>7, <1>8, <1>9 DEF ViewerOrder
<1>. QED BY <1>5, <1>10

(* What begins another sequence is a prefix of it.                          *)
LEMMA BeginsIsPrefix ==
    ASSUME NEW s \in Seq(Messages), NEW t \in Seq(Messages), Begins(s, t)
    PROVE  IsPrefix(s, t)
<1>1. Len(s) \in Nat /\ Len(t) \in Nat /\ Len(s) <= Len(t)
    BY DEF Begins
<1>2. SubSeq(s, 1, Len(s)) = s
    BY SubSeqFull
<1>3. /\ SubSeq(t, 1, Len(s)) \in Seq(Messages)
      /\ Len(SubSeq(t, 1, Len(s))) = Len(s)
      /\ \A i \in 1..Len(s) : SubSeq(t, 1, Len(s))[i] = t[i]
    BY <1>1
<1>4. SubSeq(t, 1, Len(s)) = s
    BY <1>3, SeqEqual DEF Begins
<1>. QED BY <1>1, <1>2, <1>4 DEF IsPrefix

(* Without bytes lost or overrun both ends get the messages of the other in *)
(* order, each once, however the bytes arrive and whatever they are         *)
(* (SerialEmulator.cpp:112-308, NETV16_SerialDriver.c:131-221).             *)
THEOREM AlwaysInOrder == Spec => []InOrder
<1> DEFINE Inv == /\ RingInv /\ QueueInv /\ ReceiverTypes /\ ViewerTypes
                  /\ ReceiverOrder /\ ViewerOrder
<1>1. Inv => InOrder
    <2> SUFFICES ASSUME Inv PROVE InOrder
        OBVIOUS
    <2>1. ASSUME lost = 0, ~overrun PROVE IsPrefix(obtained, requested)
        BY <2>1, BeginsIsPrefix DEF ReceiverOrder, ReceiverTypes
    <2>2. ASSUME lostBack = 0 PROVE IsPrefix(received, answered)
        <3>1. /\ received \in Seq(Messages) /\ recvQueue \in Seq(Messages)
              /\ answered \in Seq(Messages) /\ Begins(Through, answered)
            BY <2>2 DEF ViewerOrder, ViewerTypes
        <3>2. /\ Len(Through) = Len(received) + Len(recvQueue)
              /\ \A i \in 1..Len(received) : Through[i] = received[i]
              /\ Len(received) \in Nat /\ Len(recvQueue) \in Nat
            BY <3>1, ConcatProperties DEF Through
        <3>3. Begins(received, answered)
            BY <3>1, <3>2 DEF Begins
        <3>. QED BY <3>1, <3>3, BeginsIsPrefix
    <2>. QED BY <2>1, <2>2 DEF InOrder
<1>2. Init => ReceiverOrder /\ ViewerOrder
    BY OrderInit
<1>. QED BY <1>1, <1>2, TypesHold, ReceiverOrderStep, ViewerOrderStep, PTL DEF Spec

-----------------------------------------------------------------------------
(* What a lost byte costs.                                                  *)

(* The byte that was sent at a place, counted from the first byte of all.   *)
IsAt(messages, place, byte) ==
    \A a \in 1..Len(messages), b \in 1..FrameSize :
        place = FrameSize * (a - 1) + b => byte = Frame(messages[a])[b]

(* p traces the bytes s that are still to be parsed to the places at which  *)
(* they were sent; p[Len(s) + 1] is the place of the first byte still on    *)
(* the line, after left bytes, before is the number of bytes that were lost *)
(* before the first byte of s.  Each of these costs at most two of the      *)
(* messages before p[1], and got of them have arrived.                      *)
Traced(p, before, messages, s, left, got, losses) ==
    /\ p \in [1..Len(s)+1 -> Nat] /\ p[1] >= 1 /\ p[Len(s) + 1] = left + 1
    /\ \A i, j \in 1..Len(s)+1 : i <= j => p[j] - p[i] >= j - i
    /\ \A i \in 1..Len(s) : IsAt(messages, p[i], s[i])
    /\ before \in Nat /\ before + (left + 1) = losses + p[1] + Len(s)
    /\ p[1] <= FrameSize * (got + 2 * before) + 1

Bytes(messages) == FrameSize * Len(messages)

AllDistinct(messages) == \A m \in Range(messages) : Distinct(m)

(* The bytes that have left the line.                                       *)
Departed == Bytes(requested) - Len(toModule)

OnLine ==
    /\ Departed \in Nat
    /\ \A k \in 1..Len(toModule) : IsAt(requested, Departed + k, toModule[k])

Unparsed == buf \o fifo

CostInv ==
    /\ OnLine
    /\ ~overrun =>
          /\ at \in {"copy", "release"} => Unparsed[1] = START_BYTE
          /\ AllDistinct(requested) =>
                \E p, before : Traced(p, before, requested, Unparsed, Departed,
                                      Len(obtained), lost)

(* A place is in one frame only.                                            *)
LEMMA OnePlace ==
    ASSUME NEW a \in Nat, NEW c \in Nat, NEW b \in 1..FrameSize, NEW e \in 1..FrameSize,
           FrameSize * a + b = FrameSize * c + e
    PROVE  a = c /\ b = e
<1> USE FrameAssumption
<1>1. ASSUME NEW x \in Nat, NEW y \in Nat, NEW g \in 1..FrameSize, NEW h \in 1..FrameSize,
             FrameSize * x + g = FrameSize * y + h, x < y
      PROVE  FALSE
    <2>1. FrameSize * (x + 1) <= FrameSize * y
        <3>1. x + 1 <= y /\ x + 1 \in Nat /\ FrameSize \in Nat
            BY <1>1
        <3>. QED BY <3>1, Times, Zenon
    <2>2. FrameSize * (x + 1) = FrameSize * x + FrameSize
        BY Times
    <2>3. FrameSize * x \in Nat /\ FrameSize * y \in Nat
        BY Times
    <2>. QED BY <1>1, <2>1, <2>2, <2>3
<1>2. ~(a < c) /\ ~(c < a)
    <2>1. ~(a < c)
        BY <1>1, Zenon
    <2>2. FrameSize * c + e = FrameSize * a + b
        OBVIOUS
    <2>3. ~(c < a)
        BY <1>1, <2>2, Zenon
    <2>. QED BY <2>1, <2>3
<1>3. a = c
    BY <1>2
<1>4. FrameSize * c \in Nat
    BY Times
<1>. QED BY <1>3, <1>4

(* A place that departed is still that of the same byte when a message is   *)
(* sent, and the places after all others are those of the new message.      *)
LEMMA PlaceSent ==
    ASSUME NEW messages \in Seq(Messages), NEW m \in Messages, NEW place \in Nat, NEW byte
    PROVE  /\ place <= FrameSize * Len(messages) /\ IsAt(messages, place, byte)
              => IsAt(Append(messages, m), place, byte)
           /\ \A j \in 1..FrameSize :
                 place = FrameSize * Len(messages) + j
                    => IsAt(Append(messages, m), place, Frame(m)[j])
<1> USE FrameAssumption
<1> DEFINE n == Len(messages)
           more == Append(messages, m)
<1>1. /\ n \in Nat /\ Len(more) = n + 1
      /\ \A a \in 1..n : more[a] = messages[a]
      /\ more[n + 1] = m
    BY AppendProperties
<1>2. FrameSize * n \in Nat
    BY <1>1, Times
<1>3. ASSUME place <= FrameSize * n, IsAt(messages, place, byte)
      PROVE  IsAt(more, place, byte)
    <2> SUFFICES ASSUME NEW a \in 1..n+1, NEW b \in 1..FrameSize,
                        place = FrameSize * (a - 1) + b
                 PROVE  byte = Frame(more[a])[b]
        BY <1>1 DEF IsAt
    <2>1. a # n + 1
        <3>1. a = n + 1 => a - 1 = n
            BY <1>1
        <3>. QED BY <1>2, <1>3, <3>1
    <2>2. a \in 1..n
        BY <1>1, <2>1
    <2>. QED BY <1>1, <1>3, <2>2 DEF IsAt
<1>4. ASSUME NEW j \in 1..FrameSize, place = FrameSize * n + j
      PROVE  IsAt(more, place, Frame(m)[j])
    <2> SUFFICES ASSUME NEW a \in 1..n+1, NEW b \in 1..FrameSize,
                        place = FrameSize * (a - 1) + b
                 PROVE  Frame(m)[j] = Frame(more[a])[b]
        BY <1>1 DEF IsAt
    <2>1. a - 1 \in Nat /\ FrameSize * (a - 1) + b = FrameSize * n + j
        BY <1>1, <1>4
    <2>2. a - 1 = n /\ b = j
        <3> HIDE DEF n
        <3>. QED BY <1>1, <2>1, OnePlace
    <2>3. a = n + 1
        BY <1>1, <2>2
    <2>. QED BY <1>1, <2>2, <2>3
<1>. QED BY <1>3, <1>4

(* A message is sent.                                                       *)
LEMMA TraceSent ==
    ASSUME NEW p, NEW before, NEW messages \in Seq(Messages), NEW s \in Seq(Byte),
           NEW left \in Nat, NEW got \in Nat, NEW losses \in Nat,
           Traced(p, before, messages, s, left, got, losses),
           left <= Bytes(messages), NEW m \in Messages
    PROVE  Traced(p, before, Append(messages, m), s, left, got, losses)
<1>1. ASSUME NEW i \in 1..Len(s) PROVE IsAt(Append(messages, m), p[i], s[i])
    <2>1. i \in 1..Len(s)+1 /\ Len(s) + 1 \in 1..Len(s)+1 /\ i <= Len(s) + 1 /\ Len(s) \in Nat
        OBVIOUS
    <2>2. /\ p[i] \in Nat /\ p[Len(s) + 1] = left + 1
          /\ p[Len(s) + 1] - p[i] >= (Len(s) + 1) - i
          /\ IsAt(messages, p[i], s[i])
        BY <2>1 DEF Traced
    <2>3. p[i] <= left
        BY <2>2
    <2>4. p[i] <= FrameSize * Len(messages)
        <3>1. Len(messages) \in Nat
            OBVIOUS
        <3>2. FrameSize * Len(messages) \in Nat
            BY <3>1, Times, FrameAssumption
        <3>. QED BY <2>2, <2>3, <3>2 DEF Bytes
    <2>. QED BY <2>2, <2>4, PlaceSent
<1>. QED BY <1>1 DEF Traced

(* A byte arrives.                                                          *)
LEMMA TraceArrived ==
    ASSUME NEW p, NEW before, NEW messages \in Seq(Messages), NEW s \in Seq(Byte),
           NEW left \in Nat, NEW got \in Nat, NEW losses \in Nat,
           Traced(p, before, messages, s, left, got, losses),
           NEW byte \in Byte, IsAt(messages, left + 1, byte)
    PROVE  \E q : Traced(q, before, messages, Append(s, byte), left + 1, got, losses)
<1> DEFINE n == Len(s)
           t == Append(s, byte)
           q == [i \in 1..n+2 |-> IF i = n + 2 THEN left + 2 ELSE p[i]]
<1>1. /\ n \in Nat /\ Len(t) = n + 1
      /\ \A i \in 1..n : t[i] = s[i]
      /\ t[n + 1] = byte
    BY AppendProperties
<1>2. p \in [1..n+1 -> Nat] /\ p[1] >= 1 /\ p[n + 1] = left + 1
    BY DEF Traced
<1>3. q \in [1..n+2 -> Nat] /\ q[n + 2] = left + 2 /\ \A i \in 1..n+1 : q[i] = p[i]
    BY <1>1, <1>2
<1> HIDE DEF q
<1>4. ASSUME NEW i \in 1..n+2, NEW j \in 1..n+2, i <= j PROVE q[j] - q[i] >= j - i
    <2>1. CASE j \in 1..n+1
        <3>1. i \in 1..n+1
            BY <1>1, <1>4, <2>1
        <3>. QED BY <1>3, <1>4, <2>1, <3>1 DEF Traced
    <2>2. CASE j = n + 2 /\ i = n + 2
        BY <1>1, <1>3, <2>2
    <2>3. CASE j = n + 2 /\ i # n + 2
        <3>1. i \in 1..n+1 /\ n + 1 \in 1..n+1 /\ i <= n + 1
            BY <1>1, <2>3
        <3>2. p[n + 1] - p[i] >= (n + 1) - i /\ p[i] \in Nat
            BY <1>2, <3>1 DEF Traced
        <3>. QED BY <1>1, <1>2, <1>3, <2>3, <3>1, <3>2
    <2>. QED BY <1>1, <2>1, <2>2, <2>3
<1>5. ASSUME NEW i \in 1..n+1 PROVE IsAt(messages, q[i], t[i])
    <2>1. CASE i = n + 1
        <3>1. q[i] = left + 1 /\ t[i] = byte
            BY <1>1, <1>2, <1>3, <2>1
        <3>. QED BY <3>1
    <2>2. CASE i # n + 1
        <3>1. i \in 1..n
            BY <1>1, <2>2
        <3>2. q[i] = p[i] /\ t[i] = s[i]
            BY <1>1, <1>3, <3>1
        <3>. QED BY <3>1, <3>2 DEF Traced
    <2>. QED BY <2>1, <2>2
<1>6. q[1] = p[1]
    BY <1>1, <1>3
<1>7. /\ before \in Nat /\ before + (left + 1) = losses + p[1] + n
      /\ p[1] <= FrameSize * (got + 2 * before) + 1
    BY DEF Traced
<1>8. before + ((left + 1) + 1) = losses + q[1] + Len(t)
    <2>1. p[1] \in Nat
        BY <1>1, <1>2
    <2>. QED BY <1>1, <1>6, <1>7, <2>1
<1>9. Len(t) + 1 = n + 2 /\ q[Len(t) + 1] = (left + 1) + 1
    BY <1>1, <1>3
<1> HIDE DEF n, t
<1>10. Traced(q, before, messages, t, left + 1, got, losses)
    BY <1>1, <1>2, <1>3, <1>4, <1>5, <1>6, <1>7, <1>8, <1>9 DEF Traced
<1>. QED BY <1>10 DEF t

(* Twice the bytes lost, in frames, pay for the bytes lost and, when there  *)
(* are any, for a frame too.                                                *)
LEMMA Paid ==
    \A f, c, d \in Nat :
        f > 0 => /\ f * c \in Nat /\ f * (c + 2 * d) \in Nat
                 /\ f * (c + 2 * d) >= f * c + d
                 /\ d > 0 => f * (c + 2 * d) >= f * c + f + d
<1>1. \A f, c, e \in Nat : f * (c + e) = f * c + f * e /\ f * c \in Nat
    OBVIOUS
<1>2. \A f, d \in Nat : f * (2 * d) = f * d + f * d /\ f * d \in Nat
    OBVIOUS
<1>3. \A f, d \in Nat : f > 0 => d <= f * d
    OBVIOUS
<1>4. \A f, d \in Nat : d > 0 => f <= f * d
    OBVIOUS
<1> SUFFICES ASSUME NEW f \in Nat, NEW c \in Nat, NEW d \in Nat, f > 0
             PROVE  /\ f * c \in Nat /\ f * (c + 2 * d) \in Nat
                    /\ f * (c + 2 * d) >= f * c + d
                    /\ d > 0 => f * (c + 2 * d) >= f * c + f + d
    OBVIOUS
<1>5. 2 * d \in Nat
    OBVIOUS
<1>6. f * (c + 2 * d) = f * c + f * (2 * d) /\ f * c \in Nat
    BY <1>1, <1>5, Zenon
<1>7. f * (2 * d) = f * d + f * d /\ f * d \in Nat /\ d <= f * d /\ (d > 0 => f <= f * d)
    BY <1>2, <1>3, <1>4
<1>. QED BY <1>6, <1>7

(* ... with the frame.                                                      *)
LEMMA PaidFrame ==
    \A f, c, d \in Nat : f > 0 /\ d > 0 => f * (c + 2 * d) >= f * c + f + d
BY Paid

(* A byte is lost: before the bytes to be parsed when there are none,       *)
(* behind them otherwise.                                                   *)
LEMMA TraceLost ==
    ASSUME NEW p, NEW before, NEW messages \in Seq(Messages), NEW s \in Seq(Byte),
           NEW left \in Nat, NEW got \in Nat, NEW losses \in Nat,
           Traced(p, before, messages, s, left, got, losses)
    PROVE  \E q, b : Traced(q, b, messages, s, left + 1, got, losses + 1)
<1> USE FrameAssumption
<1>1. PICK n \in Nat : n = Len(s)
    OBVIOUS
<1>2. /\ p \in [1..n+1 -> Nat] /\ p[1] >= 1 /\ p[n + 1] = left + 1
    BY <1>1 DEF Traced
<1>2a. \A i, j \in 1..n+1 : i <= j => p[j] - p[i] >= j - i
    BY <1>1 DEF Traced
<1>2b. \A i \in 1..n : IsAt(messages, p[i], s[i])
    BY <1>1 DEF Traced
<1>2c. /\ before \in Nat /\ before + (left + 1) = losses + p[1] + n
    BY <1>1 DEF Traced
<1>2d. p[1] <= FrameSize * (got + 2 * before) + 1
    BY <1>1 DEF Traced
<1>3. PICK q \in [1..n+1 -> Nat] : q[n + 1] = left + 2 /\ \A i \in 1..n : q[i] = p[i]
    <2> DEFINE f == [i \in 1..n+1 |-> IF i = n + 1 THEN left + 2 ELSE p[i]]
    <2>1. n + 1 \in 1..n+1 /\ left + 2 \in Nat
        OBVIOUS
    <2>2. \A i \in 1..n : i \in 1..n+1 /\ i # n + 1
        OBVIOUS
    <2>3. f \in [1..n+1 -> Nat]
        BY <1>2, <2>1
    <2>4. f[n + 1] = left + 2
        BY <2>1
    <2>5. \A i \in 1..n : f[i] = p[i]
        BY <2>2
    <2> HIDE DEF f
    <2>. QED BY <2>3, <2>4, <2>5
<1>4. ASSUME NEW i \in 1..n+1, NEW j \in 1..n+1, i <= j PROVE q[j] - q[i] >= j - i
    <2>1. p[j] - p[i] >= j - i /\ p[i] \in Nat /\ p[j] \in Nat
        BY <1>2, <1>2a, <1>4
    <2>2. CASE j = n + 1 /\ i = n + 1
        BY <1>3, <2>2
    <2>3. CASE j = n + 1 /\ i # n + 1
        <3>1. i \in 1..n
            BY <2>3
        <3>. QED BY <1>2, <1>3, <2>1, <2>3, <3>1
    <2>4. CASE j # n + 1
        <3>1. i \in 1..n /\ j \in 1..n
            BY <1>4, <2>4
        <3>. QED BY <1>3, <2>1, <3>1
    <2>. QED BY <2>2, <2>3, <2>4
<1>5. \A i \in 1..n : IsAt(messages, q[i], s[i])
    BY <1>2b, <1>3
<1>6. PICK cost \in Nat : cost = got + 2 * before
    BY <1>2c
<1>7. PICK past \in Nat : past = FrameSize * cost
    BY <1>6, Paid
<1>8. \E b \in Nat : /\ b + ((left + 1) + 1) = (losses + 1) + q[1] + n
                     /\ q[1] >= 1
                     /\ q[1] <= FrameSize * (got + 2 * b) + 1
    <2>1. CASE n = 0
        <3>1. q[1] = p[1] + 1 /\ p[1] \in Nat /\ p[1] = left + 1
            BY <1>2, <1>3, <2>1
        <3>2. FrameSize * (cost + 2 * 1) >= past + 1 /\ FrameSize * (cost + 2 * 1) \in Nat
            BY <1>7, Paid
        <3>3. PICK now \in Nat : now = FrameSize * (cost + 2 * 1)
            BY <3>2
        <3>4. p[1] <= past + 1 /\ now >= past + 1
            BY <1>2d, <1>6, <1>7, <3>2, <3>3
        <3>5. q[1] <= now + 1
            BY <1>7, <3>1, <3>3, <3>4
        <3>6. got + 2 * (before + 1) = cost + 2 * 1
            BY <1>2c, <1>6
        <3>7. q[1] <= FrameSize * (got + 2 * (before + 1)) + 1
            BY <3>3, <3>5, <3>6
        <3>8. /\ before + 1 \in Nat /\ q[1] >= 1
              /\ (before + 1) + ((left + 1) + 1) = (losses + 1) + q[1] + n
            BY <1>2c, <2>1, <3>1
        <3>. QED BY <3>7, <3>8
    <2>2. CASE n # 0
        <3>1. q[1] = p[1] /\ p[1] \in Nat
            BY <1>2, <1>3, <2>2
        <3>2. before + ((left + 1) + 1) = (losses + 1) + q[1] + n
            <4>1. PICK first \in Nat : first = p[1]
                BY <3>1
            <4>2. before + (left + 1) = losses + first + n /\ before \in Nat
                BY <1>2c, <4>1
            <4>3. before + ((left + 1) + 1) = (losses + 1) + first + n
                BY <4>2
            <4>. QED BY <3>1, <4>1, <4>3
        <3>. QED BY <1>2, <1>2c, <1>2d, <3>1, <3>2
    <2>. QED BY <2>1, <2>2
<1>9. PICK b \in Nat : /\ b + ((left + 1) + 1) = (losses + 1) + q[1] + n
                      /\ q[1] >= 1
                      /\ q[1] <= FrameSize * (got + 2 * b) + 1
    BY <1>8
<1>10. q[n + 1] = (left + 1) + 1
    BY <1>3
<1>11. Traced(q, b, messages, s, left + 1, got, losses + 1)
    BY <1>1, <1>3, <1>4, <1>5, <1>9, <1>10 DEF Traced
<1>. QED BY <1>11

(* Every place that was sent from is in some frame.                         *)
LEMMA PlaceExists ==
    ASSUME NEW count \in Nat, NEW place \in Nat, place >= 1, place <= FrameSize * count
    PROVE  \E a \in 1..count, b \in 1..FrameSize : place = FrameSize * (a - 1) + b
<1> USE FrameAssumption
<1> DEFINE x == place - 1
           d == x \div FrameSize
           r == x - FrameSize * d
<1>1. x \in Nat /\ FrameSize \in Nat \ {0}
    OBVIOUS
<1>2. d \in Nat
    BY <1>1, QuotientIs
<1>3. FrameSize * d <= x /\ x < FrameSize * d + FrameSize
    <2>1. \A y, f \in Nat : f > 0 => (y \div f) * f <= y /\ y < (y \div f + 1) * f
        OBVIOUS
    <2>2. d * FrameSize <= x /\ x < (d + 1) * FrameSize
        BY <1>1, <2>1
    <2> HIDE DEF d
    <2>3. \A y, f \in Nat : y * f = f * y /\ (y + 1) * f = f * y + f
        OBVIOUS
    <2>. QED BY <1>1, <1>2, <2>2, <2>3
<1> HIDE DEF d
<1>4. FrameSize * d \in Nat
    BY <1>2, Times
<1>5. d + 1 \in 1..count
    <2>1. ~(count <= d)
        <3>1. count <= d => FrameSize * count <= FrameSize * d
            BY <1>2, Times
        <3>2. FrameSize * count \in Nat
            BY Times
        <3>. QED BY <1>3, <1>4, <3>1, <3>2
    <2>. QED BY <1>2, <2>1
<1>6. r + 1 \in 1..FrameSize /\ place = FrameSize * ((d + 1) - 1) + (r + 1)
    <2>1. (d + 1) - 1 = d
        BY <1>2
    <2>. QED BY <1>1, <1>3, <1>4, <2>1
<1> HIDE DEF r
<1>. QED BY <1>5, <1>6

(* A byte that is no start byte is passed over.                             *)
LEMMA TraceSkipped ==
    ASSUME NEW p, NEW before, NEW messages \in Seq(Messages), NEW s \in Seq(Byte),
           NEW left \in Nat, NEW got \in Nat, NEW losses \in Nat,
           Traced(p, before, messages, s, left, got, losses),
           left <= Bytes(messages),
           s # <<>>, s[1] # START_BYTE
    PROVE  \E q, b : Traced(q, b, messages, Tail(s), left, got, losses)
<1> USE FrameAssumption
<1>1. PICK n \in Nat : n = Len(s) /\ n >= 1
    OBVIOUS
<1>2. /\ Tail(s) \in Seq(Byte) /\ Len(Tail(s)) = n - 1
      /\ \A i \in 1..n-1 : Tail(s)[i] = s[i + 1]
    BY <1>1
<1>3. /\ p \in [1..n+1 -> Nat] /\ p[1] >= 1 /\ p[n + 1] = left + 1
    BY <1>1 DEF Traced
<1>3a. \A i, j \in 1..n+1 : i <= j => p[j] - p[i] >= j - i
    BY <1>1 DEF Traced
<1>3b. \A i \in 1..n : IsAt(messages, p[i], s[i])
    BY <1>1 DEF Traced
<1>3c. /\ before \in Nat /\ before + (left + 1) = losses + p[1] + n
    BY <1>1 DEF Traced
<1>3d. p[1] <= FrameSize * (got + 2 * before) + 1
    BY <1>1 DEF Traced
<1>4. /\ 1 \in 1..n+1 /\ 2 \in 1..n+1 /\ n + 1 \in 1..n+1 /\ 1 \in 1..n
      /\ p[1] \in Nat /\ p[2] \in Nat
    <2>1. 1 \in 1..n+1 /\ 2 \in 1..n+1 /\ n + 1 \in 1..n+1 /\ 1 \in 1..n
        BY <1>1
    <2>. QED BY <1>3, <2>1
<1>5. PICK d \in Nat : p[2] = p[1] + 1 + d
    <2>1. p[2] - p[1] >= 2 - 1
        BY <1>1, <1>3a, <1>4
    <2>2. p[2] - p[1] - 1 \in Nat /\ p[2] = p[1] + 1 + (p[2] - p[1] - 1)
        BY <1>4, <2>1
    <2>. QED BY <2>2
<1>6. p[1] <= left
    <2>1. p[n + 1] - p[1] >= (n + 1) - 1
        BY <1>1, <1>3a, <1>4
    <2>. QED BY <1>1, <1>3, <1>4, <2>1
<1>7. PICK cost \in Nat : cost = got + 2 * before
    BY <1>3c
<1>8. PICK count \in Nat : count = Len(messages)
    OBVIOUS
<1>9. FrameSize * cost \in Nat /\ FrameSize * count \in Nat
    BY Times
<1>10. p[1] # FrameSize * cost + 1
    <2> SUFFICES ASSUME p[1] = FrameSize * cost + 1 PROVE FALSE
        OBVIOUS
    <2>1. ~(count <= cost)
        <3>1. count <= cost => FrameSize * count <= FrameSize * cost
            BY Times
        <3>. QED BY <1>4, <1>6, <1>8, <1>9, <3>1 DEF Bytes
    <2>2. cost + 1 \in 1..count /\ (cost + 1) - 1 = cost /\ 1 \in 1..FrameSize
        BY <2>1
    <2>3. IsAt(messages, p[1], s[1])
        BY <1>3b, <1>4
    <2>4. s[1] = Frame(messages[cost + 1])[1]
        BY <1>8, <2>2, <2>3 DEF IsAt
    <2>5. messages[cost + 1] \in Messages
        BY <1>8, <2>2
    <2>. QED BY <2>4, <2>5, FrameIs
<1>11. PICK past \in Nat : past = FrameSize * cost
    BY <1>9
<1>12. PICK now \in Nat : now = FrameSize * (cost + 2 * d) /\ now >= past + d
    BY <1>11, Paid
<1>13. p[2] <= now + 1
    <2>1. p[1] <= past
        BY <1>3d, <1>4, <1>7, <1>10, <1>11
    <2>. QED BY <1>4, <1>5, <1>12, <2>1
<1>14. PICK b \in Nat : b = before + d
    BY <1>3c
<1>15. cost + 2 * d = got + 2 * b /\ b + (left + 1) = losses + p[2] + (n - 1)
    <2>1. PICK first \in Nat, second \in Nat : first = p[1] /\ second = p[2]
        BY <1>4
    <2>2. before + (left + 1) = losses + first + n /\ before \in Nat /\ second = first + 1 + d
        BY <1>3c, <1>5, <2>1
    <2>3. b + (left + 1) = losses + second + (n - 1)
        BY <1>14, <2>2
    <2>4. cost + 2 * d = got + 2 * b
        BY <1>7, <1>14, <2>2
    <2>. QED BY <2>1, <2>3, <2>4
<1>16. PICK q \in [1..n -> Nat] : \A i \in 1..n : q[i] = p[i + 1] /\ i + 1 \in 1..n+1
    <2>1. \A i \in 1..n : i + 1 \in 1..n+1
        OBVIOUS
    <2>2. [i \in 1..n |-> p[i + 1]] \in [1..n -> Nat]
        BY <1>3, <2>1
    <2>. QED BY <2>1, <2>2
<1>17. q[1] = p[2] /\ q[n] = left + 1
    BY <1>1, <1>3, <1>16
<1>18. ASSUME NEW i \in 1..n, NEW j \in 1..n, i <= j PROVE q[j] - q[i] >= j - i
    <2>1. /\ q[j] = p[j + 1] /\ q[i] = p[i + 1] /\ i + 1 <= j + 1
          /\ i + 1 \in 1..n+1 /\ j + 1 \in 1..n+1 /\ (j + 1) - (i + 1) = j - i
        BY <1>16, <1>18
    <2>. QED BY <1>3a, <2>1
<1>19. ASSUME NEW i \in 1..n-1 PROVE IsAt(messages, q[i], Tail(s)[i])
    <2>1. i \in 1..n /\ i + 1 \in 1..n
        OBVIOUS
    <2>. QED BY <1>2, <1>3b, <1>16, <2>1
<1>20. Len(Tail(s)) + 1 = n /\ q[1] >= 1
    BY <1>1, <1>2, <1>4, <1>5, <1>17
<1>21. q[1] <= FrameSize * (got + 2 * b) + 1
    BY <1>12, <1>13, <1>15, <1>17
<1>22. b + (left + 1) = losses + q[1] + Len(Tail(s))
    BY <1>2, <1>15, <1>17
<1>23. Traced(q, b, messages, Tail(s), left, got, losses)
    BY <1>2, <1>16, <1>17, <1>18, <1>19, <1>20, <1>21, <1>22 DEF Traced
<1>. QED BY <1>23

(* Bytes that follow each other, the first of them a start byte, are a      *)
(* frame.                                                                   *)
LEMMA Unbroken ==
    ASSUME NEW messages \in Seq(Messages), AllDistinct(messages),
           NEW u \in Seq(Byte), Len(u) = FrameSize, u[1] = START_BYTE,
           NEW place \in Nat, place >= 1, place <= Bytes(messages),
           \A i \in 1..FrameSize : IsAt(messages, place + (i - 1), u[i])
    PROVE  ChecksumMatches(u)
<1> USE FrameAssumption
<1>1. PICK count \in Nat : count = Len(messages)
    OBVIOUS
<1>2. PICK a \in 1..count, c \in 1..FrameSize : place = FrameSize * (a - 1) + c
    BY <1>1, PlaceExists DEF Bytes
<1>3. messages[a] \in Messages /\ a \in 1..Len(messages)
    BY <1>1
<1>4. PICK f \in Seq(Byte) : f = Frame(messages[a]) /\ Len(f) = FrameSize /\ ValidFrame(f)
    BY <1>3, FrameIs
<1>5. PICK base \in Nat : base = FrameSize * (a - 1)
    <2>1. a - 1 \in Nat
        OBVIOUS
    <2>. QED BY <2>1, Times
<1>6. f[c] = START_BYTE
    <2>1. IsAt(messages, place + (1 - 1), u[1]) /\ place + (1 - 1) = place
        OBVIOUS
    <2>. QED BY <1>2, <1>3, <1>4, <2>1 DEF IsAt
<1>7. c = 1
    <2> SUFFICES ASSUME c # 1 PROVE FALSE
        OBVIOUS
    <2>1. messages[a] \in Range(messages)
        BY <1>3 DEF Range
    <2>2. START_BYTE \notin Range(Tail(f))
        BY <1>4, <2>1 DEF AllDistinct, Distinct
    <2>3. c - 1 \in 1..FrameSize-1
        OBVIOUS
    <2>4. /\ DOMAIN Tail(f) = 1..FrameSize-1 /\ (c - 1) + 1 = c
          /\ Tail(f)[c - 1] = f[(c - 1) + 1]
        BY <1>4, <2>3
    <2>. QED BY <1>6, <2>2, <2>3, <2>4 DEF Range
<1>8. ASSUME NEW i \in 1..FrameSize PROVE u[i] = f[i]
    <2>1. place + (i - 1) = base + i
        BY <1>2, <1>5, <1>7
    <2>2. IsAt(messages, base + i, u[i])
        BY <2>1
    <2>. QED BY <1>3, <1>4, <1>5, <2>2 DEF IsAt
<1>9. u = f
    BY <1>4, <1>8, SeqEqual
<1>. QED BY <1>4, <1>9 DEF ValidFrame

(* A frame's worth of bytes u is about to be copied from in front of t.      *)
Copies(u, t, p, before, messages, left, got, losses, more) ==
    /\ u \in Seq(Byte) /\ t \in Seq(Byte) /\ Len(u) = FrameSize /\ u[1] = START_BYTE
    /\ messages \in Seq(Messages) /\ AllDistinct(messages)
    /\ left \in Nat /\ left <= Bytes(messages) /\ got \in Nat /\ losses \in Nat
    /\ Traced(p, before, messages, u \o t, left, got, losses)
    /\ more \in {got, got + 1} /\ (ChecksumMatches(u) => more = got + 1)

(* A frame's worth of bytes that begin with a start byte is copied: if no   *)
(* byte was lost between them they are a frame and one message more         *)
(* arrives, else the bytes lost pay for what is given up.                   *)
LEMMA TraceCopied ==
    ASSUME NEW u, NEW t, NEW p, NEW before, NEW messages, NEW left, NEW got, NEW losses,
           NEW more, Copies(u, t, p, before, messages, left, got, losses, more)
    PROVE  \E q, b : Traced(q, b, messages, t, left, more, losses)
<1>0. /\ messages \in Seq(Messages) /\ u \in Seq(Byte) /\ t \in Seq(Byte)
      /\ left \in Nat /\ got \in Nat /\ losses \in Nat /\ more \in Nat
      /\ Len(u) = FrameSize
    BY DEF Copies
<1>0a. more \in {got, got + 1} /\ (ChecksumMatches(u) => more = got + 1)
    BY DEF Copies
<1>0b. left <= Bytes(messages) /\ AllDistinct(messages) /\ u[1] = START_BYTE
    BY DEF Copies
<1>0c. PICK s : s = u \o t
    OBVIOUS
<1>0d. Traced(p, before, messages, s, left, got, losses)
    BY <1>0c DEF Copies
<1> USE <1>0
<1> USE FrameAssumption
<1>1. PICK n \in Nat : n = Len(t)
    OBVIOUS
<1>2. /\ s \in Seq(Byte) /\ Len(s) = FrameSize + n
      /\ \A i \in 1..FrameSize : s[i] = u[i]
      /\ \A i \in 1..n : s[FrameSize + i] = t[i]
    BY <1>0c, <1>1, Joined
<1>3. PICK m \in Nat : m = FrameSize + n + 1
    OBVIOUS
<1>4. /\ p \in [1..m -> Nat] /\ p[1] >= 1 /\ p[m] = left + 1
    <2>1. Len(s) + 1 = m
        BY <1>2, <1>3
    <2>. QED BY <1>0d, <1>2, <2>1 DEF Traced
<1>4a. \A i, j \in 1..m : i <= j => p[j] - p[i] >= j - i
    <2>1. Len(s) + 1 = m
        BY <1>2, <1>3
    <2>. QED BY <1>0d, <1>2, <2>1 DEF Traced
<1>4b. \A i \in 1..FrameSize+n : IsAt(messages, p[i], s[i])
    <2>1. Len(s) + 1 = m
        BY <1>2, <1>3
    <2>. QED BY <1>0d, <1>2, <2>1 DEF Traced
<1>4c. /\ before \in Nat /\ before + (left + 1) = losses + p[1] + (FrameSize + n)
    <2>1. Len(s) + 1 = m
        BY <1>2, <1>3
    <2>. QED BY <1>0d, <1>2, <2>1 DEF Traced
<1>4d. p[1] <= FrameSize * (got + 2 * before) + 1
    <2>1. Len(s) + 1 = m
        BY <1>2, <1>3
    <2>. QED BY <1>0d, <1>2, <2>1 DEF Traced
<1>5. 1 \in 1..m /\ FrameSize + 1 \in 1..m /\ m \in 1..m /\ p[1] \in Nat
    BY <1>3, <1>4
<1>6. PICK front \in Nat : front = p[FrameSize + 1]
    BY <1>4, <1>5
<1>7. PICK d \in Nat : front = p[1] + FrameSize + d
    <2>1. PICK first \in Nat : first = p[1]
        BY <1>5
    <2>2. front - first >= (FrameSize + 1) - 1
        BY <1>4a, <1>5, <1>6, <2>1
    <2>3. front - first - FrameSize \in Nat /\ front = first + FrameSize + (front - first - FrameSize)
        BY <2>2
    <2>. QED BY <2>1, <2>3
<1>8. PICK cost \in Nat : cost = got + 2 * before
    BY <1>4c
<1>9. PICK past \in Nat : past = FrameSize * cost
    BY Times
<1>10. ASSUME d = 0 PROVE ChecksumMatches(u)
    <2>1. p[1] <= left
        <3>1. p[m] - p[1] >= m - 1
            BY <1>3, <1>4a, <1>5
        <3>. QED BY <1>3, <1>4, <1>5, <3>1
    <2>2. Bytes(messages) \in Nat
        <3>1. Len(messages) \in Nat
            OBVIOUS
        <3>. QED BY <3>1, Times DEF Bytes
    <2>3. p[1] <= Bytes(messages)
        BY <1>0b, <1>5, <2>1, <2>2
    <2>4. ASSUME NEW i \in 1..FrameSize PROVE IsAt(messages, p[1] + (i - 1), u[i])
        <3>1. i \in 1..m /\ i <= FrameSize + 1 /\ 1 <= i /\ i \in 1..FrameSize+n
            BY <1>3
        <3>2. p[i] - p[1] >= i - 1 /\ front - p[i] >= (FrameSize + 1) - i /\ p[i] \in Nat
            BY <1>4, <1>4a, <1>5, <1>6, <3>1
        <3>3. p[i] = p[1] + (i - 1)
            <4>1. PICK first \in Nat, x \in Nat : first = p[1] /\ x = p[i]
                BY <1>5, <3>2
            <4>2. /\ x - first >= i - 1 /\ front - x >= (FrameSize + 1) - i
                  /\ front = first + FrameSize + d
                BY <1>7, <3>2, <4>1
            <4>3. x = first + (i - 1)
                BY <1>10, <4>2
            <4>. QED BY <4>1, <4>3
        <3>. QED BY <1>2, <1>4b, <3>1, <3>3
    <2>. QED BY <1>0b, <1>4, <1>5, <2>3, <2>4, Unbroken
<1>11. PICK b \in Nat : b = before + d
    BY <1>4c
<1>12. PICK paid \in Nat : paid = more + 2 * b
    OBVIOUS
<1>13. PICK now \in Nat : now = FrameSize * paid
    BY Times
<1>14. front <= now + 1
    <2>1. p[1] <= past + 1
        BY <1>4d, <1>8, <1>9
    <2>2. CASE d = 0
        <3>1. paid = cost + 1
            BY <1>0a, <1>4c, <1>8, <1>10, <1>11, <1>12, <2>2
        <3>2. now = past + FrameSize
            BY <1>9, <1>13, <3>1, Times
        <3>3. PICK first \in Nat : first = p[1]
            BY <1>5
        <3>4. front = first + FrameSize /\ first <= past + 1
            BY <1>7, <2>1, <2>2, <3>3
        <3>. QED BY <3>2, <3>4
    <2>3. CASE d > 0
        <3>1. PICK least \in Nat : least = cost + 2 * d
            OBVIOUS
        <3>2. least <= paid
            BY <1>0a, <1>4c, <1>8, <1>11, <1>12, <3>1
        <3>3. PICK low \in Nat : low = FrameSize * least
            BY Times
        <3>4. low <= now
            BY <1>13, <3>2, <3>3, Times
        <3>5. low >= past + FrameSize + d
            <4>1. FrameSize \in Nat /\ FrameSize > 0
                OBVIOUS
            <4>2. FrameSize * (cost + 2 * d) >= FrameSize * cost + FrameSize + d
                BY <2>3, <4>1, PaidFrame, Zenon
            <4>. QED BY <1>9, <3>1, <3>3, <4>2
        <3>6. PICK first \in Nat : first = p[1]
            BY <1>5
        <3>7. front = first + FrameSize + d /\ first <= past + 1
            BY <1>7, <2>1, <3>6
        <3>. QED BY <3>4, <3>5, <3>7
    <2>. QED BY <2>2, <2>3
<1>15. b + (left + 1) = losses + front + n
    <2>1. PICK first \in Nat : first = p[1]
        BY <1>5
    <2>2. /\ before + (left + 1) = losses + first + (FrameSize + n) /\ before \in Nat
          /\ front = first + FrameSize + d
        BY <1>4c, <1>7, <2>1
    <2>. QED BY <1>11, <2>2
<1>16. PICK q \in [1..n+1 -> Nat] : \A i \in 1..n+1 : q[i] = p[FrameSize + i]
    <2>1. \A i \in 1..n+1 : FrameSize + i \in 1..m
        BY <1>3
    <2>2. [i \in 1..n+1 |-> p[FrameSize + i]] \in [1..n+1 -> Nat]
        BY <1>4, <2>1
    <2>. QED BY <2>2
<1>17. q[1] = front /\ q[n + 1] = left + 1
    <2>1. 1 \in 1..n+1 /\ n + 1 \in 1..n+1 /\ FrameSize + (n + 1) = m
        BY <1>3
    <2>2. q[1] = p[FrameSize + 1] /\ q[n + 1] = p[FrameSize + (n + 1)]
        BY <1>16, <2>1
    <2>. QED BY <1>4, <1>6, <2>1, <2>2
<1>18. ASSUME NEW i \in 1..n+1, NEW j \in 1..n+1, i <= j PROVE q[j] - q[i] >= j - i
    <2>1. /\ FrameSize + i <= FrameSize + j
          /\ FrameSize + i \in 1..m /\ FrameSize + j \in 1..m
          /\ (FrameSize + j) - (FrameSize + i) = j - i
        BY <1>3, <1>18
    <2>2. p[FrameSize + j] - p[FrameSize + i] >= (FrameSize + j) - (FrameSize + i)
        BY <1>4a, <2>1
    <2>. QED BY <1>16, <2>1, <2>2
<1>19. ASSUME NEW i \in 1..n PROVE IsAt(messages, q[i], t[i])
    <2>1. i \in 1..n+1 /\ FrameSize + i \in 1..FrameSize+n
        OBVIOUS
    <2>. QED BY <1>2, <1>4b, <1>16, <2>1
<1>20. q[1] >= 1
    BY <1>4, <1>5, <1>7, <1>17
<1>21. q[1] <= FrameSize * (more + 2 * b) + 1
    BY <1>12, <1>13, <1>14, <1>17
<1>22. Traced(q, b, messages, t, left, more, losses)
    BY <1>1, <1>15, <1>16, <1>17, <1>18, <1>19, <1>20, <1>21 DEF Traced
<1>. QED BY <1>22

(* When everything has arrived and less than a frame is left, at most two   *)
(* messages are missing for every byte lost.                                *)
LEMMA TraceEnds ==
    ASSUME NEW p, NEW before, NEW messages \in Seq(Messages), NEW s \in Seq(Byte),
           NEW left, left = Bytes(messages),
           NEW got \in Nat, NEW losses \in Nat,
           Traced(p, before, messages, s, left, got, losses),
           Len(s) < FrameSize
    PROVE  Len(messages) - got <= 2 * losses
<1> USE FrameAssumption
<1>1. PICK n \in Nat : n = Len(s)
    OBVIOUS
<1>2. PICK count \in Nat : count = Len(messages)
    OBVIOUS
<1>3. left \in Nat /\ left = FrameSize * count
    BY <1>2, Times DEF Bytes
<1>4. /\ p \in [1..n+1 -> Nat] /\ p[1] >= 1 /\ p[n + 1] = left + 1
    BY <1>1 DEF Traced
<1>4a. \A i, j \in 1..n+1 : i <= j => p[j] - p[i] >= j - i
    BY <1>1 DEF Traced
<1>4c. /\ before \in Nat /\ before + (left + 1) = losses + p[1] + n
    BY <1>1 DEF Traced
<1>4d. p[1] <= FrameSize * (got + 2 * before) + 1
    BY <1>1 DEF Traced
<1>5. PICK front \in Nat : front = p[1]
    BY <1>4
<1>6. left + 1 - front >= n
    <2>1. 1 \in 1..n+1 /\ n + 1 \in 1..n+1 /\ 1 <= n + 1
        OBVIOUS
    <2>2. p[n + 1] - p[1] >= (n + 1) - 1
        BY <1>4a, <2>1
    <2>. QED BY <1>3, <1>4, <1>5, <2>2
<1>7. PICK inside \in Nat : losses = before + inside
    <2>1. losses - before \in Nat /\ losses = before + (losses - before)
        BY <1>3, <1>4c, <1>5, <1>6, SMTT(20)
    <2>. QED BY <2>1
<1>8. PICK cost \in Nat : cost = got + 2 * before
    BY <1>4c
<1>9. PICK most \in Nat : most = cost + 2 * inside
    OBVIOUS
<1>10. PICK past \in Nat : past = FrameSize * cost
    BY Times
<1>11. PICK top \in Nat : top = FrameSize * most /\ top >= past + inside
    BY <1>9, <1>10, Paid
<1>12. left < top + FrameSize
    <2>1. front <= past + 1 /\ n < FrameSize /\ front >= 1
        BY <1>1, <1>4, <1>4d, <1>5, <1>8, <1>10
    <2>2. before + (left + 1) = (before + inside) + front + n
        BY <1>4c, <1>5, <1>7
    <2>. QED BY <1>3, <1>4c, <1>11, <2>1, <2>2
<1>13. ~(most + 1 <= count)
    <2>1. most + 1 \in Nat /\ (most + 1 <= count => FrameSize * (most + 1) <= FrameSize * count)
        BY Times
    <2>2. FrameSize * (most + 1) = top + FrameSize
        BY <1>11, Times
    <2>. QED BY <1>3, <1>12, <2>1, <2>2
<1>14. count <= most
    BY <1>13
<1>15. most = got + 2 * losses
    BY <1>4c, <1>7, <1>8, <1>9
<1>. QED BY <1>2, <1>14, <1>15

-----------------------------------------------------------------------------
(* The first byte on the line leaves it.                                    *)
LEMMA LineMoves ==
    ASSUME ReceiverTypes, OnLine, toModule # <<>>, toModule' = Tail(toModule),
           requested' = requested
    PROVE  /\ Departed' = Departed + 1 /\ OnLine'
           /\ IsAt(requested, Departed + 1, Head(toModule))
<1>1. /\ toModule \in Seq(Byte) /\ Tail(toModule) \in Seq(Byte) /\ Len(toModule) \in Nat
      /\ Len(Tail(toModule)) = Len(toModule) - 1 /\ Len(toModule) > 0
      /\ Head(toModule) = toModule[1]
      /\ \A k \in 1..Len(toModule)-1 : Tail(toModule)[k] = toModule[k + 1]
    BY DEF ReceiverTypes
<1>2. PICK sent \in Nat : sent = Bytes(requested)
    <2>1. Len(requested) \in Nat /\ FrameSize \in Nat
        BY FrameAssumption DEF ReceiverTypes
    <2>. QED BY <2>1, Times DEF Bytes
<1>3. Departed = sent - Len(toModule) /\ Departed' = sent - (Len(toModule) - 1)
    BY <1>1, <1>2 DEF Departed
<1>4. Departed \in Nat /\ Departed' = Departed + 1
    BY <1>1, <1>3 DEF OnLine
<1>5. ASSUME NEW k \in 1..Len(toModule)-1
      PROVE  IsAt(requested, (Departed + 1) + k, Tail(toModule)[k])
    <2>1. k + 1 \in 1..Len(toModule) /\ Departed + (k + 1) = (Departed + 1) + k
        BY <1>1, <1>4
    <2>2. IsAt(requested, Departed + (k + 1), toModule[k + 1])
        BY <2>1 DEF OnLine
    <2>. QED BY <1>1, <2>1, <2>2
<1>6. IsAt(requested, Departed + 1, Head(toModule))
    BY <1>1 DEF OnLine
<1>7. OnLine'
    <2>1. \A k \in 1..Len(toModule') : IsAt(requested', Departed' + k, toModule'[k])
        BY <1>1, <1>4, <1>5
    <2>. QED BY <1>4, <2>1 DEF OnLine
<1>. QED BY <1>4, <1>6, <1>7

(* A frame is written behind the others.                                    *)
LEMMA LineGrows ==
    ASSUME ReceiverTypes, OnLine, NEW m \in Messages,
           toModule' = toModule \o Frame(m), requested' = Append(requested, m)
    PROVE  Departed' = Departed /\ OnLine'
<1> USE FrameAssumption
<1>1. /\ toModule \in Seq(Byte) /\ requested \in Seq(Messages)
      /\ Len(toModule) \in Nat /\ Len(requested) \in Nat
      /\ Len(requested') = Len(requested) + 1
    BY DEF ReceiverTypes
<1>2. Frame(m) \in Seq(Byte) /\ Len(Frame(m)) = FrameSize
    BY FrameIs
<1>3. /\ Len(toModule') = Len(toModule) + FrameSize
      /\ \A k \in 1..Len(toModule) : toModule'[k] = toModule[k]
      /\ \A k \in 1..FrameSize : toModule'[Len(toModule) + k] = Frame(m)[k]
    BY <1>1, <1>2, Joined
<1>4. PICK sent \in Nat : sent = FrameSize * Len(requested)
    BY <1>1, Times
<1>5. FrameSize * Len(requested') = sent + FrameSize
    BY <1>1, <1>4, Times
<1>6. Departed = sent - Len(toModule) /\ Departed \in Nat
    BY <1>4 DEF Departed, Bytes, OnLine
<1>7. Departed' = Departed
    <2>1. Departed' = (sent + FrameSize) - (Len(toModule) + FrameSize)
        BY <1>3, <1>5 DEF Departed, Bytes
    <2>. QED BY <1>1, <1>6, <2>1
<1>8. ASSUME NEW k \in 1..Len(toModule) + FrameSize
      PROVE  IsAt(requested', Departed + k, toModule'[k])
    <2>0. Departed + k \in Nat
        BY <1>1, <1>6
    <2>1. CASE k \in 1..Len(toModule)
        <3>1. IsAt(requested, Departed + k, toModule[k])
            BY <2>1 DEF OnLine
        <3>2. Departed + k <= FrameSize * Len(requested)
            BY <1>1, <1>4, <1>6, <2>1
        <3>. QED BY <1>1, <1>3, <2>0, <2>1, <3>1, <3>2, PlaceSent
    <2>2. CASE k \notin 1..Len(toModule)
        <3>1. PICK j \in 1..FrameSize : k = Len(toModule) + j
            <4>1. k - Len(toModule) \in 1..FrameSize /\ k = Len(toModule) + (k - Len(toModule))
                BY <1>1, <2>2
            <4>. QED BY <4>1
        <3>2. Departed + k = sent + j
            BY <1>1, <1>6, <3>1
        <3>3. IsAt(Append(requested, m), Departed + k, Frame(m)[j])
            BY <1>1, <1>4, <2>0, <3>1, <3>2, PlaceSent
        <3>. QED BY <1>3, <3>1, <3>3
    <2>. QED BY <2>1, <2>2
<1>9. \A k \in 1..Len(toModule') : IsAt(requested', Departed' + k, toModule'[k])
    BY <1>3, <1>7, <1>8
<1>. QED BY <1>6, <1>7, <1>9 DEF OnLine

(* The bytes still to be parsed.                                            *)
LEMMA UnparsedIs ==
    ASSUME ReceiverTypes
    PROVE  /\ buf \in Seq(Byte) /\ fifo \in Seq(Byte)
           /\ Unparsed \in Seq(Byte) /\ Len(Unparsed) = Len(buf) + Unread
           /\ \A byte \in Byte : buf \o Append(fifo, byte) = Append(Unparsed, byte)
           /\ buf = <<>> => Unparsed = fifo
<1>1. buf \in Seq(Byte) /\ fifo \in Seq(Byte) /\ Len(fifo) = Unread
    BY DEF ReceiverTypes
<1>2. Unparsed \in Seq(Byte) /\ Len(Unparsed) = Len(buf) + Unread
    BY <1>1, Joined DEF Unparsed
<1>3. ASSUME NEW byte \in Byte PROVE buf \o Append(fifo, byte) = Append(Unparsed, byte)
    <2>1. /\ Append(fifo, byte) = fifo \o <<byte>> /\ <<byte>> \in Seq(Byte)
          /\ Append(Unparsed, byte) = Unparsed \o <<byte>>
        BY <1>1, <1>2, AppendIsConcat
    <2>2. (buf \o fifo) \o <<byte>> = buf \o (fifo \o <<byte>>)
        BY <1>1, <2>1, BytesAssociative
    <2>. QED BY <2>1, <2>2 DEF Unparsed
<1>4. ASSUME buf = <<>> PROVE Unparsed = fifo
    <2>1. <<>> \o fifo = fifo
        BY <1>1, ConcatEmptySeq
    <2>. QED BY <1>4, <2>1 DEF Unparsed
<1>. QED BY <1>1, <1>2, <1>3, <1>4

(* What is traced stays traced, whatever step is taken.                     *)
LEMMA CostStep == RingInv /\ ReceiverTypes /\ CostInv /\ [Next]_vars => CostInv'
<1> SUFFICES ASSUME RingInv, ReceiverTypes, CostInv, [Next]_vars PROVE CostInv'
    OBVIOUS
<1> USE FrameAssumption, RingAssumption
<1> DEFINE Marked == at \in {"copy", "release"} => Unparsed[1] = START_BYTE
           Trace  == AllDistinct(requested) =>
                        \E p, before : Traced(p, before, requested, Unparsed, Departed,
                                              Len(obtained), lost)
<1>1. /\ requested \in Seq(Messages) /\ Len(obtained) \in Nat /\ lost \in Nat
      /\ buf \in Seq(Byte) /\ fifo \in Seq(Byte) /\ toModule \in Seq(Byte)
      /\ Unparsed \in Seq(Byte)
    BY UnparsedIs DEF ReceiverTypes
<1>2. OnLine /\ (~overrun => Marked /\ Trace)
    BY DEF CostInv
<1>3. Departed \in Nat /\ Departed <= Bytes(requested)
    <2>1. Bytes(requested) \in Nat
        <3>1. Len(requested) \in Nat
            BY <1>1
        <3>. QED BY <3>1, Times DEF Bytes
    <2>. QED BY <1>1, <1>2, <2>1 DEF OnLine, Departed
<1>4. CASE Request
    <2>1. PICK m \in Requests : /\ toModule' = toModule \o Frame(m)
                                /\ requested' = Append(requested, m)
        BY <1>4 DEF Request
    <2>2. m \in Messages
        OBVIOUS
    <2>3. UNCHANGED <<at, Unparsed, overrun, obtained, lost>>
        BY <1>4 DEF Request, ringVars, Unparsed
    <2>4. OnLine' /\ Departed' = Departed
        BY <1>2, <2>1, <2>2, LineGrows
    <2>5. ASSUME ~overrun, AllDistinct(requested')
          PROVE  \E p, before : Traced(p, before, requested', Unparsed, Departed,
                                       Len(obtained), lost)
        <3>1. Range(requested) \subseteq Range(requested')
            <4>1. \A i \in 1..Len(requested) :
                     i \in 1..Len(requested') /\ requested'[i] = requested[i]
                BY <1>1, <2>1, <2>2, AppendProperties
            <4>2. requested' \in Seq(Messages)
                BY <1>1, <2>1, <2>2
            <4>. QED BY <1>1, <4>1, <4>2 DEF Range
        <3>2. AllDistinct(requested)
            BY <2>5, <3>1 DEF AllDistinct
        <3>3. PICK p, before : Traced(p, before, requested, Unparsed, Departed,
                                      Len(obtained), lost)
            BY <1>2, <2>5, <3>2
        <3>4. Traced(p, before, Append(requested, m), Unparsed, Departed, Len(obtained), lost)
            BY <1>1, <1>3, <2>2, <3>3, TraceSent
        <3>. QED BY <2>1, <3>4
    <2>. QED BY <1>2, <2>3, <2>4, <2>5 DEF CostInv
<1>5. CASE LoseByte
    <2>1. /\ toModule # <<>> /\ toModule' = Tail(toModule) /\ lost' = lost + 1
          /\ UNCHANGED <<at, Unparsed, overrun, requested, obtained>>
        BY <1>5 DEF LoseByte, ringVars, Unparsed
    <2>2. OnLine' /\ Departed' = Departed + 1
        BY <1>2, <2>1, LineMoves
    <2>3. ASSUME ~overrun, AllDistinct(requested)
          PROVE  \E p, before : Traced(p, before, requested, Unparsed, Departed + 1,
                                       Len(obtained), lost + 1)
        <3>1. PICK p, before : Traced(p, before, requested, Unparsed, Departed,
                                      Len(obtained), lost)
            BY <1>2, <2>3
        <3>. QED BY <1>1, <1>3, <3>1, TraceLost
    <2>. QED BY <1>2, <2>1, <2>2, <2>3 DEF CostInv
<1>6. CASE Interrupt
    <2>1. /\ toModule # <<>> /\ toModule' = Tail(toModule)
          /\ fifo' = Append(fifo, Head(toModule))
          /\ UNCHANGED <<at, buf, requested, obtained, lost>>
        BY <1>6 DEF Interrupt
    <2>2. ~overrun' => ~overrun
        BY <1>6, Zenon DEF Interrupt
    <2>3. Head(toModule) \in Byte
        BY <1>1, <2>1
    <2>4. OnLine' /\ Departed' = Departed + 1 /\ IsAt(requested, Departed + 1, Head(toModule))
        BY <1>2, <2>1, LineMoves
    <2>5. Unparsed' = Append(Unparsed, Head(toModule))
        BY <2>1, <2>3, UnparsedIs DEF Unparsed
    <2>6. ASSUME ~overrun, at \in {"copy", "release"} PROVE Unparsed'[1] = START_BYTE
        <3>1. Len(Unparsed) = available /\ available >= FrameSize /\ available \in Nat
            <4>1. /\ Len(Unparsed) = Len(buf) + Unread /\ Len(buf) \in Nat
                  /\ Unread = available - Len(buf)
                BY <2>6, UnparsedIs DEF Unread, RingInv, Reserved
            <4>. QED BY <2>6, <4>1 DEF RingInv, Reserved
        <3>2. 1 \in 1..Len(Unparsed)
            BY <3>1
        <3>3. Append(Unparsed, Head(toModule))[1] = Unparsed[1]
            BY <1>1, <2>3, <3>2, AppendProperties
        <3>. QED BY <1>2, <2>5, <2>6, <3>3
    <2>7. ASSUME ~overrun, AllDistinct(requested)
          PROVE  \E p, before : Traced(p, before, requested, Append(Unparsed, Head(toModule)),
                                       Departed + 1, Len(obtained), lost)
        <3>1. PICK p, before : Traced(p, before, requested, Unparsed, Departed,
                                      Len(obtained), lost)
            BY <1>2, <2>7
        <3>. QED BY <1>1, <1>3, <2>3, <2>4, <3>1, TraceArrived
    <2>. QED BY <2>1, <2>2, <2>4, <2>5, <2>6, <2>7 DEF CostInv
<1>7. CASE RecvMessage
    <2>0. UNCHANGED <<toModule, overrun, requested, lost>>
        BY <1>7 DEF RecvMessage
    <2>1. OnLine' /\ Departed' = Departed
        BY <1>2, <2>0 DEF OnLine, Departed
    <2>2. CASE BytesAvailable
        <3>1. UNCHANGED <<Unparsed, obtained>> /\ at' = "test"
            BY <2>2 DEF BytesAvailable, Unparsed
        <3>. QED BY <1>2, <2>0, <2>1, <3>1 DEF CostInv
    <2>3. CASE TestStart
        <3>1. /\ at = "test" /\ Len(buf) = 0 /\ available >= FrameSize /\ available \in Nat
            BY <2>3 DEF TestStart, RingInv, Reserved
        <3>2. Unread > 0 /\ buf = <<>>
            <4>1. Unread = available - 0
                BY <3>1 DEF Unread
            <4>. QED BY <1>1, <3>1, <4>1
        <3>3. Unparsed = fifo
            BY <3>2, UnparsedIs
        <3>4. CASE ring[readIndex] = START_BYTE
            <4>1. at' = "copy" /\ UNCHANGED <<fifo, buf, obtained>>
                BY <2>3, <3>4 DEF TestStart
            <4>2. Unparsed' = Unparsed
                BY <4>1 DEF Unparsed
            <4>3. ~overrun => Unparsed[1] = START_BYTE
                BY <3>2, <3>3, <3>4, FrontOfRing
            <4>. QED BY <1>2, <2>0, <2>1, <4>1, <4>2, <4>3 DEF CostInv
        <3>5. CASE ring[readIndex] # START_BYTE
            <4>1. at' = "skip" /\ fifo' = Tail(fifo) /\ UNCHANGED <<buf, obtained>>
                BY <2>3, <3>5 DEF TestStart, Take
            <4>2. ASSUME ~overrun
                  PROVE  fifo # <<>> /\ Unparsed[1] # START_BYTE /\ Unparsed' = Tail(Unparsed)
                <5>1. fifo # <<>> /\ fifo[1] = ring[readIndex]
                    BY <3>2, <4>2, FrontOfRing
                <5>2. Tail(fifo) \in Seq(Byte)
                    BY <1>1, <5>1
                <5>3. <<>> \o Tail(fifo) = Tail(fifo)
                    BY <5>2, ConcatEmptySeq
                <5>. QED BY <3>2, <3>3, <3>5, <4>1, <5>1, <5>3 DEF Unparsed
            <4>3. ASSUME ~overrun, AllDistinct(requested)
                  PROVE  \E p, before : Traced(p, before, requested, Tail(Unparsed), Departed,
                                               Len(obtained), lost)
                <5>1. PICK p, before : Traced(p, before, requested, Unparsed, Departed,
                                              Len(obtained), lost)
                    BY <1>2, <4>3
                <5>2. Unparsed # <<>> /\ Unparsed[1] # START_BYTE
                    BY <3>3, <4>2, <4>3
                <5>. QED BY <1>1, <1>3, <5>1, <5>2, TraceSkipped
            <4>. QED BY <2>0, <2>1, <4>1, <4>2, <4>3 DEF CostInv
        <3>. QED BY <3>4, <3>5
    <2>4. CASE Skip
        <3>1. UNCHANGED <<Unparsed, obtained>> /\ at' = "idle"
            BY <2>4 DEF Skip, Unparsed
        <3>. QED BY <1>2, <2>0, <2>1, <3>1 DEF CostInv
    <2>5. CASE CopyByte
        <3>1. Len(buf) < FrameSize /\ available >= FrameSize /\ available \in Nat /\ Len(buf) \in Nat
            BY <2>5 DEF CopyByte, RingInv, Reserved
        <3>2. Unread > 0
            BY <2>5, <3>1 DEF CopyByte, Unread
        <3>3. at = "copy" /\ obtained' = obtained
            BY <2>5 DEF CopyByte
        <3>4. ASSUME ~overrun PROVE Unparsed' = Unparsed
            <4>1. fifo # <<>> /\ ring[readIndex] = Head(fifo)
                BY <3>2, <3>4, FrontOfRing
            <4>2. buf' = Append(buf, Head(fifo)) /\ fifo' = Tail(fifo)
                BY <2>5, <4>1 DEF CopyByte, Take
            <4>. QED BY <1>1, <4>1, <4>2, Shift DEF Unparsed
        <3>. QED BY <1>2, <2>0, <2>1, <3>3, <3>4 DEF CostInv
    <2>6. CASE Release
        <3>1. at = "release" /\ Len(buf) = FrameSize
            BY <2>6 DEF Release, RingInv, Reserved
        <3>2. at' = "idle" /\ buf' = <<>> /\ fifo' = fifo
            BY <2>6 DEF Release
        <3>3. Unparsed' = fifo
            <4>1. <<>> \o fifo = fifo
                BY <1>1, ConcatEmptySeq
            <4>. QED BY <3>2, <4>1 DEF Unparsed
        <3>4. obtained \in Seq(Messages) /\ Content(buf) \in Messages
            BY <1>1, <3>1, ContentIs DEF ReceiverTypes
        <3>5. /\ Len(obtained') \in {Len(obtained), Len(obtained) + 1}
              /\ ChecksumMatches(buf) => Len(obtained') = Len(obtained) + 1
            BY <2>6, <3>4 DEF Release
        <3>6. ASSUME ~overrun, AllDistinct(requested)
              PROVE  \E p, before : Traced(p, before, requested, fifo, Departed,
                                           Len(obtained'), lost)
            <4>1. PICK p, before : Traced(p, before, requested, Unparsed, Departed,
                                          Len(obtained), lost)
                BY <1>2, <3>6
            <4>2. buf[1] = START_BYTE
                <5>1. Unparsed[1] = buf[1]
                    <6>1. 1 \in 1..Len(buf)
                        BY <3>1
                    <6>. QED BY <1>1, <6>1, Joined DEF Unparsed
                <5>. QED BY <1>2, <3>1, <3>6, <5>1
            <4>3. PICK u : u = Unparsed
                OBVIOUS
            <4>4. u = buf \o fifo
                BY <4>3 DEF Unparsed
            <4>5. PICK more : more = Len(obtained')
                OBVIOUS
            <4>6. PICK got : got = Len(obtained)
                OBVIOUS
            <4>7. PICK left : left = Departed
                OBVIOUS
            <4>8. Traced(p, before, requested, u, left, got, lost)
                BY <4>1, <4>3, <4>6, <4>7
            <4>9. AllDistinct(requested)
                BY <3>6
            <4>10. requested \in Seq(Messages) /\ buf \in Seq(Byte) /\ fifo \in Seq(Byte)
                BY <1>1
            <4>11. left \in Nat /\ left <= Bytes(requested)
                BY <1>1, <1>3, <4>7
            <4>12. got \in Nat /\ lost \in Nat
                BY <1>1, <3>4, <4>6
            <4>13. more \in {got, got + 1} /\ (ChecksumMatches(buf) => more = got + 1)
                BY <3>5, <4>5, <4>6
            <4>14. Len(buf) = FrameSize
                BY <3>1
            <4>15. Copies(buf, fifo, p, before, requested, left, got, lost, more)
                BY <4>2, <4>4, <4>8, <4>9, <4>10, <4>11, <4>12, <4>13, <4>14 DEF Copies
            <4>16. \E q, b : Traced(q, b, requested, fifo, left, more, lost)
                BY <4>15, TraceCopied
            <4>. QED BY <4>5, <4>7, <4>16
        <3>. QED BY <2>0, <2>1, <3>2, <3>3, <3>6 DEF CostInv
    <2>. QED BY <1>7, <2>2, <2>3, <2>4, <2>5, <2>6 DEF RecvMessage
<1>8. CASE UNCHANGED receiverVars
    <2>1. UNCHANGED <<at, Unparsed, Departed, overrun, requested, obtained, lost, toModule>>
        BY <1>8 DEF receiverVars, ringVars, Unparsed, Departed
    <2>2. OnLine'
        BY <1>2, <2>1 DEF OnLine
    <2>. QED BY <1>2, <2>1, <2>2 DEF CostInv
<1>. QED BY <1>4, <1>5, <1>6, <1>7, <1>8 DEF Next, vars

(* At the start nothing was sent.                                           *)
LEMMA CostInit == Init => CostInv
<1> SUFFICES ASSUME Init PROVE CostInv
    OBVIOUS
<1> USE FrameAssumption
<1>1. /\ buf = <<>> /\ fifo = <<>> /\ toModule = <<>> /\ requested = <<>>
      /\ obtained = <<>> /\ at = "idle" /\ lost = 0
    BY DEF Init, ReceiverInit
<1>2. <<>> \o <<>> = <<>> /\ Len(<<>>) = 0
    BY ConcatEmptySeq
<1>3. Unparsed = <<>> /\ Departed = 0
    <2>1. FrameSize * 0 = 0
        OBVIOUS
    <2>2. Unparsed = <<>>
        BY <1>1, <1>2 DEF Unparsed
    <2>3. Departed = 0 - 0
        BY <1>1, <1>2, <2>1 DEF Departed, Bytes
    <2>. QED BY <2>2, <2>3
<1>4. OnLine
    BY <1>1, <1>2, <1>3 DEF OnLine
<1>5. Traced([i \in 1..1 |-> 1], 0, requested, Unparsed, Departed, Len(obtained), lost)
    <2>1. FrameSize * (0 + 2 * 0) = 0
        OBVIOUS
    <2> DEFINE p == [i \in 1..1 |-> 1]
    <2>2. p \in [1..0+1 -> Nat] /\ p[1] = 1 /\ p[0 + 1] = 1
        OBVIOUS
    <2>3. \A i, j \in 1..0+1 : i <= j => p[j] - p[i] >= j - i
        <3>1. \A i \in 1..0+1 : i = 1
            OBVIOUS
        <3>. QED BY <2>2, <3>1
    <2>4. \A i \in 1..0 : IsAt(requested, p[i], Unparsed[i])
        OBVIOUS
    <2> HIDE DEF p
    <2>5. Traced(p, 0, requested, Unparsed, 0, 0, 0)
        BY <1>2, <1>3, <2>1, <2>2, <2>3, <2>4 DEF Traced
    <2>. QED BY <1>1, <1>2, <1>3, <2>5 DEF p
<1>. QED BY <1>1, <1>4, <1>5 DEF CostInv

(* A byte lost on the way to the module costs at most two messages when no  *)
(* message holds a start byte: netv_recv_message finds the next start       *)
(* (NETV16_SerialDriver.c:131-221).                                         *)
THEOREM LossIsBounded == Spec => []CostOfLoss
<1>1. RingInv /\ ReceiverTypes /\ CostInv => CostOfLoss
    <2> SUFFICES ASSUME RingInv, ReceiverTypes, CostInv,
                        ~overrun, \A m \in Range(requested) : Distinct(m),
                        toModule = <<>>, at = "idle", available < FrameSize
                 PROVE  Len(requested) - Len(obtained) <= 2 * lost
        BY DEF CostOfLoss
    <2>1. AllDistinct(requested)
        BY DEF AllDistinct
    <2>2. PICK p, before : Traced(p, before, requested, Unparsed, Departed,
                                  Len(obtained), lost)
        BY <2>1 DEF CostInv
    <2>3. Unparsed \in Seq(Byte) /\ Len(Unparsed) < FrameSize
        <3>1. Len(buf) = 0 /\ available \in Nat
            BY DEF RingInv, Reserved
        <3>2. Unread = available - 0
            BY <3>1 DEF Unread
        <3>. QED BY <3>1, <3>2, UnparsedIs
    <2>4. Departed = Bytes(requested)
        <3>1. Len(toModule) = 0
            OBVIOUS
        <3>2. Bytes(requested) \in Nat
            <4>1. Len(requested) \in Nat /\ FrameSize \in Nat
                BY FrameAssumption DEF ReceiverTypes
            <4>. QED BY <4>1, Times DEF Bytes
        <3>. QED BY <3>1, <3>2 DEF Departed
    <2>5. requested \in Seq(Messages) /\ Len(obtained) \in Nat /\ lost \in Nat
        BY DEF ReceiverTypes
    <2>. QED BY <2>2, <2>3, <2>4, <2>5, TraceEnds
<1>. QED BY <1>1, CostInit, CostStep, TypesHold, PTL DEF Spec


=============================================================================
