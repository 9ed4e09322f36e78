----------------------- MODULE InterfaceHandler_proofs -----------------------
(***************************************************************************)
(* Theorems of InterfaceHandler: for any sets of messages and observers    *)
(* and whatever the device answers, permits and messages balance, no       *)
(* observer is called back once unregistered, and the handler implements   *)
(* SendQueue.                                                              *)
(***************************************************************************)
EXTENDS InterfaceHandler, SequenceTheorems, TLAPS

USE DEF sent

\* What the threads' positions say of the data: the handler is open exactly
\* while the GUI thread is not in the destructor, the send thread sends only
\* from a non-empty list, and the observers still to notify are registered.
Positions ==
    /\ running <=> gui \in {"idle", "signal"}
    /\ sender = "send" => queue # <<>>
    /\ receiver = "notify" => Range(rest) \subseteq Range(observers)

-----------------------------------------------------------------------------
\* Erasing a registration leaves a list of observers.
LEMMA RemoveAtType ==
    ASSUME NEW S, NEW s \in Seq(S), NEW k \in 1..Len(s)
    PROVE  RemoveAt(s, k) \in Seq(S)
<1>1. Len(s) \in Nat /\ k \in Int /\ \A i \in 1..Len(s) : s[i] \in S
  BY LenProperties, ElementOfSeq
<1>2. SubSeq(s, 1, k - 1) \in Seq(S)
  <2>1. \A i \in 1..(k - 1) : s[i] \in S
    BY <1>1
  <2> QED BY <1>1, <2>1, SubSeqProperties
<1>3. SubSeq(s, k + 1, Len(s)) \in Seq(S)
  <2>1. \A i \in (k + 1)..Len(s) : s[i] \in S
    BY <1>1
  <2> QED BY <1>1, <2>1, SubSeqProperties
<1> QED BY <1>2, <1>3, ConcatProperties DEF RemoveAt

\* What is left of a list holds nothing new.
LEMMA RangeOfTail ==
    ASSUME NEW S, NEW s \in Seq(S), s # <<>>
    PROVE  Range(Tail(s)) \subseteq Range(s) /\ Head(s) \in Range(s)
<1>1. /\ Tail(s) \in Seq(S) /\ Len(Tail(s)) = Len(s) - 1
      /\ \A i \in 1..Len(Tail(s)) : Tail(s)[i] = s[i + 1]
  BY HeadTailProperties
<1>2. Len(s) \in Nat \ {0} /\ Head(s) = s[1]
  BY EmptySeq
<1>3. /\ Range(s) = {s[i] : i \in 1..Len(s)}
      /\ Range(Tail(s)) = {Tail(s)[i] : i \in 1..Len(Tail(s))}
  BY <1>1, RangeEquality
<1> QED BY <1>1, <1>2, <1>3

\* The handler starts with empty lists and nobody in a critical section.
LEMMA InitInv == Init => TypeOK /\ Positions
<1> SUFFICES ASSUME Init PROVE TypeOK /\ Positions
  OBVIOUS
<1>1. <<>> \in Seq(Messages) /\ <<>> \in Seq(Observers)
  BY EmptySeq
<1>2. running = TRUE /\ gui = "idle" /\ sender = "check" /\ receiver = "check"
  BY DEF Init
<1> QED BY <1>1, <1>2 DEF Init, TypeOK, Positions

\* Every step of the three threads keeps the types.
LEMMA StepType == TypeOK /\ Positions /\ [Next]_vars => TypeOK'
<1> SUFFICES ASSUME TypeOK, Positions, [Next]_vars PROVE TypeOK'
  OBVIOUS
<1> USE DEF TypeOK
<1>1. CASE Push
  <2>1. PICK m \in Messages : queue' = Append(queue, m)
    BY <1>1 DEF Push
  <2>2. queue' \in Seq(Messages)
    BY <2>1, AppendProperties
  <2> QED BY <1>1, <2>2 DEF Push, recvVars
<1>2. CASE Signal
  BY <1>2 DEF Signal, recvVars
<1>3. CASE Stop
  BY <1>3 DEF Stop, sendVars, recvVars
<1>4. CASE Destroy
  BY <1>4 DEF Destroy, WakeSender, JoinSender, JoinReceiver, recvVars
<1>5. ASSUME NEW o \in Observers, RegisterObserver(o) PROVE TypeOK'
  <2>1. observers' \in Seq(Observers)
    BY <1>5, AppendProperties DEF RegisterObserver
  <2> QED BY <1>5, <2>1 DEF RegisterObserver, sendVars, recvVars
<1>6. ASSUME NEW o \in Observers, UnregisterObserver(o) PROVE TypeOK'
  <2>1. observers' \in Seq(Observers)
    BY <1>6, RemoveAtType DEF UnregisterObserver
  <2> QED BY <1>6, <2>1 DEF UnregisterObserver, sendVars, recvVars
<1>7. CASE Send
  <2>0. UNCHANGED <<running, gui, observers, recvVars>>
    BY <1>7 DEF Send
  <2> USE <2>0 DEF recvVars
  <2>1. CASE SendCheck
    BY <2>1 DEF SendCheck
  <2>2. CASE Acquire
    BY <2>2 DEF Acquire
  <2>3. CASE Lock
    BY <2>3 DEF Lock
  <2>4. CASE Retry
    BY <2>4 DEF Retry
  <2>5. ASSUME NEW result \in SendResults, SendMessage(result) PROVE TypeOK'
    <3>0. failures' \in Nat
      BY <2>5 DEF SendMessage
    <3>1. Head(queue) \in Messages /\ Tail(queue) \in Seq(Messages)
      BY <2>5, HeadTailProperties DEF SendMessage, Positions
    <3>2. queue' \in Seq(Messages)
      BY <2>5, <3>1 DEF SendMessage, Popped
    <3>3. taken' \in Seq(Messages)
      BY <2>5, <3>1, AppendProperties DEF SendMessage
    <3> QED BY <2>5, <3>0, <3>2, <3>3 DEF SendMessage
  <2> QED BY <1>7, <2>1, <2>2, <2>3, <2>4, <2>5 DEF Send
<1>8. CASE Receive
  <2>0. UNCHANGED <<running, gui, observers, sendVars>>
    BY <1>8 DEF Receive
  <2> USE <2>0 DEF sendVars
  <2>1. CASE ReceiveCheck
    BY <2>1 DEF ReceiveCheck
  <2>2. CASE ReceiveMessage
    BY <2>2 DEF ReceiveMessage
  <2>3. CASE LockObservers
    BY <2>3 DEF LockObservers
  <2>4. CASE Notify
    <3>1. CASE rest = <<>>
      BY <2>4, <3>1 DEF Notify
    <3>2. CASE rest # <<>>
      <4>1. Head(rest) \in Observers /\ rest' \in Seq(Observers)
        BY <2>4, <3>2, HeadTailProperties DEF Notify
      <4>2. calls \in [Observers -> Nat] /\ calls[Head(rest)] + 1 \in Nat
        BY <4>1
      <4>3. calls' = [calls EXCEPT ![Head(rest)] = calls[Head(rest)] + 1]
        BY <2>4, <3>2 DEF Notify
      <4>4. calls' \in [Observers -> Nat]
        BY <4>1, <4>2, <4>3
      <4> QED BY <2>4, <3>2, <4>1, <4>4 DEF Notify
    <3> QED BY <3>1, <3>2
  <2> QED BY <1>8, <2>1, <2>2, <2>3, <2>4 DEF Receive
<1>9. CASE UNCHANGED vars
  BY <1>9 DEF vars
<1> QED BY <1>1, <1>2, <1>3, <1>4, <1>5, <1>6, <1>7, <1>8, <1>9 DEF Next

\* The types hold in every step, so the positions can be proved with them.
LEMMA StepPositions == TypeOK /\ Positions /\ [Next]_vars => Positions'
<1> SUFFICES ASSUME TypeOK, Positions, [Next]_vars PROVE Positions'
  OBVIOUS
<1>1. CASE Push
  <2>1. PICK m \in Messages : queue' = Append(queue, m)
    BY <1>1 DEF Push
  <2>2. queue' # <<>>
    <3>1. queue \in Seq(Messages)
      BY DEF TypeOK
    <3> QED BY <2>1, <3>1, AppendProperties
  <2> QED BY <1>1, <2>2 DEF Push, recvVars, Positions
<1>2. CASE Signal
  BY <1>2 DEF Signal, recvVars, Positions
<1>3. CASE Stop
  <2>1. ~running' /\ gui' = "wakeSender"
    BY <1>3 DEF Stop
  <2>2. UNCHANGED <<observers, sender, queue, receiver, rest>>
    BY <1>3 DEF Stop, sendVars, recvVars
  <2> QED BY <2>1, <2>2 DEF Positions
<1>4. CASE Destroy
  BY <1>4 DEF Destroy, WakeSender, JoinSender, JoinReceiver, recvVars, Positions
<1>5. CASE \E o \in Observers : RegisterObserver(o) \/ UnregisterObserver(o)
  \* Nobody is being notified while the list changes.
  BY <1>5 DEF RegisterObserver, UnregisterObserver, ObserversFree,
              ObserversLocked, sendVars, recvVars, Positions
<1>6. CASE Send
  <2>0. UNCHANGED <<running, gui, observers, recvVars>>
    BY <1>6 DEF Send
  <2>1. sender' = "send" => queue' # <<>>
    BY <1>6 DEF Send, SendCheck, Acquire, Lock, SendMessage, Retry, Positions
  <2> QED BY <2>0, <2>1 DEF recvVars, Positions
<1>7. CASE Receive
  <2>0. UNCHANGED <<running, gui, observers, sendVars>>
    BY <1>7 DEF Receive
  <2>1. receiver' = "notify" => Range(rest') \subseteq Range(observers')
    <3>1. CASE LockObservers
      BY <2>0, <3>1 DEF LockObservers
    <3>2. CASE Notify /\ rest # <<>>
      <4>1. rest \in Seq(Observers) /\ rest' = Tail(rest) /\ receiver = "notify"
        BY <3>2 DEF Notify, TypeOK
      <4>2. Range(Tail(rest)) \subseteq Range(rest)
        BY <3>2, <4>1, RangeOfTail
      <4> QED BY <2>0, <4>1, <4>2 DEF Positions
    <3> QED BY <1>7, <3>1, <3>2
            DEF Receive, ReceiveCheck, ReceiveMessage, Notify
  <2> QED BY <2>0, <2>1 DEF sendVars, Positions
<1>8. CASE UNCHANGED vars
  BY <1>8 DEF vars, Positions
<1> QED BY <1>1, <1>2, <1>3, <1>4, <1>5, <1>6, <1>7, <1>8 DEF Next

\* Types and positions together are inductive.
LEMMA Inductive == Spec => [](TypeOK /\ Positions)
<1>1. TypeOK /\ Positions /\ [Next]_vars => (TypeOK /\ Positions)'
  BY StepType, StepPositions
<1> QED BY InitInv, <1>1, PTL DEF Spec

\* The state of the handler is type-correct, whatever its three threads do.
THEOREM TypeCorrect == Spec => []TypeOK
BY Inductive, PTL

-----------------------------------------------------------------------------
\* The length of the list when a message is queued and when one is sent.
LEMMA QueueLengths ==
    ASSUME TypeOK
    PROVE  /\ Len(queue) \in Nat
           /\ \A m \in Messages : Len(Append(queue, m)) = Len(queue) + 1
           /\ queue # <<>> => Len(queue) > 0 /\ Len(Tail(queue)) = Len(queue) - 1
<1>1. queue \in Seq(Messages)
  BY DEF TypeOK
<1> QED BY <1>1, LenProperties, AppendProperties, HeadTailProperties, EmptySeq

\* Outside the send thread only Push and Signal of an open handler touch the
\* balance, and each keeps it.
LEMMA OthersBalance ==
    ASSUME TypeOK, Positions, PermitsBalanced, running',
           \/ Push \/ Signal \/ Stop \/ Destroy \/ Receive \/ UNCHANGED vars
           \/ \E o \in Observers : RegisterObserver(o) \/ UnregisterObserver(o)
    PROVE  (permits + Held + failures)' = Len(queue')
<1> USE DEF Held, PermitsBalanced
<1>0. permits \in Nat /\ failures \in Nat /\ Len(queue) \in Nat
  BY QueueLengths DEF TypeOK
<1>1. CASE Push
  <2>1. Len(queue') = Len(queue) + 1
    BY <1>1, QueueLengths DEF Push
  <2>2. UNCHANGED <<running, permits, sender, failures>> /\ gui = "idle" /\ gui' = "signal"
    BY <1>1 DEF Push
  <2> QED BY <1>0, <2>1, <2>2
<1>2. CASE Signal
  BY <1>0, <1>2 DEF Signal
<1>3. CASE Stop
  BY <1>3 DEF Stop
<1>4. CASE Destroy
  <2>1. UNCHANGED running /\ gui \in {"wakeSender", "joinSender", "joinReceiver"}
    BY <1>4 DEF Destroy, WakeSender, JoinSender, JoinReceiver
  <2> QED BY <2>1 DEF Positions
<1>5. CASE \/ Receive \/ UNCHANGED vars
           \/ \E o \in Observers : RegisterObserver(o) \/ UnregisterObserver(o)
  <2>1. UNCHANGED <<running, queue, permits, sender, gui, failures>>
    BY <1>5 DEF Receive, RegisterObserver, UnregisterObserver, sendVars, vars
  <2> QED BY <1>0, <2>1
<1> QED BY <1>1, <1>2, <1>3, <1>4, <1>5

\* The send thread uses up a permit with each message it sends and with each
\* failure, and gives one back after an overflow.
LEMMA SendBalance ==
    ASSUME TypeOK, Positions, PermitsBalanced, Send, running'
    PROVE  (permits + Held + failures)' = Len(queue')
<1> USE DEF Held
<1>0. permits \in Nat /\ failures \in Nat /\ Len(queue) \in Nat
  BY QueueLengths DEF TypeOK
<1>1. UNCHANGED <<running, gui>> /\ running
  BY DEF Send
<1>2. permits + Held + failures = Len(queue)
  BY <1>1 DEF PermitsBalanced
<1>3. CASE SendCheck
  BY <1>0, <1>1, <1>2, <1>3 DEF SendCheck
<1>4. CASE Acquire
  BY <1>0, <1>1, <1>2, <1>4 DEF Acquire
<1>5. CASE Lock
  \* A permit is held, so the list is not empty.
  <2>1. queue # <<>>
    <3>1. Len(queue) > 0
      BY <1>0, <1>2, <1>5 DEF Lock
    <3> QED BY <3>1, EmptySeq
  <2> QED BY <1>0, <1>1, <1>2, <1>5, <2>1 DEF Lock
<1>6. CASE Retry
  BY <1>0, <1>1, <1>2, <1>6 DEF Retry
<1>7. ASSUME NEW result \in SendResults, SendMessage(result)
      PROVE  (permits + Held + failures)' = Len(queue')
  <2>1. Len(Tail(queue)) = Len(queue) - 1 /\ Len(queue) > 0
    BY <1>7, QueueLengths DEF SendMessage, Positions
  <2>2. CASE result = "OK"
    BY <1>0, <1>1, <1>2, <1>7, <2>1, <2>2 DEF SendMessage, Popped
  <2>3. CASE result = "OVERFLOW"
    BY <1>0, <1>1, <1>2, <1>7, <2>3 DEF SendMessage, Popped
  <2>4. CASE result \notin {"OK", "OVERFLOW"}
    BY <1>0, <1>1, <1>2, <1>7, <2>4 DEF SendMessage, Popped
  <2> QED BY <2>2, <2>3, <2>4
<1> QED BY <1>3, <1>4, <1>5, <1>6, <1>7 DEF Send

\* While the handler is open every message but those that cost a failure has
\* its permit, so that the send thread that has acquired one finds a message
\* and, with a device that does not fail, none is left behind.
THEOREM PermitsBalance == Spec => []PermitsBalanced
<1>1. Init => PermitsBalanced
  BY EmptySeq DEF Init, PermitsBalanced, Held
<1>2. TypeOK /\ Positions /\ PermitsBalanced /\ [Next]_vars => PermitsBalanced'
  <2> SUFFICES ASSUME TypeOK, Positions, PermitsBalanced, [Next]_vars, running'
               PROVE  (permits + Held + failures)' = Len(queue')
    BY DEF PermitsBalanced, Held
  <2>1. CASE Send
    BY <2>1, SendBalance
  <2>2. CASE ~Send
    BY <2>2, OthersBalance DEF Next
  <2> QED BY <2>1, <2>2
<1> QED BY <1>1, <1>2, Inductive, PTL DEF Spec

-----------------------------------------------------------------------------
\* The list of observers stands still under the receive thread, and only an
\* observer still registered is ever called back.
THEOREM OnlyRegisteredCalled == Spec => CallbacksRegistered
<1> DEFINE Kept == ObserversLocked => observers' = observers
           Called == \A o \in Observers :
                        calls'[o] # calls[o] => o \in Range(observers')
<1>1. TypeOK /\ Positions /\ [Next]_vars => Kept /\ Called
  <2> SUFFICES ASSUME TypeOK, Positions, [Next]_vars PROVE Kept /\ Called
    OBVIOUS
  <2>1. Kept
    BY DEF Next, vars, Push, Signal, Stop, Destroy, RegisterObserver,
           UnregisterObserver, ObserversFree, Send, Receive
  <2>2. CASE Notify /\ Receive /\ rest # <<>>
    <3>1. Head(rest) \in Range(rest)
      BY <2>2, RangeOfTail DEF TypeOK
    <3>2. Head(rest) \in Range(observers')
      BY <2>2, <3>1 DEF Notify, Receive, Positions
    <3>3. \A o \in Observers : o # Head(rest) => calls'[o] = calls[o]
      BY <2>2 DEF Notify, TypeOK
    <3> QED BY <2>1, <3>2, <3>3
  <2>3. CASE ~(Notify /\ Receive /\ rest # <<>>)
    <3>1. UNCHANGED calls
      BY <2>3 DEF Next, vars, Push, Signal, Stop, Destroy, RegisterObserver,
                  UnregisterObserver, Send, Receive, ReceiveCheck,
                  ReceiveMessage, LockObservers, Notify, recvVars
    <3> QED BY <2>1, <3>1
  <2> QED BY <2>2, <2>3
<1> QED BY <1>1, Inductive, PTL DEF Spec, CallbacksRegistered

-----------------------------------------------------------------------------
\* The handler implements SendQueue: what the device has taken and what waits
\* are, in order, the messages pushed; nothing is queued once it is closed.
THEOREM DeliversInOrder == Spec => SentInOrder
<1>1. Init => Fifo!Init
  BY DEF Init, Fifo!Init
<1>2. TypeOK /\ Positions /\ [Next]_vars => [Fifo!Next]_(Fifo!vars)
  <2> SUFFICES ASSUME TypeOK, Positions, [Next]_vars
               PROVE  [Fifo!Next]_(Fifo!vars)
    OBVIOUS
  <2> USE DEF Fifo!vars, Fifo!Next
  <2>1. CASE Push
    <3>1. running /\ UNCHANGED <<taken, running>>
      BY <2>1 DEF Push, Positions
    <3>2. \E m \in Messages : queue' = Append(queue, m)
      BY <2>1 DEF Push
    <3> QED BY <3>1, <3>2 DEF Fifo!Queue
  <2>2. CASE Stop
    <3>1. running /\ running' = FALSE /\ UNCHANGED <<queue, taken>>
      BY <2>2 DEF Stop, Positions, sendVars
    <3> QED BY <3>1 DEF Fifo!Close
  <2>3. ASSUME NEW result \in SendResults, SendMessage(result), Send
        PROVE  [Fifo!Next]_(Fifo!vars)
    <3>1. queue # <<>> /\ UNCHANGED running
      BY <2>3 DEF SendMessage, Send, Positions
    <3>2. CASE result = "OK"
      BY <2>3, <3>1, <3>2 DEF SendMessage, Popped, Fifo!Take
    <3>3. CASE result # "OK"
      BY <2>3, <3>1, <3>3 DEF SendMessage, Popped
    <3> QED BY <3>2, <3>3
  <2>4. CASE Send /\ ~\E result \in SendResults : SendMessage(result)
    BY <2>4 DEF Send, SendCheck, Acquire, Lock, Retry
  <2>5. CASE \/ Signal \/ Destroy \/ Receive \/ UNCHANGED vars
             \/ \E o \in Observers : RegisterObserver(o) \/ UnregisterObserver(o)
    BY <2>5 DEF Signal, Destroy, Receive, RegisterObserver, UnregisterObserver,
                sendVars, vars
  <2> QED BY <2>1, <2>2, <2>3, <2>4, <2>5 DEF Next
<1> QED BY <1>1, <1>2, Inductive, PTL DEF Spec, SentInOrder, Fifo!Spec

=============================================================================
