-------------------------- MODULE InterfaceHandler --------------------------
(***************************************************************************)
(* NETVInterfaceHandler (NetworkViewer/core/src/NETVInterfaceHandler.cpp): *)
(* the GUI thread queues messages and destroys the handler, a send thread  *)
(* feeds the device, a receive thread calls the observers back.            *)
(*                                                                         *)
(* A thread is given by the point it has reached.  The list mutex is held  *)
(* by the send thread from the test of the list to the end of the sending, *)
(* the observer mutex by the receive thread while it goes through the      *)
(* observers; the critical sections of the GUI thread are single steps.    *)
(***************************************************************************)
EXTENDS Naturals, SequencesExt

CONSTANTS
    Messages,       \* messages sent
    Observers,      \* objects that can be registered
    SendResults,    \* what sendMessage of the device may return, see DeviceStates
    MaxPushed,      \* bound on the messages pushed
    MaxReceived,    \* bound on the messages received
    MaxRegistered   \* bound on the length of the list of observers

DeviceStates == {"OK", "OVERFLOW", "FAIL", "NOT_INITIALIZED"}

ASSUME HandlerAssumption ==
    /\ SendResults \subseteq DeviceStates
    /\ MaxPushed \in Nat /\ MaxReceived \in Nat /\ MaxRegistered \in Nat

VARIABLES
    running,    \* m_running
    queue,      \* m_msgQueue
    permits,    \* m_listSemaphore
    gui,        \* the GUI thread
    sender,     \* the send thread
    receiver,   \* the receive thread
    observers,  \* m_observers
    rest,       \* observers the receive thread has still to notify
    calls,      \* notifications each observer has got
    taken,      \* messages the device took, in order
    failures,   \* messages the device refused with neither OK nor OVERFLOW
    received    \* messages the device delivered

vars == <<running, queue, permits, gui, sender, receiver, observers, rest,
          calls, taken, failures, received>>

sent     == <<taken, failures>>
sendVars == <<queue, permits, sender, sent>>
recvVars == <<receiver, rest, calls, received>>

\* The constructor starts both threads; the manager registers itself next.
Init ==
    /\ running = TRUE
    /\ queue = <<>> /\ permits = 0
    /\ gui = "idle" /\ sender = "check" /\ receiver = "check"
    /\ observers = <<>> /\ rest = <<>>
    /\ calls = [o \in Observers |-> 0]
    /\ taken = <<>> /\ failures = 0 /\ received = 0

ListLocked      == sender \in {"send", "retry"}
ObserversLocked == receiver = "notify"

-----------------------------------------------------------------------------
(* The GUI thread.                                                          *)
\* pushNETVMessage: push_back under the list mutex, then the semaphore.
Push ==
    /\ gui = "idle" /\ ~ListLocked
    /\ Len(queue) + Len(taken) < MaxPushed
    /\ \E m \in Messages : queue' = Append(queue, m)
    /\ gui' = "signal"
    /\ UNCHANGED <<running, permits, sender, sent, observers, recvVars>>

Signal ==
    /\ gui = "signal"
    /\ permits' = permits + 1
    /\ gui' = "idle"
    /\ UNCHANGED <<running, queue, sender, sent, observers, recvVars>>

\* A mutant of the guard of the critical sections on the list of observers.
UnlockedMutant == gui = "idle"
ObserversFree  == gui = "idle" /\ ~ObserversLocked

RegisterObserver(o) ==
    /\ ObserversFree
    /\ Len(observers) < MaxRegistered
    /\ observers' = Append(observers, o)
    /\ UNCHANGED <<running, gui, sendVars, recvVars>>

\* Only the first registration of the observer is erased.
UnregisterObserver(o) ==
    /\ ObserversFree
    /\ \E k \in 1..Len(observers) :
          /\ observers[k] = o /\ \A j \in 1..k-1 : observers[j] # o
          /\ observers' = RemoveAt(observers, k)
    /\ UNCHANGED <<running, gui, sendVars, recvVars>>

\* The destructor.  QThread::exit() has no effect on threads without an event
\* loop; the second release is for a thread that never acquires.
Stop ==
    /\ gui = "idle"
    /\ running' = FALSE
    /\ gui' = "wakeSender"
    /\ UNCHANGED <<observers, sendVars, recvVars>>

NoWakeMutant == gui = "wakeSender" /\ gui' = "joinSender" /\ UNCHANGED permits

WakeSender == gui = "wakeSender" /\ gui' = "joinSender" /\ permits' = permits + 1

JoinSender ==
    /\ gui = "joinSender" /\ sender = "done"
    /\ gui' = "joinReceiver"
    /\ permits' = permits + 1

JoinReceiver ==
    /\ gui = "joinReceiver" /\ receiver = "done"
    /\ gui' = "deleted"
    /\ UNCHANGED permits

Destroy ==
    /\ WakeSender \/ JoinSender \/ JoinReceiver
    /\ UNCHANGED <<running, queue, sender, sent, observers, recvVars>>

-----------------------------------------------------------------------------
(* The send thread: run() and sendThreadFunction.                           *)
SendCheck ==
    /\ sender = "check"
    /\ sender' = IF running THEN "acquire" ELSE "done"
    /\ UNCHANGED <<queue, permits, sent>>

\* acquire() blocks while no permit is available; a mutant that does not.
BlindAcquireMutant ==
    /\ sender = "acquire"
    /\ permits' = permits - 1
    /\ sender' = "lock"
    /\ UNCHANGED <<queue, sent>>

Acquire ==
    /\ sender = "acquire"
    /\ permits > 0 /\ permits' = permits - 1
    /\ sender' = "lock"
    /\ UNCHANGED <<queue, sent>>

\* The list and m_running are tested with the mutex held.
Lock ==
    /\ sender = "lock"
    /\ sender' = IF queue # <<>> /\ running THEN "send" ELSE "check"
    /\ UNCHANGED <<queue, permits, sent>>

PopAlwaysMutant(result) == Tail(queue)
Popped(result) == IF result = "OK" THEN Tail(queue) ELSE queue

\* After OVERFLOW the thread sleeps with the mutex held, then signals itself;
\* after any other failure the message stays and the permit is gone.
SendMessage(result) ==
    /\ sender = "send"
    /\ queue' = Popped(result)
    /\ taken' = IF result = "OK" THEN Append(taken, Head(queue)) ELSE taken
    /\ failures' = IF result \in {"OK", "OVERFLOW"} THEN failures ELSE failures + 1
    /\ sender' = IF result = "OVERFLOW" THEN "retry" ELSE "check"
    /\ UNCHANGED permits

NoRetryMutant ==
    /\ sender = "retry"
    /\ sender' = "check"
    /\ UNCHANGED <<queue, permits, sent>>

Retry ==
    /\ sender = "retry"
    /\ permits' = permits + 1
    /\ sender' = "check"
    /\ UNCHANGED <<queue, sent>>

Send ==
    /\ SendCheck \/ Acquire \/ Lock \/ Retry
       \/ \E result \in SendResults : SendMessage(result)
    /\ UNCHANGED <<running, gui, observers, recvVars>>

-----------------------------------------------------------------------------
(* The receive thread: run(), recvThreadFunction and notifyCANObservers.    *)
ReceiveCheck ==
    /\ receiver = "check"
    /\ receiver' = IF running THEN "receive" ELSE "done"
    /\ UNCHANGED <<rest, calls, received>>

\* recvMessage gives a message, or nothing: the thread sleeps and starts over.
ReceiveMessage ==
    /\ receiver = "receive"
    /\ \/ /\ received < MaxReceived
          /\ received' = received + 1
          /\ receiver' = "lock"
       \/ receiver' = "check" /\ UNCHANGED received
    /\ UNCHANGED <<rest, calls>>

LockObservers ==
    /\ receiver = "lock"
    /\ rest' = observers
    /\ receiver' = "notify"
    /\ UNCHANGED <<calls, received>>

Notify ==
    /\ receiver = "notify"
    /\ IF rest = <<>>
          THEN receiver' = "check" /\ UNCHANGED <<rest, calls>>
          ELSE /\ calls' = [calls EXCEPT ![Head(rest)] = @ + 1]
               /\ rest' = Tail(rest)
               /\ UNCHANGED receiver
    /\ UNCHANGED received

Receive ==
    /\ ReceiveCheck \/ ReceiveMessage \/ LockObservers \/ Notify
    /\ UNCHANGED <<running, gui, observers, sendVars>>

-----------------------------------------------------------------------------
Next ==
    \/ Push \/ Signal \/ Stop \/ Destroy
    \/ \E o \in Observers : RegisterObserver(o) \/ UnregisterObserver(o)
    \/ Send
    \/ Receive

Spec == Init /\ [][Next]_vars

\* The threads are scheduled, every recvMessage of the drivers returns after a
\* bounded time, and a device that overflows does not do so for ever.
Fairness ==
    /\ WF_vars(Signal) /\ WF_vars(Destroy) /\ WF_vars(Send) /\ WF_vars(Receive)
    /\ SF_vars(SendMessage("OK") /\ UNCHANGED <<running, gui, observers, recvVars>>)

FairSpec == Spec /\ Fairness

-----------------------------------------------------------------------------
\* Every variable keeps its type.
TypeOK ==
    /\ running \in BOOLEAN
    /\ queue \in Seq(Messages) /\ taken \in Seq(Messages)
    /\ permits \in Nat /\ failures \in Nat /\ received \in Nat
    /\ gui \in {"idle", "signal", "wakeSender", "joinSender", "joinReceiver",
                "deleted"}
    /\ sender \in {"check", "acquire", "lock", "send", "retry", "done"}
    /\ receiver \in {"check", "receive", "lock", "notify", "done"}
    /\ observers \in Seq(Observers) /\ rest \in Seq(Observers)
    /\ calls \in [Observers -> Nat]

\* Permits given and not used up: in the semaphore, held by the send thread,
\* due from pushNETVMessage.
Held == (IF sender \in {"lock", "send", "retry"} THEN 1 ELSE 0)
        + (IF gui = "signal" THEN 1 ELSE 0)

\* While the handler runs every message has its permit but for those the device
\* refused with a failure, which cost one each: no permit is ahead of its
\* message, and with a device that only answers OK or OVERFLOW no message is
\* left in the list with the send thread asleep.
PermitsBalanced == running => permits + Held + failures = Len(queue)

\* The list of observers stays as it is while the receive thread goes through
\* it, and nobody is called back after it was unregistered: the plugins are
\* deleted right after unregisterObserver returns.
CallbacksRegistered ==
    [][/\ ObserversLocked => observers' = observers
       /\ \A o \in Observers : calls'[o] # calls[o] => o \in Range(observers')]_vars

\* The destructor returns: neither thread is left waiting for a permit or a
\* mutex that nobody will give.
DestructorReturns == gui = "wakeSender" ~> gui = "deleted"

-----------------------------------------------------------------------------
Fifo == INSTANCE SendQueue WITH pending <- queue, open <- running

\* The device gets the messages in the order of pushNETVMessage, each once.
SentInOrder == Fifo!Spec

\* As long as the device does not fail it gets all of them while the handler is
\* open.
AllSent == [](failures = 0) => Fifo!Fair

=============================================================================
