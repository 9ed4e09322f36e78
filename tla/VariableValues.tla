--------------------------- MODULE VariableValues ---------------------------
(***************************************************************************)
(* The values of a module's variables, in the module, in the viewer or     *)
(* console whose interface the module is on, and in a viewer connected to  *)
(* the console.  The interface is an adapter (DataFlowTable) or the        *)
(* loopback driver (Loopback); the user sits at the viewer with the        *)
(* interface, or at the one connected to the console, which has no user.   *)
(***************************************************************************)
EXTENDS DataFlowTable, Loopback, RemoteLink

CONSTANTS
    Deployments,    \* drivers, where the user is, the variables configured
    MaxEdits,       \* bound on the edits of the user
    MaxPolls        \* bound on the alive requests

ASSUME ValuesAssumption ==
    /\ Deployments \subseteq 
          [driver : {"bus", "loopback"}, remote : BOOLEAN, listed : SUBSET Variables]
    /\ MaxEdits \in Nat /\ MaxPolls \in Nat

VARIABLES
    driver,     \* "bus" or "loopback"
    remote,     \* the user is at a viewer connected to the console
    listed,     \* the variables in the configuration of the module
    display,    \* m_value of the variables where the interface is
    shown,      \* m_value of the variables at the connected viewer
    edits,      \* edits so far
    polls       \* alive requests so far

setting  == <<driver, remote, listed>>
viewVars == <<display, shown, edits, polls>>
vars == <<table, pathVars, tableVars, loopVars, remoteVars, setting, viewVars>>

\* A text that is no number is shown as it was typed, and written as zero.
Text == BytesOf(MaxEdits + 1)

Init ==
    /\ PathInit /\ TableInit /\ LoopInit
    /\ \E d \in Deployments :
          driver = d.driver /\ remote = d.remote /\ listed = d.listed
    /\ RemoteInit(remote)
    /\ display = [v \in Variables |-> Zeros]
    /\ shown = [v \in Variables |-> Zeros]
    /\ edits = 0 /\ polls = 0

\* Every variable keeps its type; the loopback driver's permits never go below
\* zero.
TypeOK ==
    /\ PathTypeOK /\ TableTypeOK /\ LoopTypeOK /\ RemoteTypeOK
    /\ driver \in {"bus", "loopback"} /\ remote \in BOOLEAN
    /\ listed \subseteq Variables
    /\ display \in [Variables -> Data] /\ shown \in [Variables -> Data]
    /\ edits \in 0..MaxEdits /\ polls \in 0..MaxPolls

-----------------------------------------------------------------------------
(* The manager where the interface is.                                      *)
\* The timers go on when what they asked for before is answered.
Waiting == IF driver = "loopback" THEN permits + owed ELSE Len(arrivals)
Quiet   == Len(queue) + Waiting + Len(down) < Capacity

\* requestVariable(), from the round robin of the scheduler.
Request(v) ==
    /\ v \in listed /\ Quiet
    /\ Push(Read(v))
    /\ UNCHANGED <<table, arrivals, tableVars, loopVars, remoteVars, setting,
                   viewVars>>

\* sendAliveRequest().
PollAlive ==
    /\ Quiet /\ polls < MaxPolls
    /\ Push(Event("alive"))
    /\ polls' = polls + 1
    /\ UNCHANGED <<table, arrivals, tableVars, loopVars, remoteVars, setting,
                   display, shown, edits>>

\* processCANMessage(): answers and the writes of others are taken as values.
\* A mutant keeps a value that has been set.
KeepSetMutant(values, m) ==
    IF m.kind \in {"answer", "write"} /\ values[m.var] = Zeros
       THEN [values EXCEPT ![m.var] = m.data] ELSE values

Updated(values, m) ==
    IF m.kind \in {"answer", "write"} THEN [values EXCEPT ![m.var] = m.data]
    ELSE values

\* A received message goes to the manager and to the remote server.
Deliver ==
    /\ arrivals # <<>>
    /\ IF driver = "loopback" THEN Acquire ELSE UNCHANGED loopVars
    /\ arrivals' = Tail(arrivals)
    /\ display' = Updated(display, Head(arrivals))
    /\ ToClients(Head(arrivals))
    /\ UNCHANGED <<table, queue, tableVars, setting, shown, edits, polls>>

-----------------------------------------------------------------------------
(* The user.  setUserValue() stores the value and has it written once.      *)
Enter(v, shows, writes) ==
    /\ v \in listed /\ edits < MaxEdits
    /\ edits' = edits + 1
    /\ IF remote
          THEN /\ shown' = [shown EXCEPT ![v] = shows]
               /\ ToServer(Write(v, writes))
               /\ UNCHANGED <<display, queue>>
          ELSE /\ display' = [display EXCEPT ![v] = shows]
               /\ Push(Write(v, writes))
               /\ UNCHANGED <<shown, remoteVars>>
    /\ UNCHANGED <<table, arrivals, tableVars, loopVars, setting, polls>>

EnterNumber(v) == Enter(v, BytesOf(edits + 1), BytesOf(edits + 1))
EnterText(v)   == Enter(v, Text, Zeros)

\* The variables in the order of the configuration.
Listed ==
    CHOOSE list \in [1..Cardinality(listed) -> listed] :
        \A v \in listed : \E n \in DOMAIN list : list[n] = v

\* loadConfiguration() of the view, at the interface: the variables come back
\* with the values of the file, or none, and "to get the internal value written
\* to the bus" (ModuleConfigurationView.cpp:255) each is written.
LoadConfiguration ==
    /\ ~remote /\ edits < MaxEdits
    /\ edits' = edits + 1
    /\ \E saved \in SUBSET listed :
          display' = [v \in Variables |->
                         IF v \in saved THEN BytesOf(edits + 1) ELSE Zeros]
    /\ queue' = queue \o [n \in DOMAIN Listed |->
                             Write(Listed[n], display'[Listed[n]])]
    /\ UNCHANGED <<table, arrivals, tableVars, loopVars, remoteVars, setting,
                   shown, polls>>

-----------------------------------------------------------------------------
(* The two ends of the connection.                                          *)
ClientTakes ==
    /\ ClientReads
    /\ shown' = Updated(shown, down[1].msg)
    /\ UNCHANGED <<table, pathVars, tableVars, loopVars, setting,
                   display, edits, polls>>

\* The server has every message it reads sent on every interface.
ServerTakes ==
    /\ ServerReads
    /\ Push(up[1].msg)
    /\ UNCHANGED <<table, arrivals, tableVars, loopVars, setting, viewVars>>

NetStep ==
    /\ DownArrives \/ UpArrives \/ Disconnect
    /\ UNCHANGED <<table, pathVars, tableVars, loopVars, setting, viewVars>>

-----------------------------------------------------------------------------
BusStep(step) ==
    /\ driver = "bus" /\ step
    /\ UNCHANGED <<loopVars, remoteVars, setting, viewVars>>

LoopbackStep(step) ==
    /\ driver = "loopback" /\ step
    /\ UNCHANGED <<tableVars, remoteVars, setting, viewVars>>

\* timeout() of the loopback driver, every 50 ms: the sines, under the mutex.
Sine(v, value) ==
    /\ driver = "loopback"
    /\ updates < MaxUpdates
    /\ table' = [table EXCEPT ![v] = BytesOf(value)]
    /\ updates' = updates + 1
    /\ UNCHANGED <<pathVars, ph, held, copied, loopVars, remoteVars, setting,
                   viewVars>>

Next ==
    \/ \E v \in Variables : Request(v) \/ EnterNumber(v) \/ EnterText(v)
    \/ PollAlive \/ Deliver \/ LoadConfiguration
    \/ ClientTakes \/ ServerTakes \/ NetStep
    \/ BusStep(TableNext)
    \/ LoopbackStep(LoopStep)
    \/ \E v \in Ram, value \in Computed : Sine(v, value)

Spec == Init /\ [][Next]_vars

\* The main loop of the module, the send and receive threads, the round robin,
\* and TCP.  The path loses some messages about a variable, not all of them.
Fairness ==
    /\ \A v \in Readable :
          /\ SF_vars(Request(v))
          /\ SF_vars(BusStep(ReceiveRead) /\ Head(queue).var = v)
          /\ SF_vars(Deliver /\ Head(arrivals).var = v)
    /\ WF_vars(Deliver)
    /\ WF_vars(BusStep(TableStep)) /\ WF_vars(LoopbackStep(LoopStep))
    /\ WF_vars(ClientTakes) /\ WF_vars(ServerTakes)
    /\ WF_vars(NetStep /\ connected')

FairSpec == Spec /\ Fairness

-----------------------------------------------------------------------------
\* Nobody sees a value half written: the bytes that are sent, shown or stored
\* are those of one value, but for the variable whose copy is under way, with
\* interrupts off (NETV16_Common.c:264, 333).
NoTornValue ==
    /\ \A n \in 1..Len(queue) : Whole(queue[n].data)
    /\ \A n \in 1..Len(arrivals) : Whole(arrivals[n].data)
    /\ \A n \in 1..Len(down) : Whole(down[n].msg.data)
    /\ \A n \in 1..Len(up) : Whole(up[n].msg.data)
    /\ \A v \in Variables : Whole(display[v]) /\ Whole(shown[v])
    /\ \A v \in Readable : Whole(table[v]) \/ (ph = "copy" /\ held.var = v)

\* A permit of the loopback driver stands for a message in its list, which
\* recvMessage takes without a test (Loopback.cpp:207); those without a permit
\* are the ones of the alive requests, which are never made up for.
LoopbackBacked ==
    driver = "loopback" =>
        /\ permits + owed <= Len(arrivals)
        /\ Len(arrivals) <= permits + owed + Modules * polls

\* However the bytes arrive, a reader of the connection is at the start of a
\* message and what follows are whole messages (NETVDevice.h:152): a reader
\* that starts in the middle of one takes the rest for another.
RemoteInSync == InSync(down) /\ InSync(up)

\* Two writes of numbers to one variable: the first is no later edit.
NotNewer(m, n) ==
    /\ m.kind = "write" /\ n.kind = "write" /\ m.var = n.var
    /\ m.data # Zeros /\ n.data # Zeros
    => m.data[1] <= n.data[1]

\* The numbers the user enters reach the module in the order of the edits,
\* through the connection, the console and the handler's list: an older one
\* is never written after a newer.
EditsInOrder ==
    /\ \A i, j \in 1..Len(queue) : i < j => NotNewer(queue[i], queue[j])
    /\ \A i, j \in 1..Len(up) : i < j => NotNewer(up[i].msg, up[j].msg)
    /\ \A i \in 1..Len(queue), j \in 1..Len(up) : NotNewer(queue[i], up[j].msg)
    /\ ph = "copy" =>
          /\ \A i \in 1..Len(queue) : NotNewer(held, queue[i])
          /\ \A j \in 1..Len(up) : NotNewer(held, up[j].msg)

\* In the end both viewers show what the module has, whatever is lost and
\* whichever answers were on their way when the user entered a value: the
\* value asked for next puts it right (NETVInterfaceManager.cpp:279).
AgreesEventually ==
    \A v \in Readable :
        /\ <>[](v \in listed => display[v] = table[v])
        /\ <>[](v \in listed /\ connected => shown[v] = table[v])

=============================================================================
