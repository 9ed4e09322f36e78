----------------------------- MODULE RemoteLink -----------------------------
(***************************************************************************)
(* A TCP connection between the remote server of the console               *)
(* (core/src/NETVRemoteServer.cpp) and the remote client of a viewer       *)
(* (NETVRemoteClient.cpp, drivers/TcpRemoteClient): messages are           *)
(* serialised (NETVDevice.h) to a stream whose bytes arrive in any number  *)
(* at a time.                                                              *)
(***************************************************************************)
EXTENDS DataFlow

CONSTANTS
    HeaderParts,    \* parts of a header that arrive separately, 28 bytes
    EventParts      \* parts of the data of an event, a variable's has one

ASSUME RemoteAssumption ==
    HeaderParts \in Nat \ {0} /\ EventParts \in Nat \ {0}

VARIABLES
    connected,  \* the socket is connected and in m_socketList
    down,       \* parts on their way to the viewer
    downRead,   \* those that have arrived, bytesAvailable()
    up,         \* parts on their way to the console
    upRead

remoteVars == <<connected, down, downRead, up, upRead>>

\* The data of a variable is shorter than the eight bytes of an event.
Parts(m) ==
    HeaderParts + (IF m.kind \in {"read", "write", "answer"} THEN 1 ELSE EventParts)

Part == [msg : Message, part : Nat]

RemoteInit(remote) ==
    /\ connected = remote
    /\ down = <<>> /\ downRead = 0
    /\ up = <<>> /\ upRead = 0

RemoteTypeOK ==
    /\ connected \in BOOLEAN
    /\ down \in Seq(Part) /\ downRead \in 0..Len(down)
    /\ up \in Seq(Part) /\ upRead \in 0..Len(up)

-----------------------------------------------------------------------------
\* serialize(): the header, then the data.
Serialize(m) == [p \in 1..Parts(m) |-> [msg |-> m, part |-> p]]

\* unserialize() on a socket's bytes available: the name at the start of a
\* header, the whole header and the data it announces, or nothing is taken;
\* a mutant that takes the header before it looks for the data.
HeaderOnlyMutant(stream, read) ==
    read >= HeaderParts /\ stream[1].part = 1

Complete(stream, read) ==
    /\ read >= HeaderParts /\ stream[1].part = 1
    /\ read >= Parts(stream[1].msg)

Rest(stream, n) == SubSeq(stream, n + 1, Len(stream))

\* The bytes a read takes off a stream.
Least(a, b) == IF a < b THEN a ELSE b
Consumed(stream, read) == Least(read, Parts(stream[1].msg))

-----------------------------------------------------------------------------
\* event() of the server: a message goes to every socket in the list.
ToClients(m) ==
    /\ down' = IF connected THEN down \o Serialize(m) ELSE down
    /\ UNCHANGED <<connected, downRead, up, upRead>>

\* TcpRemoteClient::sendMessage forwards writes and answers NETVDEVICE_OK for
\* what it discards; unconnected it fails.
ToServer(m) ==
    /\ up' = IF connected /\ m.kind = "write" THEN up \o Serialize(m) ELSE up
    /\ UNCHANGED <<connected, down, downRead, upRead>>

\* The network delivers in order, any number of bytes at a time.
DownArrives ==
    /\ downRead < Len(down)
    /\ downRead' = downRead + 1
    /\ UNCHANGED <<connected, down, up, upRead>>

UpArrives ==
    /\ upRead < Len(up)
    /\ upRead' = upRead + 1
    /\ UNCHANGED <<connected, down, downRead, up>>

\* readyReadSocket() of the client and of the server: one message, taken as
\* soon as its last byte is there.
ClientReads ==
    /\ down # <<>> /\ Complete(down, downRead)
    /\ down' = Rest(down, Consumed(down, downRead))
    /\ downRead' = downRead - Consumed(down, downRead)
    /\ UNCHANGED <<connected, up, upRead>>

ServerReads ==
    /\ up # <<>> /\ Complete(up, upRead)
    /\ up' = Rest(up, Consumed(up, upRead))
    /\ upRead' = upRead - Consumed(up, upRead)
    /\ UNCHANGED <<connected, down, downRead>>

\* socketDisconnected(): the socket leaves the list, what it held is gone.
Disconnect ==
    /\ connected
    /\ connected' = FALSE
    /\ down' = <<>> /\ downRead' = 0
    /\ up' = <<>> /\ upRead' = 0

-----------------------------------------------------------------------------
\* A stream is made of whole messages, the first of them at its start.
InSync(stream) ==
    \A i \in 1..Len(stream) :
        /\ stream[i].part \in 1..Parts(stream[i].msg)
        /\ \A p \in 1..Parts(stream[i].msg) :
              LET j == i + p - stream[i].part
              IN  /\ j \in 1..Len(stream)
                  /\ stream[j] = [msg |-> stream[i].msg, part |-> p]

=============================================================================
