------------------------ MODULE VariableValues_proofs ------------------------
(***************************************************************************)
(* Theorems of VariableValues: for any variables, sizes and deployments,   *)
(* no value is seen half written, the loopback driver's permits are backed *)
(* by messages, and both ends of a connection read whole messages.         *)
(***************************************************************************)
EXTENDS VariableValues, SequenceTheorems, FiniteSetTheorems, TLAPS

USE DEF Variables, Readable, Writable

\* Values that are not torn, and what carries them.
WholeData    == {d \in Data : Whole(d)}
WholeMessage == [kind : Kinds, var : Variables \cup {NoVariable}, data : WholeData]
WholePart    == [msg : WholeMessage, part : Nat]

\* The paths, the connection and the viewers carry whole values only.
PathsWhole ==
    /\ queue \in Seq(WholeMessage) /\ arrivals \in Seq(WholeMessage)
    /\ LoopTypeOK

RemoteWhole ==
    /\ connected \in BOOLEAN
    /\ down \in Seq(WholePart) /\ downRead \in 0..Len(down)
    /\ up \in Seq(WholePart) /\ upRead \in 0..Len(up)

ViewsWhole ==
    /\ driver \in {"bus", "loopback"} /\ remote \in BOOLEAN
    /\ listed \subseteq Variables
    /\ display \in [Variables -> WholeData] /\ shown \in [Variables -> WholeData]
    /\ edits \in 0..MaxEdits /\ polls \in 0..MaxPolls

\* While the module copies, what has been copied agrees with where it comes
\* from; at any other time the message it holds and its table are whole.
CopyInv ==
    /\ held.kind \in {"read", "write"} /\ held.var \in Readable
    /\ copied < Size
    /\ \A b \in 1..copied : held.data[b] = table[held.var][b]
    /\ held.kind = "read"  => Whole(table[held.var])
    /\ held.kind = "write" => Whole(held.data)

MemoryInv ==
    /\ table \in [Readable -> Data]
    /\ TableTypeOK
    /\ ph = "copy" => CopyInv
    /\ ph # "copy" => copied = 0 /\ Whole(held.data)
    /\ \A v \in Readable : Whole(table[v]) \/ (ph = "copy" /\ held.var = v)
    /\ driver = "loopback" => ph = "receive"

Inv == PathsWhole /\ RemoteWhole /\ ViewsWhole /\ MemoryInv

-----------------------------------------------------------------------------
\* The bytes of one value are whole.
LEMMA WholeValues ==
    /\ \A value \in Nat : BytesOf(value) \in WholeData
    /\ Zeros \in WholeData /\ Text \in WholeData
    /\ \A v : Factory(v) \in WholeData
<1>1. ASSUME NEW value \in Nat PROVE BytesOf(value) \in WholeData
  BY DEF BytesOf, WholeData, Data, Whole
<1>2. 0 \in Nat /\ 1 \in Nat /\ MaxEdits + 1 \in Nat
  BY ValuesAssumption
<1> QED BY <1>1, <1>2 DEF Zeros, Text, Factory

\* So are the messages that carry them.
LEMMA WholeMessages ==
    /\ \A v \in Variables : Read(v) \in WholeMessage
    /\ \A v \in Variables, d \in WholeData :
          Write(v, d) \in WholeMessage /\ Answer(v, d) \in WholeMessage
    /\ \A kind \in Kinds : Event(kind) \in WholeMessage
    /\ Nothing \in WholeMessage
BY WholeValues DEF WholeMessage, Read, Write, Answer, Event, Nothing, Kinds

\* A whole message is a message.
LEMMA WholeIsMessage ==
    /\ WholeMessage \subseteq Message /\ WholePart \subseteq Part
    /\ \A m \in WholeMessage : Whole(m.data) /\ m.data \in WholeData
BY DEF WholeMessage, Message, WholePart, Part, WholeData

\* The configured variables can be put in an order.
LEMMA ListedType ==
    ASSUME listed \subseteq Variables
    PROVE  /\ Cardinality(listed) \in Nat
           /\ Listed \in [1..Cardinality(listed) -> listed]
<1>1. IsFiniteSet(listed)
  BY FS_Subset, DataFlowAssumption
<1>2. /\ Cardinality(listed) \in Nat
      /\ ExistsBijection(1..Cardinality(listed), listed)
  BY <1>1, FS_CardinalityType
<1>3. PICK list \in [1..Cardinality(listed) -> listed] :
          \A v \in listed : \E n \in 1..Cardinality(listed) : list[n] = v
  BY <1>2 DEF ExistsBijection, Bijection, Injection, Surjection
<1>4. \A v \in listed : \E n \in DOMAIN list : list[n] = v
  BY <1>3
<1> QED BY <1>2, <1>3, <1>4 DEF Listed

\* A serialised message is a sequence of its parts.
LEMMA SerializeType ==
    ASSUME NEW m \in WholeMessage
    PROVE  /\ Parts(m) \in Nat \ {0} /\ Parts(m) >= HeaderParts
           /\ Serialize(m) \in Seq(WholePart) /\ Len(Serialize(m)) = Parts(m)
           /\ \A p \in 1..Parts(m) : Serialize(m)[p] = [msg |-> m, part |-> p]
<1>1. Parts(m) \in Nat \ {0} /\ Parts(m) >= HeaderParts
  BY RemoteAssumption DEF Parts
<1>2. \A p \in 1..Parts(m) : [msg |-> m, part |-> p] \in WholePart
  BY <1>1 DEF WholePart
<1>3. Serialize(m) \in Seq(WholePart)
  <2>1. Serialize(m) \in [1..Parts(m) -> WholePart]
    BY <1>2 DEF Serialize
  <2> QED BY <1>1, <2>1, SeqDef
<1>4. DOMAIN Serialize(m) = 1..Parts(m)
  BY DEF Serialize
<1>5. Len(Serialize(m)) = Parts(m)
  BY <1>1, <1>3, <1>4, LenProperties
<1> QED BY <1>1, <1>3, <1>5 DEF Serialize

\* A message pushed or taken leaves whole messages.
LEMMA PathsKept ==
    ASSUME PathsWhole
    PROVE  /\ \A m \in WholeMessage :
                 Append(queue, m) \in Seq(WholeMessage)
                 /\ Append(arrivals, m) \in Seq(WholeMessage)
           /\ queue # <<>> => Head(queue) \in WholeMessage
                              /\ Tail(queue) \in Seq(WholeMessage)
           /\ arrivals # <<>> => Head(arrivals) \in WholeMessage
                                 /\ Tail(arrivals) \in Seq(WholeMessage)
BY AppendProperties, HeadTailProperties DEF PathsWhole

\* A value taken from a whole message is whole.
LEMMA UpdatedType ==
    ASSUME NEW values \in [Variables -> WholeData], NEW m \in WholeMessage
    PROVE  Updated(values, m) \in [Variables -> WholeData]
<1>1. m.data \in WholeData
  BY DEF WholeMessage
<1> QED BY <1>1 DEF Updated

\* What does not touch the memories of the module keeps what is said of them.
LEMMA MemoryKept ==
    ASSUME MemoryInv, UNCHANGED <<table, tableVars, driver>>
    PROVE  MemoryInv'
BY DEF MemoryInv, tableVars, CopyInv, TableTypeOK

\* The same of the connection and of the viewers.
LEMMA OthersKept ==
    /\ RemoteWhole /\ UNCHANGED remoteVars => RemoteWhole'
    /\ ViewsWhole /\ UNCHANGED <<setting, viewVars>> => ViewsWhole'
BY DEF RemoteWhole, remoteVars, ViewsWhole, setting, viewVars

\* Appending to or taking from a stream leaves whole parts of it.
LEMMA StreamsKept ==
    ASSUME NEW stream \in Seq(WholePart), NEW read \in 0..Len(stream)
    PROVE  /\ \A m \in WholeMessage :
                 /\ stream \o Serialize(m) \in Seq(WholePart)
                 /\ read \in 0..Len(stream \o Serialize(m))
           /\ Complete(stream, read) =>
                 /\ stream[1].msg \in WholeMessage
                 /\ Rest(stream, Consumed(stream, read)) \in Seq(WholePart)
                 /\ read - Consumed(stream, read)
                       \in 0..Len(Rest(stream, Consumed(stream, read)))
                 /\ Consumed(stream, read) = Parts(stream[1].msg)
                 /\ Len(Rest(stream, Consumed(stream, read)))
                       = Len(stream) - Parts(stream[1].msg)
                 /\ \A i \in 1..(Len(stream) - Parts(stream[1].msg)) :
                       Rest(stream, Consumed(stream, read))[i]
                          = stream[i + Parts(stream[1].msg)]
<1>1. Len(stream) \in Nat /\ \A i \in 1..Len(stream) : stream[i] \in WholePart
  BY LenProperties, ElementOfSeq
<1>2. ASSUME NEW m \in WholeMessage
      PROVE  /\ stream \o Serialize(m) \in Seq(WholePart)
             /\ read \in 0..Len(stream \o Serialize(m))
  BY <1>1, SerializeType, ConcatProperties
<1>3. ASSUME Complete(stream, read)
      PROVE  /\ stream[1].msg \in WholeMessage
             /\ Parts(stream[1].msg) \in Nat \ {0}
             /\ Consumed(stream, read) = Parts(stream[1].msg)
             /\ Parts(stream[1].msg) <= read
  <2>1. 1 \in 1..Len(stream)
    BY <1>1, <1>3, RemoteAssumption DEF Complete
  <2>2. stream[1].msg \in WholeMessage
    BY <1>1, <2>1 DEF WholePart
  <2>3. Parts(stream[1].msg) \in Nat \ {0} /\ Parts(stream[1].msg) <= read
    BY <1>3, <2>2, SerializeType DEF Complete
  <2> QED BY <2>2, <2>3, <1>1 DEF Consumed, Least
<1>4. ASSUME Complete(stream, read), NEW n \in Nat, n <= Len(stream)
      PROVE  /\ Rest(stream, n) \in Seq(WholePart)
             /\ Len(Rest(stream, n)) = Len(stream) - n
             /\ \A i \in 1..(Len(stream) - n) : Rest(stream, n)[i] = stream[i + n]
  <2>1. \A i \in (n + 1)..Len(stream) : stream[i] \in WholePart
    BY <1>1
  <2>2. /\ Rest(stream, n) \in Seq(WholePart)
        /\ Len(Rest(stream, n))
              = IF n + 1 <= Len(stream) THEN Len(stream) - (n + 1) + 1 ELSE 0
        /\ \A i \in 1..(Len(stream) - (n + 1) + 1) :
              Rest(stream, n)[i] = stream[n + 1 + i - 1]
    BY <1>1, <2>1, SubSeqProperties DEF Rest
  <2> QED BY <1>1, <1>4, <2>2
<1>5. ASSUME Complete(stream, read)
      PROVE  LET n == Parts(stream[1].msg) IN
             /\ Rest(stream, n) \in Seq(WholePart)
             /\ Len(Rest(stream, n)) = Len(stream) - n
             /\ read - n \in 0..(Len(stream) - n)
             /\ \A i \in 1..(Len(stream) - n) : Rest(stream, n)[i] = stream[i + n]
  <2> DEFINE n == Parts(stream[1].msg)
  <2> HIDE DEF n
  <2>1. n \in Nat /\ n <= read /\ n <= Len(stream)
    BY <1>1, <1>3, <1>5 DEF n
  <2>2. /\ Rest(stream, n) \in Seq(WholePart)
        /\ Len(Rest(stream, n)) = Len(stream) - n
        /\ \A i \in 1..(Len(stream) - n) : Rest(stream, n)[i] = stream[i + n]
    BY <2>1, <1>4, <1>5
  <2>3. read - n \in 0..(Len(stream) - n)
    BY <2>1, <1>1
  <2> QED BY <2>2, <2>3 DEF n
<1> QED BY <1>2, <1>3, <1>5

-----------------------------------------------------------------------------
\* The program starts with nothing on its way and whole values.
LEMMA InitInv == Init => Inv
<1> SUFFICES ASSUME Init PROVE Inv
  OBVIOUS
<1>1. PathsWhole
  BY EmptySeq DEF Init, PathInit, LoopInit, PathsWhole, LoopTypeOK
<1>2. RemoteWhole
  <2>1. remote \in BOOLEAN
    BY ValuesAssumption DEF Init
  <2> QED BY <2>1, EmptySeq DEF Init, RemoteInit, RemoteWhole
<1>3. ViewsWhole
  <2>1. display \in [Variables -> WholeData] /\ shown \in [Variables -> WholeData]
    BY WholeValues DEF Init
  <2> QED BY <2>1, ValuesAssumption DEF Init, ViewsWhole
<1>4. MemoryInv
  <2>1. Nothing \in Message /\ Whole(Nothing.data)
    BY WholeMessages, WholeIsMessage
  <2>2. \A v \in Readable : Factory(v) \in Data /\ Whole(Factory(v))
    BY WholeValues DEF WholeData
  <2>3. table \in [Readable -> Data] /\ \A v \in Readable : table[v] = Factory(v)
    BY <2>2 DEF Init, PathInit
  <2>4. TableTypeOK
    BY <2>1, DataFlowAssumption, TableAssumption DEF Init, TableInit, TableTypeOK
  <2> QED BY <2>1, <2>2, <2>3, <2>4 DEF Init, TableInit, MemoryInv
<1> QED BY <1>1, <1>2, <1>3, <1>4 DEF Inv

\* A message the timers or the user push: the manager's steps.
LEMMA RequestInv == ASSUME Inv, NEW v \in Variables, Request(v) PROVE Inv'
<1>1. PathsWhole'
  BY PathsKept, WholeMessages DEF Inv, PathsWhole, Request, Push, loopVars, LoopTypeOK
<1>2. RemoteWhole' /\ ViewsWhole'
  BY OthersKept DEF Inv, Request
<1>3. MemoryInv'
  BY MemoryKept DEF Inv, Request, setting
<1> QED BY <1>1, <1>2, <1>3 DEF Inv

LEMMA PollAliveInv == ASSUME Inv, PollAlive PROVE Inv'
<1>1. PathsWhole'
  BY PathsKept, WholeMessages
  DEF Inv, PathsWhole, PollAlive, Push, loopVars, LoopTypeOK, Kinds
<1>2. RemoteWhole'
  BY OthersKept DEF Inv, PollAlive
<1>3. ViewsWhole'
  BY ValuesAssumption DEF Inv, ViewsWhole, PollAlive, setting
<1>4. MemoryInv'
  BY MemoryKept DEF Inv, PollAlive, setting
<1> QED BY <1>1, <1>2, <1>3, <1>4 DEF Inv

LEMMA DeliverInv == ASSUME Inv, Deliver PROVE Inv'
<1>1. Head(arrivals) \in WholeMessage /\ Tail(arrivals) \in Seq(WholeMessage)
  BY PathsKept DEF Inv, Deliver
<1>2. PathsWhole'
  <2>1. permits' \in Nat /\ owed' \in Nat
    BY DEF Inv, PathsWhole, LoopTypeOK, Deliver, Acquire, loopVars
  <2> QED BY <1>1, <2>1 DEF Inv, PathsWhole, Deliver, LoopTypeOK
<1>3. RemoteWhole'
  BY <1>1, StreamsKept DEF Inv, RemoteWhole, Deliver, ToClients
<1>4. ViewsWhole'
  BY <1>1, UpdatedType DEF Inv, ViewsWhole, Deliver, setting
<1>5. MemoryInv'
  BY MemoryKept DEF Inv, Deliver, setting
<1> QED BY <1>2, <1>3, <1>4, <1>5 DEF Inv

\* What the user enters is one value, in each of its bytes.
LEMMA EnterInv ==
    ASSUME Inv, NEW v \in Variables,
           NEW shows \in WholeData, NEW writes \in WholeData, Enter(v, shows, writes)
    PROVE  Inv'
<1>1. Write(v, writes) \in WholeMessage
  BY WholeMessages
<1>2. PathsWhole'
  <2>1. queue' \in Seq(WholeMessage)
    BY <1>1, PathsKept DEF Inv, PathsWhole, Enter, Push
  <2> QED BY <2>1 DEF Inv, PathsWhole, Enter, loopVars, LoopTypeOK
<1>3. RemoteWhole'
  BY <1>1, StreamsKept, OthersKept DEF Inv, RemoteWhole, Enter, ToServer
<1>4. ViewsWhole'
  <2>1. edits' \in 0..MaxEdits
    BY ValuesAssumption DEF Inv, ViewsWhole, Enter
  <2>2. /\ display' \in [Variables -> WholeData]
        /\ shown' \in [Variables -> WholeData]
    BY DEF Inv, ViewsWhole, Enter
  <2> QED BY <2>1, <2>2 DEF Inv, ViewsWhole, Enter, setting
<1>5. MemoryInv'
  BY MemoryKept DEF Inv, Enter, setting
<1> QED BY <1>2, <1>3, <1>4, <1>5 DEF Inv

LEMMA LoadInv == ASSUME Inv, LoadConfiguration PROVE Inv'
<1>1. /\ Cardinality(listed) \in Nat
      /\ Listed \in [1..Cardinality(listed) -> listed]
  BY ListedType DEF Inv, ViewsWhole
<1>2. display' \in [Variables -> WholeData] /\ edits' \in 0..MaxEdits
  <2>1. edits \in 0..MaxEdits /\ edits < MaxEdits /\ edits' = edits + 1
    BY DEF Inv, ViewsWhole, LoadConfiguration
  <2>2. BytesOf(edits + 1) \in WholeData /\ Zeros \in WholeData
    BY <2>1, WholeValues
  <2>3. PICK saved \in SUBSET listed :
           display' = [v \in Variables |->
                         IF v \in saved THEN BytesOf(edits + 1) ELSE Zeros]
    BY DEF LoadConfiguration
  <2> QED BY <2>1, <2>2, <2>3, ValuesAssumption
<1>3. [n \in DOMAIN Listed |-> Write(Listed[n], display'[Listed[n]])]
         \in Seq(WholeMessage)
  <2>1. DOMAIN Listed = 1..Cardinality(listed)
    BY <1>1
  <2>2. \A n \in 1..Cardinality(listed) :
           Write(Listed[n], display'[Listed[n]]) \in WholeMessage
    <3>1. \A n \in 1..Cardinality(listed) : Listed[n] \in Variables
      BY <1>1 DEF Inv, ViewsWhole
    <3> QED BY <3>1, <1>2, WholeMessages
  <2>3. [n \in DOMAIN Listed |-> Write(Listed[n], display'[Listed[n]])]
           \in [1..Cardinality(listed) -> WholeMessage]
    BY <2>1, <2>2
  <2> QED BY <1>1, <2>3, SeqDef
<1>4. PathsWhole'
  <2>1. queue' \in Seq(WholeMessage)
    BY <1>3, ConcatProperties DEF Inv, PathsWhole, LoadConfiguration
  <2> QED BY <2>1 DEF Inv, PathsWhole, LoadConfiguration, loopVars, LoopTypeOK
<1>5. RemoteWhole'
  BY OthersKept DEF Inv, LoadConfiguration
<1>6. ViewsWhole'
  BY <1>2 DEF Inv, ViewsWhole, LoadConfiguration, setting
<1>7. MemoryInv'
  BY MemoryKept DEF Inv, LoadConfiguration, setting
<1> QED BY <1>4, <1>5, <1>6, <1>7 DEF Inv

\* The two ends of the connection.
LEMMA ClientTakesInv == ASSUME Inv, ClientTakes PROVE Inv'
<1>1. PathsWhole'
  BY DEF Inv, PathsWhole, ClientTakes, pathVars, loopVars, LoopTypeOK
<1>2. Complete(down, downRead) /\ down[1].msg \in WholeMessage
  BY StreamsKept DEF Inv, RemoteWhole, ClientTakes, ClientReads
<1>3. RemoteWhole'
  BY <1>2, StreamsKept DEF Inv, RemoteWhole, ClientTakes, ClientReads
<1>4. ViewsWhole'
  BY <1>2, UpdatedType DEF Inv, ViewsWhole, ClientTakes, setting
<1>5. MemoryInv'
  BY MemoryKept DEF Inv, ClientTakes, setting
<1> QED BY <1>1, <1>3, <1>4, <1>5 DEF Inv

LEMMA ServerTakesInv == ASSUME Inv, ServerTakes PROVE Inv'
<1>1. Complete(up, upRead) /\ up[1].msg \in WholeMessage
  BY StreamsKept DEF Inv, RemoteWhole, ServerTakes, ServerReads
<1>2. PathsWhole'
  <2>1. queue' \in Seq(WholeMessage)
    BY <1>1, PathsKept DEF Inv, ServerTakes, Push
  <2> QED BY <2>1 DEF Inv, PathsWhole, ServerTakes, loopVars, LoopTypeOK
<1>3. RemoteWhole'
  BY <1>1, StreamsKept DEF Inv, RemoteWhole, ServerTakes, ServerReads
<1>4. ViewsWhole'
  BY OthersKept DEF Inv, ServerTakes
<1>5. MemoryInv'
  BY MemoryKept DEF Inv, ServerTakes, setting
<1> QED BY <1>2, <1>3, <1>4, <1>5 DEF Inv

LEMMA NetStepInv == ASSUME Inv, NetStep PROVE Inv'
<1>1. PathsWhole'
  BY DEF Inv, PathsWhole, NetStep, pathVars, loopVars, LoopTypeOK
<1>2. RemoteWhole'
  <2>1. Len(down) \in Nat /\ Len(up) \in Nat
    BY LenProperties DEF Inv, RemoteWhole
  <2>2. CASE DownArrives
    BY <2>1, <2>2 DEF Inv, RemoteWhole, DownArrives
  <2>3. CASE UpArrives
    BY <2>1, <2>3 DEF Inv, RemoteWhole, UpArrives
  <2>4. CASE Disconnect
    <3>1. <<>> \in Seq(WholePart) /\ Len(<<>>) = 0 /\ 0 \in 0..0
      BY EmptySeq
    <3> QED BY <2>4, <3>1 DEF RemoteWhole, Disconnect
  <2> QED BY <2>2, <2>3, <2>4 DEF NetStep
<1>3. ViewsWhole'
  BY OthersKept DEF Inv, NetStep
<1>4. MemoryInv'
  BY MemoryKept DEF Inv, NetStep, setting
<1> QED BY <1>1, <1>2, <1>3, <1>4 DEF Inv

\* Every step of the module sends whole messages: what it sends is what it
\* holds when it has copied all of it.
LEMMA BusPathsInv == ASSUME Inv, BusStep(TableNext) PROVE PathsWhole'
<1>1. LoopTypeOK' /\ UNCHANGED loopVars
  BY DEF Inv, PathsWhole, BusStep, loopVars, LoopTypeOK
<1>2. TableNext
  BY DEF BusStep
<1>3. CASE SendImAlive
  BY <1>1, <1>3, PathsKept, WholeMessages
  DEF Inv, PathsWhole, SendImAlive, Receive, Kinds
<1>4. CASE ReceiveRead \/ ReceiveWrite \/ LoseRequest
  BY <1>1, <1>4, PathsKept
  DEF Inv, PathsWhole, ReceiveRead, ReceiveWrite, LoseRequest, Receive
<1>5. CASE CopyByte \/ \E v \in Ram, value \in Computed : Interrupt(v, value)
  BY <1>1, <1>5 DEF Inv, PathsWhole, CopyByte, Interrupt, pathVars
<1>6. CASE SendAnswer
  <2>1. Answer(held.var, held.data) \in WholeMessage
    BY <1>6
    DEF Inv, MemoryInv, TableTypeOK, SendAnswer, Message, WholeMessage, WholeData,
        Answer, Kinds
  <2> QED BY <1>1, <1>6, <2>1, PathsKept DEF Inv, PathsWhole, SendAnswer
<1>7. CASE LoseAnswer
  BY <1>1, <1>7, PathsKept DEF Inv, PathsWhole, LoseAnswer
<1> QED BY <1>2, <1>3, <1>4, <1>5, <1>6, <1>7 DEF TableNext, TableStep

\* One turn of a copying loop, with interrupts off: one byte more agrees.
LEMMA CopyByteInv == ASSUME Inv, BusStep(CopyByte) PROVE MemoryInv'
<1>1. /\ ph = "copy" /\ Copy(copied + 1) /\ updates' = updates
      /\ IF copied + 1 < Size
            THEN copied' = copied + 1 /\ ph' = ph
            ELSE copied' = 0 /\ ph' = IF held.kind = "read" THEN "answer" ELSE "receive"
      /\ driver' = driver /\ driver = "bus"
  BY DEF BusStep, CopyByte, setting
<1>2. /\ table \in [Readable -> Data] /\ TableTypeOK /\ CopyInv
      /\ \A v \in Readable : Whole(table[v]) \/ held.var = v
  BY <1>1 DEF Inv, MemoryInv
<1>3. /\ copied \in Nat /\ copied < Size /\ copied + 1 \in Bytes /\ Size \in Nat
      /\ held.data \in Data /\ held.var \in Readable
      /\ ~(copied + 1 < Size) => copied + 1 = Size
  BY <1>2, DataFlowAssumption DEF TableTypeOK, CopyInv, Message, Bytes
<1>4. CASE held.kind = "read"
  <2>1. /\ held' = [held EXCEPT !.data[copied + 1] = table[held.var][copied + 1]]
        /\ table' = table
    BY <1>1, <1>4 DEF Copy
  <2>2. /\ held' \in Message /\ held'.kind = "read" /\ held'.var = held.var
        /\ \A b \in Bytes :
              held'.data[b] = IF b = copied + 1 THEN table[held.var][b] ELSE held.data[b]
    BY <1>2, <1>3, <1>4, <2>1 DEF TableTypeOK, Message, Data
  <2>3. \A b \in 1..(copied + 1) : held'.data[b] = table[held.var][b]
    BY <1>2, <1>3, <2>2 DEF CopyInv, Bytes
  <2>4. Whole(table[held.var])
    BY <1>2, <1>4 DEF CopyInv
  <2>5. CASE copied + 1 < Size
    <3>1. copied' = copied + 1 /\ ph' = "copy"
      BY <1>1, <2>5
    <3>2. CopyInv'
      BY <1>2, <1>3, <2>1, <2>2, <2>3, <2>4, <2>5, <3>1 DEF CopyInv
    <3>3. TableTypeOK'
      BY <1>1, <1>2, <1>3, <2>2, <3>1 DEF TableTypeOK
    <3> QED BY <1>1, <1>2, <2>1, <2>2, <3>1, <3>2, <3>3
            DEF MemoryInv
  <2>6. CASE ~(copied + 1 < Size)
    <3>1. copied' = 0 /\ ph' = "answer"
      BY <1>1, <1>4, <2>6
    <3>2. \A b \in Bytes : held'.data[b] = table[held.var][b]
      BY <1>3, <2>3, <2>6 DEF Bytes
    <3>3. Whole(held'.data)
      BY <2>4, <3>2 DEF Whole
    <3>4. TableTypeOK'
      BY <1>1, <1>2, <1>3, <2>2, <3>1 DEF TableTypeOK
    <3> QED BY <1>1, <1>2, <2>1, <2>4, <3>1, <3>3, <3>4
            DEF MemoryInv
  <2> QED BY <2>5, <2>6
<1>5. CASE held.kind = "write"
  <2>1. /\ table' = [table EXCEPT ![held.var][copied + 1] = held.data[copied + 1]]
        /\ held' = IF copied + 1 < Size THEN held ELSE Nothing
    BY <1>1, <1>5 DEF Copy
  <2>2. /\ table' \in [Readable -> Data]
        /\ \A v \in Readable : v # held.var => table'[v] = table[v]
        /\ \A b \in Bytes :
              table'[held.var][b] = IF b = copied + 1 THEN held.data[b]
                                                      ELSE table[held.var][b]
    BY <1>2, <1>3, <2>1 DEF Data
  <2>3. \A b \in 1..(copied + 1) : table'[held.var][b] = held.data[b]
    BY <1>2, <1>3, <2>2 DEF CopyInv, Bytes
  <2>4. Whole(held.data)
    BY <1>2, <1>5 DEF CopyInv
  <2>5. CASE copied + 1 < Size
    <3>1. copied' = copied + 1 /\ ph' = "copy" /\ held' = held
      BY <1>1, <2>1, <2>5
    <3>2. CopyInv'
      BY <1>2, <1>3, <1>5, <2>3, <2>4, <2>5, <3>1 DEF CopyInv
    <3>3. TableTypeOK'
      BY <1>1, <1>2, <1>3, <3>1 DEF TableTypeOK
    <3> QED BY <1>1, <1>2, <2>2, <3>1, <3>2, <3>3 DEF MemoryInv
  <2>6. CASE ~(copied + 1 < Size)
    <3>1. copied' = 0 /\ ph' = "receive" /\ held' = Nothing
      BY <1>1, <1>5, <2>1, <2>6
    <3>2. \A b \in Bytes : table'[held.var][b] = held.data[b]
      BY <1>3, <2>3, <2>6 DEF Bytes
    <3>3. Whole(table'[held.var])
      BY <2>4, <3>2 DEF Whole
    <3>4. Nothing \in Message /\ Whole(Nothing.data)
      BY WholeMessages, WholeIsMessage
    <3>5. TableTypeOK'
      BY <1>1, <1>2, <1>3, <3>1, <3>4 DEF TableTypeOK
    <3> QED BY <1>1, <1>2, <2>2, <3>1, <3>3, <3>4, <3>5 DEF MemoryInv
  <2> QED BY <2>5, <2>6
<1> QED BY <1>2, <1>4, <1>5 DEF CopyInv

\* The memory of the module under its other steps, and under the bus.
LEMMA BusMemoryInv == ASSUME Inv, BusStep(TableNext) PROVE MemoryInv'
<1>1. TableNext /\ driver' = driver /\ driver = "bus"
  BY DEF BusStep, setting
<1>2. MemoryInv /\ TableTypeOK /\ Size \in Nat
  BY DataFlowAssumption DEF Inv, MemoryInv
<1>3. queue # <<>> => In \in WholeMessage
  BY PathsKept DEF Inv, In
<1>4. CASE SendImAlive \/ LoseRequest \/ LoseAnswer
  BY <1>1, <1>4, MemoryKept DEF Inv, SendImAlive, LoseRequest, LoseAnswer
<1>5. CASE ReceiveRead
  <2>1. /\ ph = "receive" /\ held' = In /\ In \in WholeMessage /\ In.kind = "read"
        /\ ph' = IF In.var \in Readable THEN "copy" ELSE "answer"
        /\ UNCHANGED <<table, copied, updates>>
    BY <1>3, <1>5 DEF ReceiveRead, Receive
  <2>2. copied = 0 /\ \A v \in Readable : Whole(table[v])
    BY <1>2, <2>1 DEF MemoryInv
  <2>3. held' \in Message /\ Whole(held'.data)
    BY <2>1, WholeIsMessage
  <2>4. ph' = "copy" => CopyInv'
    BY <2>1, <2>2, DataFlowAssumption DEF CopyInv
  <2>5. TableTypeOK'
    BY <1>2, <2>1, <2>3 DEF TableTypeOK
  <2> QED BY <1>1, <1>2, <2>1, <2>2, <2>3, <2>4, <2>5 DEF MemoryInv
<1>6. CASE ReceiveWrite
  <2>1. CASE In.var \in Writable
    <3>1. /\ ph = "receive" /\ held' = In /\ In \in WholeMessage /\ In.kind = "write"
          /\ ph' = "copy" /\ UNCHANGED <<table, copied, updates>>
      BY <1>3, <1>6, <2>1 DEF ReceiveWrite, Receive, MayWrite
    <3>2. copied = 0 /\ \A v \in Readable : Whole(table[v])
      BY <1>2, <3>1 DEF MemoryInv
    <3>3. held' \in Message /\ Whole(held'.data)
      BY <3>1, WholeIsMessage
    <3>4. CopyInv'
      BY <2>1, <3>1, <3>2, <3>3, DataFlowAssumption DEF CopyInv
    <3>5. TableTypeOK'
      BY <1>2, <3>1, <3>3 DEF TableTypeOK
    <3> QED BY <1>1, <1>2, <3>1, <3>2, <3>4, <3>5 DEF MemoryInv
  <2>2. CASE In.var \notin Writable
    BY <1>1, <1>2, <1>6, <2>2, MemoryKept DEF ReceiveWrite, MayWrite, tableVars
  <2> QED BY <2>1, <2>2
<1>7. CASE CopyByte
  BY <1>7, CopyByteInv DEF BusStep
<1>8. CASE SendAnswer
  <2>1. /\ ph = "answer" /\ ph' = "receive" /\ held' = Nothing
        /\ UNCHANGED <<table, copied, updates>>
    BY <1>8 DEF SendAnswer
  <2>2. Nothing \in Message /\ Whole(Nothing.data)
    BY WholeMessages, WholeIsMessage
  <2>3. TableTypeOK'
    BY <1>2, <2>1, <2>2 DEF TableTypeOK
  <2> QED BY <1>1, <1>2, <2>1, <2>2, <2>3 DEF MemoryInv
<1>9. ASSUME NEW v \in Ram, NEW value \in Computed, Interrupt(v, value)
      PROVE  MemoryInv'
  <2>1. /\ table' = [table EXCEPT ![v] = BytesOf(value)]
        /\ updates < MaxUpdates /\ updates' = updates + 1
        /\ UNCHANGED <<ph, held, copied>>
        /\ ph = "copy" => held.var # v
    BY <1>9 DEF Interrupt, InterruptsOn
  <2>2. BytesOf(value) \in Data /\ Whole(BytesOf(value))
    BY WholeValues, TableAssumption DEF WholeData
  <2>3. /\ table' \in [Readable -> Data] /\ Whole(table'[v])
        /\ \A w \in Readable : w # v => table'[w] = table[w]
    BY <1>2, <2>1, <2>2 DEF MemoryInv
  <2>4. TableTypeOK'
    BY <1>2, <2>1, TableAssumption DEF TableTypeOK
  <2>5. ph' = "copy" => CopyInv'
    BY <1>2, <2>1, <2>3 DEF MemoryInv, CopyInv
  <2> QED BY <1>1, <1>2, <2>1, <2>3, <2>4, <2>5 DEF MemoryInv
<1> QED BY <1>1, <1>4, <1>5, <1>6, <1>7, <1>8, <1>9 DEF TableNext, TableStep

\* The virtual modules answer with the whole of a value, and store one.
LEMMA LoopbackInv == ASSUME Inv, LoopbackStep(LoopStep) PROVE Inv'
<1>1. LoopStep /\ driver' = driver /\ driver = "loopback" /\ UNCHANGED tableVars
  BY DEF LoopbackStep, setting
<1>2. RemoteWhole' /\ ViewsWhole'
  BY OthersKept DEF Inv, LoopbackStep
<1>3. permits \in Nat /\ owed \in Nat /\ Modules \in Nat
  BY LoopbackAssumption DEF Inv, PathsWhole, LoopTypeOK
<1>4. queue # <<>> => Msg \in WholeMessage /\ Tail(queue) \in Seq(WholeMessage)
  BY PathsKept DEF Inv, Msg
<1>5. ph = "receive" /\ \A v \in Readable : table[v] \in WholeData
  BY <1>1 DEF Inv, MemoryInv, WholeData
<1>6. CASE LoopRead
  <2>1. MemoryInv'
    BY <1>1, <1>6, MemoryKept DEF Inv, LoopRead
  <2>2. arrivals' \in Seq(WholeMessage) /\ permits' \in Nat
    BY <1>3, <1>5, <1>6, PathsKept, WholeMessages DEF Inv, PathsWhole, LoopRead
  <2> QED BY <1>2, <1>3, <1>4, <1>6, <2>1, <2>2
          DEF Inv, PathsWhole, LoopRead, Taken, LoopTypeOK
<1>7. CASE LoopWrite
  <2>1. PathsWhole'
    BY <1>4, <1>7 DEF Inv, PathsWhole, LoopWrite, Taken, loopVars, LoopTypeOK
  <2>2. Msg.data \in WholeData
    BY <1>4, <1>7, WholeIsMessage DEF LoopWrite, Taken
  <2>3. /\ table' \in [Readable -> Data]
        /\ \A v \in Readable : Whole(table'[v])
    BY <1>5, <1>7, <2>2 DEF Inv, MemoryInv, LoopWrite, WholeData
  <2>4. MemoryInv'
    BY <1>1, <1>5, <2>3 DEF Inv, MemoryInv, tableVars, TableTypeOK
  <2> QED BY <1>2, <2>1, <2>4 DEF Inv
<1>8. CASE LoopAlive
  <2>1. MemoryInv'
    BY <1>1, <1>8, MemoryKept DEF Inv, LoopAlive
  <2>2. AliveAnswers \in Seq(WholeMessage)
    <3>1. \A n \in 1..(2 * Modules) :
             Event(IF n % 2 = 1 THEN "aliveAnswer" ELSE "console") \in WholeMessage
      BY WholeMessages DEF Kinds
    <3>2. AliveAnswers \in [1..(2 * Modules) -> WholeMessage]
      BY <3>1 DEF AliveAnswers
    <3> QED BY <1>3, <3>2, SeqDef
  <2>3. arrivals' \in Seq(WholeMessage) /\ owed' \in Nat
    BY <1>3, <1>8, <2>2, ConcatProperties
    DEF Inv, PathsWhole, LoopAlive, AlivePermits
  <2> QED BY <1>2, <1>3, <1>4, <1>8, <2>1, <2>3
          DEF Inv, PathsWhole, LoopAlive, Taken, LoopTypeOK
<1>9. CASE Release
  <2>1. MemoryInv'
    BY <1>1, <1>9, MemoryKept DEF Inv, Release
  <2>2. PathsWhole'
    BY <1>3, <1>9 DEF Inv, PathsWhole, Release, pathVars, LoopTypeOK
  <2> QED BY <1>2, <2>1, <2>2 DEF Inv
<1> QED BY <1>1, <1>6, <1>7, <1>8, <1>9 DEF LoopStep

LEMMA SineInv ==
    ASSUME Inv, NEW v \in Ram, NEW value \in Computed, Sine(v, value) PROVE Inv'
<1>1. PathsWhole'
  BY DEF Inv, PathsWhole, Sine, pathVars, loopVars, LoopTypeOK
<1>2. RemoteWhole' /\ ViewsWhole'
  BY OthersKept DEF Inv, Sine
<1>3. BytesOf(value) \in Data /\ Whole(BytesOf(value))
  BY WholeValues, TableAssumption DEF WholeData
<1>4. /\ table' = [table EXCEPT ![v] = BytesOf(value)] /\ driver = "loopback"
      /\ updates < MaxUpdates /\ updates' = updates + 1
      /\ UNCHANGED <<ph, held, copied, driver>>
  BY DEF Sine, setting
<1>5. /\ table' \in [Readable -> Data] /\ Whole(table'[v])
      /\ \A w \in Readable : w # v => table'[w] = table[w]
  BY <1>3, <1>4 DEF Inv, MemoryInv
<1>6. MemoryInv'
  BY <1>4, <1>5, TableAssumption DEF Inv, MemoryInv, TableTypeOK
<1> QED BY <1>1, <1>2, <1>6 DEF Inv

\* Every step keeps what goes around whole.
LEMMA NextInv == Inv /\ [Next]_vars => Inv'
<1> SUFFICES ASSUME Inv, [Next]_vars PROVE Inv'
  OBVIOUS
<1>1. CASE \E v \in Variables : Request(v) \/ EnterNumber(v) \/ EnterText(v)
  <2>1. PICK v \in Variables : Request(v) \/ EnterNumber(v) \/ EnterText(v)
    BY <1>1
  <2>2. BytesOf(edits + 1) \in WholeData /\ Text \in WholeData /\ Zeros \in WholeData
    BY WholeValues DEF Inv, ViewsWhole
  <2> QED BY <2>1, <2>2, RequestInv, EnterInv DEF EnterNumber, EnterText
<1>2. CASE PollAlive \/ Deliver \/ LoadConfiguration
  BY <1>2, PollAliveInv, DeliverInv, LoadInv
<1>3. CASE ClientTakes \/ ServerTakes \/ NetStep
  BY <1>3, ClientTakesInv, ServerTakesInv, NetStepInv
<1>4. CASE BusStep(TableNext)
  <2>1. RemoteWhole' /\ ViewsWhole'
    BY <1>4, OthersKept DEF Inv, BusStep
  <2> QED BY <1>4, <2>1, BusPathsInv, BusMemoryInv DEF Inv
<1>5. CASE LoopbackStep(LoopStep)
  BY <1>5, LoopbackInv
<1>6. CASE \E v \in Ram, value \in Computed : Sine(v, value)
  BY <1>6, SineInv
<1>7. CASE UNCHANGED vars
  <2>1. RemoteWhole' /\ ViewsWhole'
    BY <1>7, OthersKept DEF Inv, vars
  <2>2. MemoryInv'
    BY <1>7, MemoryKept DEF Inv, vars, setting
  <2>3. PathsWhole'
    BY <1>7 DEF Inv, PathsWhole, vars, pathVars, loopVars, LoopTypeOK
  <2> QED BY <2>1, <2>2, <2>3 DEF Inv
<1> QED BY <1>1, <1>2, <1>3, <1>4, <1>5, <1>6, <1>7 DEF Next

\* It says all that the type invariant does.
LEMMA InvImpliesTypeOK == Inv => TypeOK
<1> SUFFICES ASSUME Inv PROVE TypeOK
  OBVIOUS
<1>1. \A s \in Seq(WholeMessage) : s \in Seq(Message)
  BY WholeIsMessage, SeqMonotonic
<1>2. \A s \in Seq(WholePart) : s \in Seq(Part)
  BY WholeIsMessage, SeqMonotonic
<1>3. PathTypeOK /\ TableTypeOK
  BY <1>1 DEF Inv, PathsWhole, MemoryInv, PathTypeOK
<1>4. LoopTypeOK /\ RemoteTypeOK
  BY <1>2 DEF Inv, PathsWhole, RemoteWhole, RemoteTypeOK
<1>5. display \in [Variables -> Data] /\ shown \in [Variables -> Data]
  BY DEF Inv, ViewsWhole, WholeData
<1> QED BY <1>3, <1>4, <1>5 DEF Inv, ViewsWhole, TypeOK

\* And that no value is torn.
LEMMA InvImpliesNoTornValue == Inv => NoTornValue
<1> SUFFICES ASSUME Inv PROVE NoTornValue
  OBVIOUS
<1>1. /\ \A n \in 1..Len(queue) : Whole(queue[n].data)
      /\ \A n \in 1..Len(arrivals) : Whole(arrivals[n].data)
  BY WholeIsMessage, ElementOfSeq DEF Inv, PathsWhole
<1>2. /\ \A n \in 1..Len(down) : Whole(down[n].msg.data)
      /\ \A n \in 1..Len(up) : Whole(up[n].msg.data)
  <2>1. /\ \A n \in 1..Len(down) : down[n].msg \in WholeMessage
        /\ \A n \in 1..Len(up) : up[n].msg \in WholeMessage
    <3>1. /\ \A n \in 1..Len(down) : down[n] \in WholePart
          /\ \A n \in 1..Len(up) : up[n] \in WholePart
      BY ElementOfSeq DEF Inv, RemoteWhole
    <3> QED BY <3>1 DEF WholePart
  <2> QED BY <2>1, WholeIsMessage
<1>3. \A v \in Variables : Whole(display[v]) /\ Whole(shown[v])
  BY DEF Inv, ViewsWhole, WholeData
<1> QED BY <1>1, <1>2, <1>3 DEF Inv, MemoryInv, NoTornValue

-----------------------------------------------------------------------------
\* A message added to a stream of whole messages makes one.
LEMMA InSyncAppend ==
    ASSUME NEW stream \in Seq(WholePart), InSync(stream), NEW m \in WholeMessage
    PROVE  InSync(stream \o Serialize(m))
<1> DEFINE L == Len(stream)
           P == Parts(m)
           longer == stream \o Serialize(m)
<1>1. L \in Nat /\ P \in Nat \ {0} /\ \A i \in 1..L : stream[i] \in WholePart
  BY LenProperties, ElementOfSeq, SerializeType
<1>2. Len(longer) = L + P
  BY SerializeType, ConcatProperties
<1>3. /\ \A i \in 1..L : longer[i] = stream[i]
      /\ \A p \in 1..P : longer[L + p] = [msg |-> m, part |-> p]
  <2>1. \A i \in 1..(L + P) :
           longer[i] = IF i <= L THEN stream[i] ELSE Serialize(m)[i - L]
    BY SerializeType, ConcatProperties
  <2>2. \A p \in 1..P : Serialize(m)[p] = [msg |-> m, part |-> p]
    BY SerializeType
  <2> HIDE DEF L, P, longer
  <2> QED BY <1>1, <2>1, <2>2
<1>4. ASSUME NEW i \in 1..Len(longer)
      PROVE  /\ longer[i].part \in 1..Parts(longer[i].msg)
             /\ \A p \in 1..Parts(longer[i].msg) :
                   /\ i + p - longer[i].part \in 1..Len(longer)
                   /\ longer[i + p - longer[i].part]
                         = [msg |-> longer[i].msg, part |-> p]
  <2>1. CASE i <= L
    <3>1. i \in 1..L /\ longer[i] = stream[i]
      BY <1>1, <1>2, <1>3, <2>1
    <3>2. /\ stream[i].part \in 1..Parts(stream[i].msg)
          /\ \A p \in 1..Parts(stream[i].msg) :
                /\ i + p - stream[i].part \in 1..L
                /\ stream[i + p - stream[i].part]
                      = [msg |-> stream[i].msg, part |-> p]
      BY <3>1 DEF InSync
    <3> HIDE DEF longer, L
    <3> QED BY <1>1, <1>2, <1>3, <3>1, <3>2
  <2>2. CASE i > L
    <3>1. i - L \in 1..P /\ longer[L + (i - L)] = [msg |-> m, part |-> i - L]
      BY <1>1, <1>2, <1>3, <2>2
    <3>2. longer[i].msg = m /\ longer[i].part = i - L
      BY <1>1, <1>2, <3>1
    <3>3. \A p \in 1..P : i + p - (i - L) = L + p
      BY <1>1, <1>2
    <3> HIDE DEF longer, L, P
    <3>4. \A p \in 1..P : L + p \in 1..Len(longer)
      BY <1>1, <1>2
    <3>5. Parts(longer[i].msg) = P
      BY <3>2 DEF P
    <3> QED BY <1>3, <3>1, <3>2, <3>3, <3>4, <3>5
  <2>3. i <= L \/ i > L
    BY <1>1, <1>2
  <2> QED BY <2>1, <2>2, <2>3
<1> QED BY <1>4 DEF InSync

\* A reader that takes a whole message leaves whole messages.
LEMMA InSyncRest ==
    ASSUME NEW stream \in Seq(WholePart), NEW read \in 0..Len(stream),
           InSync(stream), Complete(stream, read)
    PROVE  InSync(Rest(stream, Consumed(stream, read)))
<1> DEFINE L == Len(stream)
           P == Parts(stream[1].msg)
           rest == Rest(stream, Consumed(stream, read))
<1>1. L \in Nat /\ \A i \in 1..L : stream[i] \in WholePart
  BY LenProperties, ElementOfSeq
<1>2. /\ Consumed(stream, read) = P /\ stream[1].msg \in WholeMessage
      /\ Len(rest) = L - P /\ \A i \in 1..(L - P) : rest[i] = stream[i + P]
      /\ read - P \in 0..Len(rest)
  BY StreamsKept
<1>3. P \in Nat \ {0} /\ P <= L
  BY <1>1, <1>2, SerializeType
<1>4. \A p \in 1..P : stream[p] = [msg |-> stream[1].msg, part |-> p]
  <2>1. 1 \in 1..L /\ stream[1].part = 1
    BY <1>1, <1>3 DEF Complete
  <2>2. \A p \in 1..P : stream[1 + p - 1] = [msg |-> stream[1].msg, part |-> p]
    BY <2>1 DEF InSync
  <2> QED BY <1>3, <2>2
<1>5. ASSUME NEW i \in 1..Len(rest)
      PROVE  /\ rest[i].part \in 1..Parts(rest[i].msg)
             /\ \A p \in 1..Parts(rest[i].msg) :
                   /\ i + p - rest[i].part \in 1..Len(rest)
                   /\ rest[i + p - rest[i].part] = [msg |-> rest[i].msg, part |-> p]
  <2>1. i \in Nat /\ i >= 1 /\ i + P \in 1..L /\ rest[i] = stream[i + P]
    BY <1>1, <1>2, <1>3
  <2> DEFINE m == rest[i].msg
             k == rest[i].part
  <2>2. /\ k \in 1..Parts(m)
        /\ \A p \in 1..Parts(m) :
              /\ (i + P) + p - k \in 1..L
              /\ stream[(i + P) + p - k] = [msg |-> m, part |-> p]
    BY <2>1 DEF InSync
  <2>3. Parts(m) \in Nat
    <3>1. m \in WholeMessage
      BY <1>1, <2>1 DEF WholePart
    <3> QED BY <3>1, SerializeType
  <2>4. ASSUME NEW p \in 1..Parts(m)
        PROVE  i + p - k \in 1..Len(rest) /\ rest[i + p - k] = [msg |-> m, part |-> p]
    <3> DEFINE j == (i + P) + p - k
    <3>1. j \in 1..L /\ stream[j] = [msg |-> m, part |-> p]
      BY <2>2
    <3>2. ~(j <= P)
      <4> SUFFICES ASSUME j <= P PROVE FALSE
        OBVIOUS
      <4>1. j \in 1..P
        BY <3>1, <1>3
      <4>2. stream[j] = [msg |-> stream[1].msg, part |-> j]
        BY <1>4, <4>1
      <4>3. m = stream[1].msg /\ p = j
        BY <3>1, <4>2
      <4>4. k <= P
        BY <2>2, <2>3, <4>3
      <4>5. p = (i + P) + p - k
        BY <4>3
      <4> QED BY <4>4, <4>5, <2>1, <2>2, <2>3, <1>3
    <3>3. i + p - k \in 1..(L - P) /\ (i + p - k) + P = j
      <4>1. p \in Int /\ k \in Int /\ i \in Int /\ P \in Int
        BY <1>3, <2>1, <2>2, <2>3
      <4>2. (i + p - k) + P = j
        BY <4>1
      <4>3. j \in Int /\ 1 <= j /\ j <= L /\ P < j
        BY <1>1, <1>3, <3>1, <3>2
      <4> HIDE DEF j, P, L, k, m
      <4> QED BY <1>1, <4>1, <4>2, <4>3
    <3> HIDE DEF j, P, L, k, m, rest
    <3> QED BY <1>2, <3>1, <3>3
  <2> QED BY <2>2, <2>4
<1> QED BY <1>5 DEF InSync

\* Only the ends of the connection and the network change it.
LEMMA InSyncStep ==
    ASSUME Inv, RemoteInSync, [Next]_vars PROVE RemoteInSync'
<1>1. /\ down \in Seq(WholePart) /\ downRead \in 0..Len(down) /\ InSync(down)
      /\ up \in Seq(WholePart) /\ upRead \in 0..Len(up) /\ InSync(up)
  BY DEF Inv, RemoteWhole, RemoteInSync
<1>2. ASSUME down' = down, up' = up PROVE RemoteInSync'
  BY <1>1, <1>2 DEF RemoteInSync
<1>3. CASE Deliver
  <2>1. Head(arrivals) \in WholeMessage
    BY <1>3, PathsKept DEF Inv, Deliver
  <2>2. up' = up /\ (down' = down \/ down' = down \o Serialize(Head(arrivals)))
    BY <1>3 DEF Deliver, ToClients
  <2> QED BY <1>1, <2>1, <2>2, InSyncAppend DEF RemoteInSync
<1>4. ASSUME NEW v \in Variables, EnterNumber(v) \/ EnterText(v)
      PROVE  RemoteInSync'
  <2>1. PICK m \in WholeMessage :
           down' = down /\ (up' = up \/ up' = up \o Serialize(m))
    <3>1. BytesOf(edits + 1) \in WholeData /\ Zeros \in WholeData
      BY WholeValues DEF Inv, ViewsWhole
    <3>2. /\ Write(v, BytesOf(edits + 1)) \in WholeMessage
          /\ Write(v, Zeros) \in WholeMessage
      BY <3>1, WholeMessages
    <3>3. CASE EnterNumber(v)
      BY <3>2, <3>3 DEF EnterNumber, Enter, ToServer, remoteVars
    <3>4. CASE EnterText(v)
      BY <3>2, <3>4 DEF EnterText, Enter, ToServer, remoteVars
    <3> QED BY <1>4, <3>3, <3>4
  <2> QED BY <1>1, <2>1, InSyncAppend DEF RemoteInSync
<1>5. CASE ClientTakes
  BY <1>1, <1>5, InSyncRest DEF ClientTakes, ClientReads, RemoteInSync
<1>6. CASE ServerTakes
  BY <1>1, <1>6, InSyncRest DEF ServerTakes, ServerReads, RemoteInSync
<1>7. CASE NetStep
  <2>1. Len(<<>>) = 0
    BY EmptySeq
  <2>2. InSync(<<>>)
    BY <2>1 DEF InSync
  <2> QED BY <1>1, <1>2, <1>7, <2>2
          DEF NetStep, DownArrives, UpArrives, Disconnect, RemoteInSync
<1>8. CASE \/ \E v \in Variables : Request(v)
           \/ PollAlive \/ LoadConfiguration
           \/ BusStep(TableNext) \/ LoopbackStep(LoopStep)
           \/ \E v \in Ram, value \in Computed : Sine(v, value)
           \/ UNCHANGED vars
  BY <1>2, <1>8
  DEF Request, PollAlive, LoadConfiguration, BusStep, LoopbackStep, Sine, vars,
      remoteVars
<1> QED BY <1>3, <1>4, <1>5, <1>6, <1>7, <1>8 DEF Next

-----------------------------------------------------------------------------
\* The alive requests on their way to the virtual modules: each will leave as
\* many messages without a permit as there are modules.
AliveAt(messages) == {n \in 1..Len(messages) : messages[n].kind = "alive"}
Alives(messages)  == Cardinality(AliveAt(messages))

Backed ==
    driver = "loopback" =>
        /\ permits + owed <= Len(arrivals)
        /\ Len(arrivals) + Modules * Alives(queue) <= permits + owed + Modules * polls

\* How many there are is a number.
LEMMA AlivesType ==
    ASSUME NEW messages \in Seq(WholeMessage)
    PROVE  IsFiniteSet(AliveAt(messages)) /\ Alives(messages) \in Nat
<1>1. Len(messages) \in Nat
  BY LenProperties
<1>2. IsFiniteSet(1..Len(messages))
  BY <1>1, FS_Interval
<1>3. AliveAt(messages) \in SUBSET (1..Len(messages))
  BY DEF AliveAt
<1>4. IsFiniteSet(AliveAt(messages))
  BY <1>2, <1>3, FS_Subset
<1> QED BY <1>4, FS_CardinalityType DEF Alives

\* A message at the end counts when it is one.
LEMMA AlivesOfAppend ==
    ASSUME NEW messages \in Seq(WholeMessage), NEW m \in WholeMessage
    PROVE  Alives(Append(messages, m))
              = Alives(messages) + (IF m.kind = "alive" THEN 1 ELSE 0)
<1>1. /\ Len(messages) \in Nat /\ Len(Append(messages, m)) = Len(messages) + 1
      /\ \A i \in 1..Len(messages) : Append(messages, m)[i] = messages[i]
      /\ Append(messages, m)[Len(messages) + 1] = m
  BY LenProperties, AppendProperties
<1>2. CASE m.kind = "alive"
  <2>1. AliveAt(Append(messages, m)) = AliveAt(messages) \cup {Len(messages) + 1}
    BY <1>1, <1>2 DEF AliveAt
  <2>2. Len(messages) + 1 \notin AliveAt(messages)
    BY <1>1 DEF AliveAt
  <2> QED BY <1>2, <2>1, <2>2, AlivesType, FS_AddElement DEF Alives
<1>3. CASE m.kind # "alive"
  <2>1. AliveAt(Append(messages, m)) = AliveAt(messages)
    BY <1>1, <1>3 DEF AliveAt
  <2> QED BY <1>3, <2>1, AlivesType DEF Alives
<1> QED BY <1>2, <1>3

\* The first one counts no more when it is taken.
LEMMA AlivesOfTail ==
    ASSUME NEW messages \in Seq(WholeMessage), messages # <<>>
    PROVE  Alives(messages)
              = Alives(Tail(messages)) + (IF Head(messages).kind = "alive" THEN 1 ELSE 0)
<1>1. /\ Len(messages) \in Nat \ {0} /\ Head(messages) = messages[1]
      /\ Tail(messages) \in Seq(WholeMessage)
      /\ Len(Tail(messages)) = Len(messages) - 1
      /\ \A i \in 1..Len(Tail(messages)) : Tail(messages)[i] = messages[i + 1]
  BY LenProperties, EmptySeq, HeadTailProperties
<1>2. Cardinality(AliveAt(messages) \ {1}) = Cardinality(AliveAt(Tail(messages)))
  <2> DEFINE shift == [n \in AliveAt(Tail(messages)) |-> n + 1]
  <2>1. shift \in [AliveAt(Tail(messages)) -> AliveAt(messages) \ {1}]
    BY <1>1 DEF AliveAt
  <2>2. \A a, b \in AliveAt(Tail(messages)) : shift[a] = shift[b] => a = b
    BY <1>1 DEF AliveAt
  <2>3. \A n \in AliveAt(messages) \ {1} :
           n - 1 \in AliveAt(Tail(messages)) /\ shift[n - 1] = n
    BY <1>1 DEF AliveAt
  <2>4. shift \in Bijection(AliveAt(Tail(messages)), AliveAt(messages) \ {1})
    BY <2>1, <2>2, <2>3 DEF Bijection, Injection, Surjection, IsInjective
  <2>5. ExistsBijection(AliveAt(Tail(messages)), AliveAt(messages) \ {1})
    BY <2>4 DEF ExistsBijection
  <2> QED BY <1>1, <2>5, AlivesType, FS_Bijection
<1>3. 1 \in AliveAt(messages) <=> Head(messages).kind = "alive"
  BY <1>1 DEF AliveAt
<1>4. Cardinality(AliveAt(messages) \ {1})
         = IF 1 \in AliveAt(messages) THEN Alives(messages) - 1 ELSE Alives(messages)
  BY AlivesType, FS_RemoveElement DEF Alives
<1> QED BY <1>1, <1>2, <1>3, <1>4, AlivesType DEF Alives

\* Writes add none.
LEMMA AlivesOfConcat ==
    ASSUME NEW messages \in Seq(WholeMessage), NEW writes \in Seq(WholeMessage),
           \A n \in 1..Len(writes) : writes[n].kind # "alive"
    PROVE  Alives(messages \o writes) = Alives(messages)
<1>1. /\ Len(messages) \in Nat /\ Len(writes) \in Nat
      /\ Len(messages \o writes) = Len(messages) + Len(writes)
      /\ \A i \in 1..(Len(messages) + Len(writes)) :
            (messages \o writes)[i]
               = IF i <= Len(messages) THEN messages[i] ELSE writes[i - Len(messages)]
  BY LenProperties, ConcatProperties
<1>2. AliveAt(messages \o writes) = AliveAt(messages)
  BY <1>1 DEF AliveAt
<1> QED BY <1>2 DEF Alives

\* A viewer sends the console writes, and no alive requests.
UpHoldsWrites == \A i \in 1..Len(up) : up[i].msg.kind = "write"

LEMMA UpHoldsWritesStep ==
    ASSUME Inv, UpHoldsWrites, [Next]_vars PROVE UpHoldsWrites'
<1>1. up \in Seq(WholePart) /\ upRead \in 0..Len(up) /\ Len(up) \in Nat
  BY LenProperties DEF Inv, RemoteWhole
<1>2. ASSUME up' = up PROVE UpHoldsWrites'
  BY <1>2 DEF UpHoldsWrites
<1>3. ASSUME NEW m \in WholeMessage, m.kind = "write", up' = up \o Serialize(m)
      PROVE  UpHoldsWrites'
  <2>1. /\ Len(up') = Len(up) + Parts(m) /\ Parts(m) \in Nat
        /\ \A i \in 1..(Len(up) + Parts(m)) :
              up'[i] = IF i <= Len(up) THEN up[i] ELSE Serialize(m)[i - Len(up)]
    BY <1>1, <1>3, SerializeType, ConcatProperties
  <2>2. \A p \in 1..Parts(m) : Serialize(m)[p].msg.kind = "write"
    <3>1. ASSUME NEW p \in 1..Parts(m)
          PROVE  Serialize(m)[p].msg.kind = "write"
      <4>1. Serialize(m)[p] = [msg |-> m, part |-> p]
        BY SerializeType
      <4>2. Serialize(m)[p].msg = m
        BY <4>1
      <4> QED BY <1>3, <4>2
    <3> QED BY <3>1
  <2>3. \A i \in 1..(Len(up) + Parts(m)) : i <= Len(up) \/ i - Len(up) \in 1..Parts(m)
    BY <1>1, <2>1
  <2> QED BY <1>1, <2>1, <2>2, <2>3 DEF UpHoldsWrites
<1>4. ASSUME NEW v \in Variables, EnterNumber(v) \/ EnterText(v)
      PROVE  UpHoldsWrites'
  <2>1. BytesOf(edits + 1) \in WholeData /\ Zeros \in WholeData
    BY WholeValues DEF Inv, ViewsWhole
  <2>2. \A d \in WholeData : Write(v, d) \in WholeMessage /\ Write(v, d).kind = "write"
    BY WholeMessages DEF Write
  <2>3. CASE EnterNumber(v)
    BY <1>2, <1>3, <2>1, <2>2, <2>3 DEF EnterNumber, Enter, ToServer, remoteVars
  <2>4. CASE EnterText(v)
    BY <1>2, <1>3, <2>1, <2>2, <2>4 DEF EnterText, Enter, ToServer, remoteVars
  <2> QED BY <1>4, <2>3, <2>4
<1>5. CASE ServerTakes
  <2> DEFINE n == Parts(up[1].msg)
  <2>1. /\ Complete(up, upRead) /\ up' = Rest(up, Consumed(up, upRead))
    BY <1>5 DEF ServerTakes, ServerReads
  <2>2. /\ up[1].msg \in WholeMessage /\ Len(up') = Len(up) - n
        /\ \A i \in 1..(Len(up) - n) : up'[i] = up[i + n]
    BY <1>1, <2>1, StreamsKept
  <2>3. n \in Nat
    BY <2>2, SerializeType
  <2> HIDE DEF n
  <2>4. \A i \in 1..(Len(up) - n) : i + n \in 1..Len(up)
    BY <1>1, <2>3
  <2> QED BY <2>2, <2>4 DEF UpHoldsWrites
<1>6. CASE NetStep
  <2>1. Len(<<>>) = 0
    BY EmptySeq
  <2> QED BY <1>2, <1>6, <2>1
          DEF NetStep, DownArrives, UpArrives, Disconnect, UpHoldsWrites
<1>7. CASE \/ \E v \in Variables : Request(v)
           \/ PollAlive \/ Deliver \/ LoadConfiguration \/ ClientTakes
           \/ BusStep(TableNext) \/ LoopbackStep(LoopStep)
           \/ \E v \in Ram, value \in Computed : Sine(v, value)
           \/ UNCHANGED vars
  BY <1>2, <1>7
  DEF Request, PollAlive, Deliver, ToClients, LoadConfiguration, ClientTakes,
      ClientReads, BusStep, LoopbackStep, Sine, vars, remoteVars
<1> QED BY <1>4, <1>5, <1>6, <1>7 DEF Next

\* Permits and messages stay in balance.
LEMMA BackedStep ==
    ASSUME Inv, UpHoldsWrites, Backed, [Next]_vars PROVE Backed'
<1> SUFFICES ASSUME driver' = "loopback"
             PROVE  /\ permits' + owed' <= Len(arrivals')
                    /\ Len(arrivals') + Modules * Alives(queue')
                          <= permits' + owed' + Modules * polls'
  BY DEF Backed, Alives, AliveAt
<1> DEFINE A == Modules * Alives(queue)
           B == Modules * polls
<1>1. driver = "loopback"
  BY DEF Next, Request, EnterNumber, EnterText, Enter, PollAlive, Deliver,
         LoadConfiguration, ClientTakes, ServerTakes, NetStep, BusStep, LoopbackStep,
         Sine, vars, setting
<1>2. /\ permits \in Nat /\ owed \in Nat /\ polls \in Nat /\ Modules \in Nat
      /\ Len(arrivals) \in Nat /\ Alives(queue) \in Nat
      /\ queue \in Seq(WholeMessage) /\ arrivals \in Seq(WholeMessage)
  BY AlivesType, LenProperties, LoopbackAssumption, ValuesAssumption
  DEF Inv, PathsWhole, LoopTypeOK, ViewsWhole
<1>3. A \in Nat /\ B \in Nat
  BY <1>2
<1>4. permits + owed <= Len(arrivals) /\ Len(arrivals) + A <= permits + owed + B
  BY <1>1 DEF Backed
<1>5. \A n \in Nat : Modules * (n + 1) = Modules * n + Modules
  BY <1>2
<1>6. ASSUME Alives(queue') = Alives(queue), UNCHANGED <<arrivals, loopVars, polls>>
      PROVE  /\ permits' + owed' <= Len(arrivals')
             /\ Len(arrivals') + Modules * Alives(queue')
                   <= permits' + owed' + Modules * polls'
  BY <1>4, <1>6 DEF loopVars
<1>7. ASSUME NEW m \in WholeMessage, m.kind # "alive"
      PROVE  Alives(Append(queue, m)) = Alives(queue)
  BY <1>2, <1>7, AlivesOfAppend
<1>8. ASSUME NEW v \in Variables, Request(v) \/ EnterNumber(v) \/ EnterText(v)
      PROVE  Alives(queue') = Alives(queue) /\ UNCHANGED <<arrivals, loopVars, polls>>
  <2>1. /\ Read(v) \in WholeMessage /\ Read(v).kind # "alive"
        /\ \A d \in WholeData : Write(v, d) \in WholeMessage /\ Write(v, d).kind # "alive"
    BY WholeMessages DEF Read, Write
  <2>2. BytesOf(edits + 1) \in WholeData /\ Zeros \in WholeData
    BY WholeValues DEF Inv, ViewsWhole
  <2>3. CASE Request(v)
    BY <1>7, <2>1, <2>3 DEF Request, Push, viewVars
  <2>4. ASSUME NEW shows, NEW d \in WholeData, Enter(v, shows, d)
        PROVE  Alives(queue') = Alives(queue) /\ UNCHANGED <<arrivals, loopVars, polls>>
    <3>1. Alives(Append(queue, Write(v, d))) = Alives(queue)
      BY <1>7, <2>1
    <3>2. queue' = queue \/ queue' = Append(queue, Write(v, d))
      BY <2>4 DEF Enter, Push
    <3>3. UNCHANGED <<arrivals, loopVars, polls>>
      BY <2>4 DEF Enter
    <3>4. CASE queue' = queue
      BY <3>3, <3>4
    <3>5. CASE queue' = Append(queue, Write(v, d))
      BY <3>1, <3>3, <3>5
    <3> QED BY <3>2, <3>4, <3>5
  <2>5. CASE EnterNumber(v)
    BY <2>2, <2>4, <2>5 DEF EnterNumber
  <2>6. CASE EnterText(v)
    BY <2>2, <2>4, <2>6 DEF EnterText
  <2> QED BY <1>8, <2>3, <2>5, <2>6
<1>9. CASE PollAlive
  <2>1. Event("alive") \in WholeMessage /\ Event("alive").kind = "alive"
    BY WholeMessages DEF Event, Kinds
  <2>2. Alives(queue') = Alives(queue) + 1 /\ polls' = polls + 1
    BY <1>2, <1>9, <2>1, AlivesOfAppend DEF PollAlive, Push
  <2>3. UNCHANGED <<arrivals, permits, owed>>
    BY <1>9 DEF PollAlive, loopVars
  <2>4. Modules * Alives(queue') = A + Modules /\ Modules * polls' = B + Modules
    BY <1>2, <1>5, <2>2
  <2> QED BY <1>2, <1>3, <1>4, <2>3, <2>4
<1>10. CASE Deliver
  <2>1. /\ Len(arrivals') = Len(arrivals) - 1
        /\ permits > 0 /\ permits' = permits - 1 /\ owed' = owed
        /\ queue' = queue /\ polls' = polls
    BY <1>1, <1>2, <1>10, HeadTailProperties DEF Deliver, Acquire
  <2> QED BY <1>2, <1>3, <1>4, <2>1
<1>11. CASE LoadConfiguration
  <2> DEFINE writes == [n \in DOMAIN Listed |-> Write(Listed[n], display'[Listed[n]])]
  <2>1. /\ Cardinality(listed) \in Nat
        /\ Listed \in [1..Cardinality(listed) -> listed]
    BY ListedType DEF Inv, ViewsWhole
  <2>2. \A n \in 1..Cardinality(listed) :
           /\ Write(Listed[n], display'[Listed[n]]) \in WholeMessage
           /\ Write(Listed[n], display'[Listed[n]]).kind = "write"
    <3>1. \A n \in 1..Cardinality(listed) : Listed[n] \in Variables
      BY <2>1 DEF Inv, ViewsWhole
    <3>2. display' \in [Variables -> WholeData]
      BY <1>11, LoadInv DEF Inv, ViewsWhole
    <3> QED BY <3>1, <3>2, WholeMessages DEF Write
  <2>3. /\ writes \in [1..Cardinality(listed) -> WholeMessage]
        /\ \A n \in 1..Cardinality(listed) : writes[n].kind # "alive"
    BY <2>1, <2>2
  <2>4. writes \in Seq(WholeMessage) /\ Len(writes) = Cardinality(listed)
    <3>1. writes \in Seq(WholeMessage) /\ DOMAIN writes = 1..Cardinality(listed)
      BY <2>1, <2>3, SeqDef
    <3>2. 1..Len(writes) = 1..Cardinality(listed) /\ Len(writes) \in Nat
      BY <3>1, LenProperties
    <3> QED BY <2>1, <3>1, <3>2
  <2>5. queue' = queue \o writes /\ UNCHANGED <<arrivals, loopVars, polls>>
    BY <1>11 DEF LoadConfiguration
  <2> HIDE DEF writes
  <2>6. Alives(queue') = Alives(queue)
    BY <1>2, <2>3, <2>4, <2>5, AlivesOfConcat
  <2> QED BY <1>6, <2>5, <2>6
<1>12. CASE ServerTakes
  <2>1. /\ Complete(up, upRead) /\ queue' = Append(queue, up[1].msg)
        /\ UNCHANGED <<arrivals, loopVars, polls>>
    BY <1>12 DEF ServerTakes, ServerReads, Push, viewVars
  <2>2. up \in Seq(WholePart) /\ upRead \in 0..Len(up) /\ Len(up) \in Nat
    BY LenProperties DEF Inv, RemoteWhole
  <2>3. up[1].msg \in WholeMessage
    BY <2>1, <2>2, StreamsKept
  <2>4. up[1].msg.kind = "write"
    <3>1. 1 \in 1..Len(up)
      BY <2>1, <2>2, RemoteAssumption DEF Complete
    <3> QED BY <3>1 DEF UpHoldsWrites
  <2> QED BY <1>6, <1>7, <2>1, <2>3, <2>4
<1>13. CASE ClientTakes \/ NetStep \/ UNCHANGED vars
            \/ \E v \in Ram, value \in Computed : Sine(v, value)
  BY <1>6, <1>13
  DEF ClientTakes, NetStep, Sine, vars, pathVars, viewVars
<1>14. CASE LoopbackStep(LoopStep)
  <2>1. LoopStep /\ polls' = polls
    BY <1>14 DEF LoopbackStep, viewVars
  <2>2. ASSUME queue # <<>>, queue' = Tail(queue)
        PROVE  Alives(queue) = Alives(queue') + (IF Msg.kind = "alive" THEN 1 ELSE 0)
               /\ Alives(queue') \in Nat
    <3>1. Tail(queue) \in Seq(WholeMessage)
      BY <1>2, <2>2, HeadTailProperties
    <3> QED BY <1>2, <2>2, <3>1, AlivesOfTail, AlivesType DEF Msg
  <2>3. CASE LoopRead
    <3>1. Alives(queue') = Alives(queue) /\ owed' = owed
      BY <1>2, <2>2, <2>3 DEF LoopRead, Taken
    <3>2. CASE Msg.var \in Readable
      <4>1. permits' = permits + 1 /\ Len(arrivals') = Len(arrivals) + 1
        <5>1. Answer(Msg.var, table[Msg.var]) \in WholeMessage
          BY <1>1, <3>2, WholeMessages DEF Inv, MemoryInv, WholeData
        <5> QED BY <1>2, <2>3, <3>2, <5>1, AppendProperties DEF LoopRead
      <4> QED BY <1>2, <1>3, <1>4, <2>1, <3>1, <4>1
    <3>3. CASE Msg.var \notin Readable
      BY <1>6, <2>1, <2>3, <3>1, <3>3 DEF LoopRead, loopVars
    <3> QED BY <3>2, <3>3
  <2>4. CASE LoopWrite
    <3>1. Alives(queue') = Alives(queue) /\ UNCHANGED <<arrivals, loopVars>>
      BY <1>2, <2>2, <2>4 DEF LoopWrite, Taken
    <3> QED BY <1>6, <2>1, <3>1
  <2>5. CASE LoopAlive
    <3>1. /\ Alives(queue) = Alives(queue') + 1 /\ Alives(queue') \in Nat
          /\ owed = 0 /\ owed' = Modules /\ permits' = permits
          /\ arrivals' = arrivals \o AliveAnswers
      BY <1>2, <2>2, <2>5 DEF LoopAlive, Taken, AlivePermits
    <3>2. Len(arrivals') = Len(arrivals) + 2 * Modules
      <4>1. \A n \in 1..(2 * Modules) :
               Event(IF n % 2 = 1 THEN "aliveAnswer" ELSE "console") \in WholeMessage
        BY WholeMessages DEF Kinds
      <4>2. AliveAnswers \in [1..(2 * Modules) -> WholeMessage]
        BY <4>1 DEF AliveAnswers
      <4>3. AliveAnswers \in Seq(WholeMessage) /\ DOMAIN AliveAnswers = 1..(2 * Modules)
        BY <1>2, <4>2, SeqDef
      <4>4. 1..Len(AliveAnswers) = 1..(2 * Modules) /\ Len(AliveAnswers) \in Nat
        BY <4>3, LenProperties
      <4>5. Len(AliveAnswers) = 2 * Modules
        BY <1>2, <4>4
      <4>6. Len(arrivals \o AliveAnswers) = Len(arrivals) + Len(AliveAnswers)
        BY <1>2, <4>3, ConcatProperties
      <4> QED BY <3>1, <4>5, <4>6
    <3>3. A = Modules * Alives(queue') + Modules
      BY <1>5, <3>1
    <3>4. Modules * Alives(queue') \in Nat
      BY <1>2, <3>1
    <3> QED BY <1>2, <1>3, <1>4, <2>1, <3>1, <3>2, <3>3, <3>4, SMTT(20)
  <2>6. CASE Release
    BY <1>2, <1>3, <1>4, <2>1, <2>6 DEF Release, pathVars
  <2> QED BY <2>1, <2>3, <2>4, <2>5, <2>6 DEF LoopStep
<1>15. CASE BusStep(TableNext)
  BY <1>1, <1>15 DEF BusStep
<1> QED BY <1>6, <1>8, <1>9, <1>10, <1>11, <1>12, <1>13, <1>14, <1>15 DEF Next

-----------------------------------------------------------------------------
\* Nothing on its way is newer than the last edit, and a viewer with an
\* interface of its own sends nothing through a connection.
NoLater(m) == m.kind = "write" => m.data[1] <= edits

Ordered ==
    /\ EditsInOrder
    /\ \A i \in 1..Len(queue) : NoLater(queue[i])
    /\ \A j \in 1..Len(up) : NoLater(up[j].msg)
    /\ ph = "copy" => NoLater(held)
    /\ ~remote => up = <<>> /\ ~connected

\* What the proofs below need of the types.
LEMMA OrderTypes ==
    ASSUME Inv
    PROVE  /\ queue \in Seq(WholeMessage) /\ Len(queue) \in Nat
           /\ up \in Seq(WholePart) /\ upRead \in 0..Len(up) /\ Len(up) \in Nat
           /\ edits \in Nat /\ 1 \in Bytes
           /\ \A i \in 1..Len(queue) : queue[i] \in WholeMessage
           /\ \A j \in 1..Len(up) : up[j].msg \in WholeMessage
           /\ \A m \in WholeMessage : m.data[1] \in Nat
<1>1. /\ queue \in Seq(WholeMessage) /\ Len(queue) \in Nat
      /\ up \in Seq(WholePart) /\ upRead \in 0..Len(up) /\ Len(up) \in Nat
  BY LenProperties DEF Inv, PathsWhole, RemoteWhole
<1>2. edits \in Nat /\ 1 \in Bytes
  BY ValuesAssumption, DataFlowAssumption DEF Inv, ViewsWhole, Bytes
<1>3. /\ \A i \in 1..Len(queue) : queue[i] \in WholeMessage
      /\ \A j \in 1..Len(up) : up[j] \in WholePart
  BY <1>1, ElementOfSeq
<1>4. \A m \in WholeMessage : m.data[1] \in Nat
  BY <1>2 DEF WholeMessage, WholeData, Data
<1> QED BY <1>1, <1>2, <1>3, <1>4 DEF WholePart

\* A message that is no older than any before it may follow them.
Last(m) ==
    /\ m \in WholeMessage
    /\ \A i \in 1..Len(queue) : NotNewer(queue[i], m)
    /\ \A j \in 1..Len(up) : NotNewer(up[j].msg, m)
    /\ ph = "copy" => NotNewer(held, m)

\* The next edit is one, and so is what writes no number.
LEMMA EditIsLast ==
    ASSUME Inv, Ordered, NEW m \in WholeMessage,
           m.kind = "write" => m.data = Zeros \/ m.data[1] = edits + 1
    PROVE  Last(m)
<1>1. ASSUME NEW k, k.kind = "write" => k.data[1] \in Nat /\ k.data[1] <= edits
      PROVE  NotNewer(k, m)
  BY <1>1, OrderTypes DEF NotNewer
<1>2. /\ \A i \in 1..Len(queue) : queue[i].kind = "write" =>
              queue[i].data[1] \in Nat /\ queue[i].data[1] <= edits
      /\ \A j \in 1..Len(up) : up[j].msg.kind = "write" =>
              up[j].msg.data[1] \in Nat /\ up[j].msg.data[1] <= edits
  BY OrderTypes DEF Ordered, NoLater
<1>3. ph = "copy" /\ held.kind = "write" => held.data[1] \in Nat /\ held.data[1] <= edits
  BY OrderTypes
  DEF Ordered, NoLater, Inv, MemoryInv, TableTypeOK, Message, Data
<1> QED BY <1>1, <1>2, <1>3 DEF Last

\* A message at the end of the handler's list keeps the order when there is
\* none behind it in the connection, or it comes from there.
LEMMA PushInOrder ==
    ASSUME Inv, Ordered, NEW m \in WholeMessage, Push(m),
           \A i \in 1..Len(queue) : NotNewer(queue[i], m),
           ph = "copy" => NotNewer(held, m),
           \A j \in 1..Len(up) : NotNewer(m, up[j].msg),
           UNCHANGED <<ph, held, up>>
    PROVE  EditsInOrder'
<1>1. /\ Len(queue') = Len(queue) + 1
      /\ \A i \in 1..Len(queue) : queue'[i] = queue[i]
      /\ queue'[Len(queue) + 1] = m
  BY OrderTypes, AppendProperties DEF Push
<1>2. ASSUME NEW i \in 1..Len(queue'), NEW j \in 1..Len(queue'), i < j
      PROVE  NotNewer(queue'[i], queue'[j])
  <2>1. i \in 1..Len(queue) /\ queue'[i] = queue[i]
    BY <1>1, <1>2, OrderTypes
  <2>2. CASE j = Len(queue) + 1
    BY <1>1, <2>1, <2>2
  <2>3. CASE j # Len(queue) + 1
    <3>1. j \in 1..Len(queue) /\ queue'[j] = queue[j]
      BY <1>1, <2>3, OrderTypes, SMTT(20)
    <3> QED BY <1>2, <2>1, <3>1 DEF Ordered, EditsInOrder
  <2> QED BY <2>2, <2>3
<1>3. ASSUME NEW i \in 1..Len(queue')
      PROVE  /\ ph = "copy" => NotNewer(held, queue'[i])
             /\ \A j \in 1..Len(up) : NotNewer(queue'[i], up[j].msg)
  <2>1. CASE i = Len(queue) + 1
    BY <1>1, <2>1
  <2>2. CASE i # Len(queue) + 1
    <3>1. i \in 1..Len(queue) /\ queue'[i] = queue[i]
      BY <1>1, <2>2, OrderTypes
    <3> QED BY <3>1 DEF Ordered, EditsInOrder
  <2> QED BY <2>1, <2>2
<1>4. /\ \A i, j \in 1..Len(up') : i < j => NotNewer(up'[i].msg, up'[j].msg)
      /\ ph' = "copy" => \A j \in 1..Len(up') : NotNewer(held', up'[j].msg)
  BY DEF Ordered, EditsInOrder
<1> QED BY <1>2, <1>3, <1>4 DEF EditsInOrder

\* So does one at the end of the connection when it is last of all.
LEMMA SerializeInOrder ==
    ASSUME Inv, Ordered, NEW m, Last(m), up' = up \o Serialize(m),
           UNCHANGED <<ph, held, queue>>
    PROVE  EditsInOrder'
<1>1. /\ Len(up') = Len(up) + Parts(m) /\ Parts(m) \in Nat
      /\ \A j \in 1..Len(up) : up'[j].msg = up[j].msg
      /\ \A j \in 1..Len(up') : j \in 1..Len(up) \/ up'[j].msg = m
  <2>1. /\ Len(up') = Len(up) + Parts(m) /\ Parts(m) \in Nat
        /\ \A j \in 1..(Len(up) + Parts(m)) :
              up'[j] = IF j <= Len(up) THEN up[j] ELSE Serialize(m)[j - Len(up)]
    <3>1. /\ Parts(m) \in Nat /\ Serialize(m) \in Seq(WholePart)
          /\ Len(Serialize(m)) = Parts(m)
      BY SerializeType DEF Last
    <3>2. /\ Len(up \o Serialize(m)) = Len(up) + Len(Serialize(m))
          /\ \A j \in 1..(Len(up) + Len(Serialize(m))) :
                (up \o Serialize(m))[j]
                   = IF j <= Len(up) THEN up[j] ELSE Serialize(m)[j - Len(up)]
      BY <3>1, OrderTypes, ConcatProperties
    <3> QED BY <3>1, <3>2
  <2>2. ASSUME NEW p \in 1..Parts(m) PROVE Serialize(m)[p].msg = m
    <3>1. Serialize(m)[p] = [msg |-> m, part |-> p]
      BY SerializeType DEF Last
    <3> QED BY <3>1
  <2>3. ASSUME NEW j \in 1..Len(up'), j \notin 1..Len(up) PROVE up'[j].msg = m
    <3>1. j - Len(up) \in 1..Parts(m) /\ up'[j] = Serialize(m)[j - Len(up)]
      BY <2>1, <2>3, OrderTypes
    <3> QED BY <2>2, <3>1
  <2>4. \A j \in 1..Len(up) : up'[j].msg = up[j].msg
    BY <2>1, OrderTypes
  <2> QED BY <2>1, <2>3, <2>4
<1>2. NotNewer(m, m)
  BY OrderTypes DEF NotNewer, Last
<1>3. ASSUME NEW i \in 1..Len(up'), NEW j \in 1..Len(up'), i < j
      PROVE  NotNewer(up'[i].msg, up'[j].msg)
  <2>1. CASE j \in 1..Len(up)
    <3>1. i \in 1..Len(up)
      BY <1>3, <2>1, OrderTypes
    <3> QED BY <1>1, <1>3, <2>1, <3>1 DEF Ordered, EditsInOrder
  <2>2. CASE j \notin 1..Len(up)
    BY <1>1, <1>2, <2>2 DEF Last
  <2> QED BY <2>1, <2>2
<1>4. ASSUME NEW j \in 1..Len(up')
      PROVE  /\ ph = "copy" => NotNewer(held, up'[j].msg)
             /\ \A i \in 1..Len(queue) : NotNewer(queue[i], up'[j].msg)
  <2>1. CASE j \in 1..Len(up)
    BY <1>1, <2>1 DEF Ordered, EditsInOrder
  <2>2. CASE j \notin 1..Len(up)
    BY <1>1, <2>2 DEF Last
  <2> QED BY <2>1, <2>2
<1>5. /\ \A i, j \in 1..Len(queue') : i < j => NotNewer(queue'[i], queue'[j])
      /\ ph' = "copy" => \A i \in 1..Len(queue') : NotNewer(held', queue'[i])
  BY DEF Ordered, EditsInOrder
<1> QED BY <1>3, <1>4, <1>5 DEF EditsInOrder

\* Steps that add nothing to either list, and leave what the module is copying.
LEMMA OrderedKept ==
    ASSUME Ordered, UNCHANGED <<queue, up, edits, remote, connected>>,
           ph' = "copy" => ph = "copy" /\ (held' = held \/ held'.kind = "read")
    PROVE  Ordered'
<1>1. ph' = "copy" /\ held'.kind = "read" =>
         NoLater(held)' /\ \A m : NotNewer(held', m)
  BY DEF NoLater, NotNewer
<1>2. ph' = "copy" /\ held' = held =>
         /\ NoLater(held)'
         /\ \A i \in 1..Len(queue) : NotNewer(held', queue[i])
         /\ \A j \in 1..Len(up) : NotNewer(held', up[j].msg)
  BY DEF Ordered, EditsInOrder, NoLater
<1>3. /\ \A i \in 1..Len(queue') : NoLater(queue[i])'
      /\ \A j \in 1..Len(up') : NoLater(up[j].msg)'
  BY DEF Ordered, NoLater
<1>4. EditsInOrder'
  BY <1>1, <1>2 DEF Ordered, EditsInOrder
<1> QED BY <1>1, <1>2, <1>3, <1>4 DEF Ordered

\* A message that is no write may be pushed at any time.
LEMMA OrderedPush ==
    ASSUME Inv, Ordered, NEW m \in WholeMessage, m.kind # "write", Push(m),
           UNCHANGED <<up, ph, held, edits, remote, connected>>
    PROVE  Ordered'
<1>1. \A n : NotNewer(n, m) /\ NotNewer(m, n)
  BY DEF NotNewer
<1>2. EditsInOrder'
  BY <1>1, PushInOrder
<1>3. \A i \in 1..Len(queue') : NoLater(queue[i])'
  <2>1. /\ Len(queue') = Len(queue) + 1 /\ queue'[Len(queue) + 1] = m
        /\ \A i \in 1..Len(queue) : queue'[i] = queue[i]
    BY OrderTypes, AppendProperties DEF Push
  <2>2. \A i \in 1..Len(queue') : i \in 1..Len(queue) \/ i = Len(queue) + 1
    BY <2>1, OrderTypes
  <2> QED BY <2>1, <2>2 DEF Ordered, NoLater
<1>4. /\ \A j \in 1..Len(up') : NoLater(up[j].msg)'
      /\ ph' = "copy" => NoLater(held)'
  BY DEF Ordered, NoLater
<1> QED BY <1>2, <1>3, <1>4 DEF Ordered

\* Taking the first message leaves the order, that message being the oldest.
LEMMA OrderedTake ==
    ASSUME Inv, Ordered, queue # <<>>, queue' = Tail(queue),
           UNCHANGED <<up, edits, remote, connected>>,
           ph' = "copy" => held' = Head(queue) \/ (ph = "copy" /\ held' = held)
    PROVE  Ordered'
<1>1. /\ Len(queue') = Len(queue) - 1 /\ Head(queue) = queue[1] /\ 1 \in 1..Len(queue)
      /\ \A i \in 1..Len(queue') : i + 1 \in 1..Len(queue) /\ queue'[i] = queue[i + 1]
  <2>1. /\ Len(Tail(queue)) = Len(queue) - 1
        /\ \A i \in 1..Len(Tail(queue)) : Tail(queue)[i] = queue[i + 1]
    BY OrderTypes, HeadTailProperties
  <2>2. Len(queue) # 0 /\ Head(queue) = queue[1]
    BY OrderTypes, EmptySeq
  <2> QED BY <2>1, <2>2, OrderTypes
<1>2. ASSUME NEW i \in 1..Len(queue'), NEW j \in 1..Len(queue'), i < j
      PROVE  NotNewer(queue'[i], queue'[j])
  <2>1. i + 1 < j + 1
    BY <1>1, <1>2, OrderTypes
  <2> QED BY <1>1, <2>1 DEF Ordered, EditsInOrder
<1>3. ASSUME NEW i \in 1..Len(queue')
      PROVE  /\ NotNewer(queue[1], queue'[i]) /\ NoLater(queue[i])'
             /\ \A j \in 1..Len(up) : NotNewer(queue'[i], up[j].msg)
  <2>1. 1 < i + 1
    BY <1>1, OrderTypes
  <2>2. NoLater(queue[i + 1])
    BY <1>1 DEF Ordered
  <2> QED BY <1>1, <2>1, <2>2 DEF Ordered, EditsInOrder, NoLater
<1>4. ph' = "copy" =>
         /\ \A i \in 1..Len(queue') : NotNewer(held', queue'[i])
         /\ \A j \in 1..Len(up) : NotNewer(held', up[j].msg)
         /\ NoLater(held)'
  BY <1>1, <1>3 DEF Ordered, EditsInOrder, NoLater
<1>5. \A i, j \in 1..Len(up') : i < j => NotNewer(up'[i].msg, up'[j].msg)
  BY DEF Ordered, EditsInOrder
<1>6. \A j \in 1..Len(up') : NoLater(up[j].msg)'
  BY DEF Ordered, NoLater
<1>7. EditsInOrder'
  BY <1>2, <1>3, <1>4, <1>5 DEF EditsInOrder
<1> QED BY <1>3, <1>4, <1>6, <1>7 DEF Ordered

\* An edit is the newest of all, here or at the other end of the connection.
LEMMA OrderedEnter ==
    ASSUME Inv, Ordered, NEW v \in Variables, NEW shows, NEW writes \in WholeData,
           writes = Zeros \/ writes = BytesOf(edits + 1), Enter(v, shows, writes)
    PROVE  Ordered'
<1> DEFINE m == Write(v, writes)
<1>1. m \in WholeMessage /\ m.kind = "write" /\ m.data = writes
  BY WholeMessages DEF Write
<1>2. m.data[1] \in Nat /\ m.data[1] <= edits + 1
  BY <1>1, OrderTypes DEF BytesOf, Zeros
<1>3. Last(m)
  BY <1>1, EditIsLast, OrderTypes DEF BytesOf
<1>4. /\ edits' = edits + 1 /\ UNCHANGED <<ph, held, remote, connected>>
      /\ \/ remote /\ queue' = queue /\ (up' = up \/ up' = up \o Serialize(m))
         \/ ~remote /\ Push(m) /\ up' = up
  BY DEF Enter, ToServer, tableVars, setting, remoteVars
<1> HIDE DEF m
<1>5. /\ \A i \in 1..Len(queue) : queue[i].kind = "write" => queue[i].data[1] <= edits'
      /\ \A j \in 1..Len(up) : up[j].msg.kind = "write" => up[j].msg.data[1] <= edits'
      /\ ph = "copy" /\ held.kind = "write" => held.data[1] <= edits'
  <2>1. ph = "copy" /\ held.kind = "write" => held.data[1] \in Nat
    BY OrderTypes DEF Inv, MemoryInv, TableTypeOK, Message, Data
  <2>2. \A x \in Nat : x <= edits => x <= edits'
    BY <1>4, OrderTypes
  <2>3. \A i \in 1..Len(queue) : queue[i].kind = "write" => queue[i].data[1] <= edits'
    BY <2>2, OrderTypes DEF Ordered, NoLater
  <2>4. \A j \in 1..Len(up) : up[j].msg.kind = "write" => up[j].msg.data[1] <= edits'
    BY <2>2, OrderTypes DEF Ordered, NoLater
  <2> QED BY <2>1, <2>2, <2>3, <2>4 DEF Ordered, NoLater
<1>6. CASE remote /\ queue' = queue /\ up' = up
  <2>1. EditsInOrder'
    BY <1>4, <1>6 DEF Ordered, EditsInOrder
  <2> QED BY <1>4, <1>5, <1>6, <2>1 DEF Ordered, NoLater
<1>7. CASE remote /\ queue' = queue /\ up' = up \o Serialize(m)
  <2>1. EditsInOrder'
    BY <1>3, <1>4, <1>7, SerializeInOrder
  <2>2. \A j \in 1..Len(up') :
          (j \in 1..Len(up) /\ up'[j] = up[j]) \/ up'[j].msg = m
    <3>1. /\ Parts(m) \in Nat /\ Serialize(m) \in Seq(WholePart)
          /\ Len(Serialize(m)) = Parts(m)
      BY <1>1, SerializeType
    <3>2. /\ Len(up') = Len(up) + Parts(m)
          /\ \A j \in 1..(Len(up) + Parts(m)) :
                up'[j] = IF j <= Len(up) THEN up[j] ELSE Serialize(m)[j - Len(up)]
      BY <1>7, <3>1, OrderTypes, ConcatProperties
    <3>3. ASSUME NEW p \in 1..Parts(m) PROVE Serialize(m)[p].msg = m
      <4>1. Serialize(m)[p] = [msg |-> m, part |-> p]
        BY <1>1, SerializeType
      <4> QED BY <4>1
    <3>4. \A j \in 1..Len(up') : j \in 1..Len(up) \/ j - Len(up) \in 1..Parts(m)
      BY <3>1, <3>2, OrderTypes
    <3> QED BY <3>1, <3>2, <3>3, <3>4, OrderTypes
  <2> QED BY <1>1, <1>2, <1>4, <1>5, <1>7, <2>1, <2>2 DEF Ordered, NoLater
<1>8. CASE ~remote /\ Push(m) /\ up' = up
  <2>1. up = <<>> /\ Len(up) = 0
    BY <1>8, EmptySeq DEF Ordered
  <2>2. EditsInOrder'
    BY <1>1, <1>3, <1>4, <1>8, <2>1, PushInOrder, OrderTypes DEF Last
  <2>3. /\ Len(queue') = Len(queue) + 1 /\ queue'[Len(queue) + 1] = m
        /\ \A i \in 1..Len(queue) : queue'[i] = queue[i]
    BY <1>1, <1>8, OrderTypes, AppendProperties DEF Push
  <2>4. \A i \in 1..Len(queue') : i \in 1..Len(queue) \/ i = Len(queue) + 1
    BY <2>3, OrderTypes
  <2> QED BY <1>1, <1>2, <1>4, <1>5, <1>8, <2>1, <2>2, <2>3, <2>4 DEF Ordered, NoLater
<1> QED BY <1>4, <1>6, <1>7, <1>8

\* So are the writes of a file that is loaded, all of the same edit.
LEMMA OrderedLoad ==
    ASSUME Inv, Ordered, LoadConfiguration
    PROVE  Ordered'
<1> DEFINE writes == [n \in DOMAIN Listed |-> Write(Listed[n], display'[Listed[n]])]
           N      == Cardinality(listed)
<1>1. N \in Nat /\ Listed \in [1..N -> listed] /\ listed \subseteq Variables
  BY ListedType DEF Inv, ViewsWhole
<1>2. ASSUME NEW n \in 1..N
      PROVE  /\ writes[n] \in WholeMessage /\ writes[n].kind = "write"
             /\ writes[n].data = Zeros \/ writes[n].data = BytesOf(edits + 1)
  <2>1. Listed[n] \in Variables
    BY <1>1
  <2>2. display' \in [Variables -> WholeData]
    BY LoadInv DEF Inv, ViewsWhole
  <2>3. Write(Listed[n], display'[Listed[n]]) \in WholeMessage
    BY <2>1, <2>2, WholeMessages
  <2>4. PICK saved \in SUBSET listed :
           display' = [v \in Variables |->
                         IF v \in saved THEN BytesOf(edits + 1) ELSE Zeros]
    BY DEF LoadConfiguration
  <2>5. writes[n] = Write(Listed[n], display'[Listed[n]])
    BY <1>1
  <2> QED BY <2>1, <2>3, <2>4, <2>5 DEF Write
<1>3. writes \in Seq(WholeMessage) /\ Len(writes) = N
  <2>1. writes \in [1..N -> WholeMessage] /\ DOMAIN writes = 1..N
    BY <1>1, <1>2
  <2>2. writes \in Seq(WholeMessage)
    BY <1>1, <2>1, SeqDef
  <2>3. 1..Len(writes) = 1..N /\ Len(writes) \in Nat
    BY <2>1, <2>2, LenProperties
  <2> QED BY <1>1, <2>2, <2>3
<1>4. /\ queue' = queue \o writes /\ edits' = edits + 1 /\ up = <<>>
      /\ UNCHANGED <<up, ph, held, remote, connected>>
  BY DEF LoadConfiguration, Ordered, tableVars, remoteVars, setting
<1>5. Len(up) = 0 /\ Len(up') = 0
  BY <1>4, EmptySeq
<1> HIDE DEF writes, N
<1>6. ASSUME NEW n \in 1..N
      PROVE  /\ Last(writes[n])
             /\ writes[n].data[1] \in Nat /\ writes[n].data[1] <= edits + 1
             /\ writes[n].data # Zeros => writes[n].data[1] = edits + 1
  <2>1. /\ BytesOf(edits + 1)[1] = edits + 1 /\ Zeros[1] = 0
        /\ edits \in Nat
    BY OrderTypes DEF BytesOf, Zeros
  <2>2. writes[n].data[1] = edits + 1 \/ writes[n].data = Zeros
    BY <1>2, <2>1
  <2>3. Last(writes[n])
    BY <1>2, <2>2, EditIsLast
  <2> QED BY <1>2, <2>1, <2>2, <2>3
<1>7. /\ Len(queue') = Len(queue) + N
      /\ \A i \in 1..Len(queue') :
            \/ i \in 1..Len(queue) /\ queue'[i] = queue[i]
            \/ i > Len(queue) /\ \E n \in 1..N : queue'[i] = writes[n]
  <2>1. /\ Len(queue \o writes) = Len(queue) + Len(writes)
        /\ \A i \in 1..(Len(queue) + Len(writes)) :
              (queue \o writes)[i] = IF i <= Len(queue) THEN queue[i]
                                                        ELSE writes[i - Len(queue)]
    BY <1>3, OrderTypes, ConcatProperties
  <2>2. Len(queue') = Len(queue) + N
    BY <1>3, <1>4, <2>1
  <2>3. ASSUME NEW i \in 1..Len(queue')
        PROVE  \/ i \in 1..Len(queue) /\ queue'[i] = queue[i]
               \/ i > Len(queue) /\ \E n \in 1..N : queue'[i] = writes[n]
    <3>1. CASE i <= Len(queue)
      BY <1>3, <1>4, <2>1, <2>2, <3>1, <1>1, OrderTypes
    <3>2. CASE i > Len(queue)
      <4>1. i - Len(queue) \in 1..N
        BY <2>2, <3>2, <1>1, OrderTypes DEF N
      <4>2. queue'[i] = writes[i - Len(queue)]
        BY <1>3, <1>4, <2>1, <2>2, <3>2, OrderTypes
      <4> QED BY <3>2, <4>1, <4>2
    <3> QED BY <3>1, <3>2, <2>2, <1>1, OrderTypes DEF N
  <2> QED BY <2>2, <2>3
<1>8. ASSUME NEW i \in 1..Len(queue'), NEW j \in 1..Len(queue'), i < j
      PROVE  NotNewer(queue'[i], queue'[j])
  <2>1. CASE j \in 1..Len(queue) /\ queue'[j] = queue[j]
    <3>1. i \in 1..Len(queue) /\ ~(i > Len(queue))
      BY <1>8, <2>1, OrderTypes
    <3>2. queue'[i] = queue[i]
      BY <1>7, <3>1
    <3> QED BY <1>8, <2>1, <3>1, <3>2 DEF Ordered, EditsInOrder
  <2>2. ASSUME NEW n \in 1..N, queue'[j] = writes[n]
        PROVE  NotNewer(queue'[i], queue'[j])
    <3>1. CASE i \in 1..Len(queue) /\ queue'[i] = queue[i]
      BY <1>6, <2>2, <3>1 DEF Last
    <3>2. ASSUME NEW k \in 1..N, queue'[i] = writes[k]
          PROVE  NotNewer(queue'[i], queue'[j])
      BY <1>6, <2>2, <3>2, OrderTypes DEF NotNewer
    <3> QED BY <1>7, <3>1, <3>2
  <2> QED BY <1>7, <2>1, <2>2
<1>9. ASSUME NEW i \in 1..Len(queue')
      PROVE  NoLater(queue[i])' /\ (ph = "copy" => NotNewer(held, queue'[i]))
  <2>1. CASE i \in 1..Len(queue) /\ queue'[i] = queue[i]
    BY <1>4, <2>1, OrderTypes, SMTT(20) DEF Ordered, EditsInOrder, NoLater
  <2>2. ASSUME NEW n \in 1..N, queue'[i] = writes[n]
        PROVE  NoLater(queue[i])' /\ (ph = "copy" => NotNewer(held, queue'[i]))
    BY <1>4, <1>6, <2>2 DEF Last, NoLater
  <2> QED BY <1>7, <2>1, <2>2
<1>10. ph' = "copy" => NoLater(held)'
  <2>1. ph = "copy" /\ held.kind = "write" => held.data[1] \in Nat
    BY OrderTypes DEF Inv, MemoryInv, TableTypeOK, Message, Data
  <2> QED BY <1>4, <2>1, OrderTypes DEF Ordered, NoLater
<1>11. EditsInOrder'
  BY <1>4, <1>5, <1>8, <1>9 DEF EditsInOrder
<1> QED BY <1>4, <1>5, <1>9, <1>10, <1>11 DEF Ordered

\* The console passes on the writes in the order in which they arrive.
LEMMA OrderedServerTakes ==
    ASSUME Inv, Ordered, ServerTakes
    PROVE  Ordered'
<1> DEFINE m == up[1].msg
           k == Parts(m)
<1>1. /\ Complete(up, upRead) /\ Push(m)
      /\ up' = Rest(up, Consumed(up, upRead))
      /\ UNCHANGED <<ph, held, edits, remote, connected>>
  BY DEF ServerTakes, ServerReads, tableVars, viewVars, setting
<1>2. 1 \in 1..Len(up)
  BY <1>1, OrderTypes, RemoteAssumption DEF Complete
<1>3. m \in WholeMessage /\ k \in Nat \ {0}
  BY <1>2, OrderTypes, SerializeType
<1>4. /\ Len(up') = Len(up) - k
      /\ \A j \in 1..(Len(up) - k) : up'[j] = up[j + k]
  BY <1>1, OrderTypes, StreamsKept
<1> HIDE DEF k
<1>5. \A j \in 1..Len(up') : j + k \in 1..Len(up) /\ 1 < j + k /\ up'[j] = up[j + k]
  <2>1. \A j \in 1..(Len(up) - k) : j + k \in 1..Len(up) /\ 1 < j + k
    BY <1>3, OrderTypes
  <2> QED BY <1>4, <2>1
<1>6. /\ Len(queue') = Len(queue) + 1 /\ queue'[Len(queue) + 1] = m
      /\ \A i \in 1..Len(queue) : queue'[i] = queue[i]
  BY <1>1, <1>3, OrderTypes, AppendProperties DEF Push
<1>7. \A i \in 1..Len(queue') :
         (i \in 1..Len(queue) /\ queue'[i] = queue[i]) \/ i = Len(queue) + 1
  BY <1>6, OrderTypes
<1>8. ASSUME NEW i \in 1..Len(queue'), NEW j \in 1..Len(queue'), i < j
      PROVE  NotNewer(queue'[i], queue'[j])
  <2>1. i \in 1..Len(queue) /\ queue'[i] = queue[i]
    BY <1>6, <1>7, <1>8, OrderTypes
  <2>2. CASE j = Len(queue) + 1
    BY <1>2, <1>6, <2>1, <2>2 DEF Ordered, EditsInOrder
  <2>3. CASE j # Len(queue) + 1
    <3>1. j \in 1..Len(queue) /\ queue'[j] = queue[j]
      BY <1>7, <2>3
    <3> QED BY <1>8, <2>1, <3>1 DEF Ordered, EditsInOrder
  <2> QED BY <2>2, <2>3
<1>9. ASSUME NEW i \in 1..Len(up'), NEW j \in 1..Len(up'), i < j
      PROVE  NotNewer(up'[i].msg, up'[j].msg)
  <2>1. i + k < j + k
    BY <1>3, <1>4, <1>9, OrderTypes
  <2> QED BY <1>5, <2>1 DEF Ordered, EditsInOrder
<1>10. ASSUME NEW i \in 1..Len(queue'), NEW j \in 1..Len(up')
       PROVE  NotNewer(queue'[i], up'[j].msg)
  <2>1. CASE i \in 1..Len(queue) /\ queue'[i] = queue[i]
    BY <1>5, <2>1 DEF Ordered, EditsInOrder
  <2>2. CASE i = Len(queue) + 1
    BY <1>2, <1>5, <1>6, <2>2 DEF Ordered, EditsInOrder
  <2> QED BY <1>7, <2>1, <2>2
<1>11. ph' = "copy" => /\ \A i \in 1..Len(queue') : NotNewer(held', queue'[i])
                       /\ \A j \in 1..Len(up') : NotNewer(held', up'[j].msg)
                       /\ NoLater(held)'
  BY <1>1, <1>2, <1>5, <1>6, <1>7 DEF Ordered, EditsInOrder, NoLater
<1>12. EditsInOrder'
  BY <1>8, <1>9, <1>10, <1>11 DEF EditsInOrder
<1>13. /\ \A i \in 1..Len(queue') : NoLater(queue[i])'
       /\ \A j \in 1..Len(up') : NoLater(up[j].msg)'
  BY <1>1, <1>2, <1>5, <1>6, <1>7 DEF Ordered, NoLater
<1>14. remote'
  <2>1. Len(<<>>) = 0
    BY EmptySeq
  <2> QED BY <1>1, <1>2, <2>1 DEF Ordered
<1> QED BY <1>11, <1>12, <1>13, <1>14 DEF Ordered

\* What was on its way through the connection is gone with it.
LEMMA OrderedDisconnect ==
    ASSUME Ordered, Disconnect, UNCHANGED <<queue, ph, held, edits, remote>>
    PROVE  Ordered'
<1>1. up' = <<>> /\ Len(up') = 0 /\ ~connected'
  BY EmptySeq DEF Disconnect
<1>2. EditsInOrder'
  BY <1>1 DEF Ordered, EditsInOrder
<1> QED BY <1>1, <1>2 DEF Ordered, NoLater

\* Every step keeps the order.
LEMMA OrderedStep ==
    ASSUME Inv, Ordered, [Next]_vars
    PROVE  Ordered'
<1>1. ASSUME NEW v \in Variables, Request(v) PROVE Ordered'
  <2>1. Read(v) \in WholeMessage /\ Read(v).kind # "write"
    BY WholeMessages DEF Read
  <2> QED BY <1>1, <2>1, OrderedPush
      DEF Request, tableVars, remoteVars, setting, viewVars
<1>2. ASSUME NEW v \in Variables, EnterNumber(v) \/ EnterText(v) PROVE Ordered'
  <2>1. Zeros \in WholeData /\ BytesOf(edits + 1) \in WholeData
    BY WholeValues DEF Inv, ViewsWhole
  <2> QED BY <1>2, <2>1, OrderedEnter DEF EnterNumber, EnterText
<1>3. CASE PollAlive
  <2>1. Event("alive") \in WholeMessage /\ Event("alive").kind # "write"
    BY WholeMessages DEF Event, Kinds
  <2> QED BY <1>3, <2>1, OrderedPush DEF PollAlive, tableVars, remoteVars, setting
<1>4. CASE Deliver
  BY <1>4, OrderedKept DEF Deliver, ToClients, tableVars, setting
<1>5. CASE LoadConfiguration
  BY <1>5, OrderedLoad
<1>6. CASE ClientTakes
  BY <1>6, OrderedKept DEF ClientTakes, ClientReads, pathVars, tableVars, setting
<1>7. CASE ServerTakes
  BY <1>7, OrderedServerTakes
<1>8. CASE NetStep
  <2>1. CASE DownArrives \/ UpArrives
    BY <1>8, <2>1, OrderedKept
    DEF NetStep, DownArrives, UpArrives, pathVars, tableVars, setting, viewVars
  <2>2. CASE Disconnect
    BY <1>8, <2>2, OrderedDisconnect
    DEF NetStep, pathVars, tableVars, setting, viewVars
  <2> QED BY <1>8, <2>1, <2>2 DEF NetStep
<1>9. CASE BusStep(TableNext)
  <2>1. UNCHANGED <<up, edits, remote, connected>>
    BY <1>9 DEF BusStep, remoteVars, setting, viewVars
  <2>2. CASE SendImAlive \/ ReceiveRead \/ ReceiveWrite \/ LoseRequest
    <3>1. queue # <<>> /\ queue' = Tail(queue) /\ (ph' = "copy" => held' = Head(queue))
      BY <2>2 DEF SendImAlive, ReceiveRead, ReceiveWrite, LoseRequest, Receive, In,
                  tableVars
    <3>2. ph' = "copy" => held' = Head(queue) \/ (ph = "copy" /\ held' = held)
      BY <3>1
    <3> QED BY <2>1, <3>1, <3>2, OrderedTake
  <2>3. CASE CopyByte
    <3>1. queue' = queue /\ ph = "copy"
      BY <2>3 DEF CopyByte, pathVars
    <3>2. CASE held.kind = "read"
      <4>1. held'.kind = "read"
        <5>1. held' = [held EXCEPT !.data[copied + 1] = table[held.var][copied + 1]]
          BY <2>3, <3>2 DEF CopyByte, Copy
        <5>2. held \in Message
          BY DEF Inv, MemoryInv, TableTypeOK
        <5> QED BY <3>2, <5>1, <5>2 DEF Message
      <4> QED BY <2>1, <3>1, <4>1, OrderedKept
    <3>3. CASE held.kind # "read"
      <4>1. ph' = "copy" => held' = held
        <5>1. ph' = "copy" => copied + 1 < Size
          BY <2>3, <3>3 DEF CopyByte
        <5> QED BY <2>3, <3>3, <5>1 DEF CopyByte, Copy
      <4> QED BY <2>1, <3>1, <4>1, OrderedKept
    <3> QED BY <3>2, <3>3
  <2>4. CASE SendAnswer \/ LoseAnswer \/ \E v \in Ram, value \in Computed :
                                            Interrupt(v, value)
    <3>1. queue' = queue /\ (ph' = "copy" => ph = "copy" /\ held' = held)
      BY <2>4 DEF SendAnswer, LoseAnswer, Interrupt, tableVars, pathVars
    <3> QED BY <2>1, <3>1, OrderedKept
  <2> QED BY <1>9, <2>2, <2>3, <2>4 DEF BusStep, TableNext, TableStep
<1>10. CASE LoopbackStep(LoopStep)
  <2>1. UNCHANGED <<up, edits, remote, connected, ph, held>>
    BY <1>10 DEF LoopbackStep, remoteVars, setting, viewVars, tableVars
  <2>2. CASE LoopRead \/ LoopWrite \/ LoopAlive
    <3>1. queue # <<>> /\ queue' = Tail(queue)
      BY <2>2 DEF LoopRead, LoopWrite, LoopAlive, Taken
    <3>2. ph' = "copy" => held' = Head(queue) \/ (ph = "copy" /\ held' = held)
      BY <2>1
    <3> QED BY <2>1, <3>1, <3>2, OrderedTake
  <2>3. CASE Release
    BY <2>1, <2>3, OrderedKept DEF Release, pathVars
  <2> QED BY <1>10, <2>2, <2>3 DEF LoopbackStep, LoopStep
<1>11. ASSUME NEW v \in Ram, NEW value \in Computed, Sine(v, value) PROVE Ordered'
  BY <1>11, OrderedKept DEF Sine, pathVars, remoteVars, setting, viewVars
<1>12. CASE UNCHANGED vars
  BY <1>12, OrderedKept DEF vars, pathVars, tableVars, remoteVars, setting, viewVars
<1> QED BY <1>1, <1>2, <1>3, <1>4, <1>5, <1>6, <1>7, <1>8, <1>9, <1>10, <1>11,
           <1>12 DEF Next

-----------------------------------------------------------------------------
\* Variables have their types in every state, for any deployments and bounds.
THEOREM TypeCorrect == Spec => []TypeOK
<1>1. Init => Inv
  BY InitInv
<1>2. Inv /\ [Next]_vars => Inv'
  BY NextInv
<1>3. Inv => TypeOK
  BY InvImpliesTypeOK
<1> QED BY <1>1, <1>2, <1>3, PTL DEF Spec

\* No value is ever sent, shown or stored half written: the interrupts that
\* are off while the module copies (NETV16_Common.c:264, 333) are enough.
THEOREM ValuesAreWhole == Spec => []NoTornValue
<1>1. Init => Inv
  BY InitInv
<1>2. Inv /\ [Next]_vars => Inv'
  BY NextInv
<1>3. Inv => NoTornValue
  BY InvImpliesNoTornValue
<1> QED BY <1>1, <1>2, <1>3, PTL DEF Spec

\* However the bytes arrive, both ends of the connection are at the start of a
\* message: unserialize() takes a message when all of it is there, or nothing.
THEOREM RemoteStaysInSync == Spec => []RemoteInSync
<1>1. Init => Inv /\ RemoteInSync
  <2>1. Len(<<>>) = 0
    BY EmptySeq
  <2> QED BY <2>1, InitInv DEF Init, RemoteInit, RemoteInSync, InSync
<1>2. Inv /\ RemoteInSync /\ [Next]_vars => Inv' /\ RemoteInSync'
  BY NextInv, InSyncStep
<1> QED BY <1>1, <1>2, PTL DEF Spec

\* The loopback driver never takes a message that is not there, and leaves no
\* more in its list than an alive request leaves of each module.
THEOREM LoopbackStaysBacked == Spec => []LoopbackBacked
<1>1. Init => Inv /\ UpHoldsWrites /\ Backed
  <2> SUFFICES ASSUME Init PROVE Inv /\ UpHoldsWrites /\ Backed
    OBVIOUS
  <2>1. Inv /\ Len(<<>>) = 0
    BY InitInv, EmptySeq
  <2>2. UpHoldsWrites
    BY <2>1 DEF Init, RemoteInit, UpHoldsWrites
  <2>3. AliveAt(queue) = {}
    BY <2>1 DEF Init, PathInit, AliveAt
  <2>4. Alives(queue) = 0
    BY <2>3, FS_EmptySet DEF Alives
  <2>5. Len(arrivals) = 0 /\ permits = 0 /\ owed = 0 /\ polls = 0 /\ Modules * 0 = 0
    BY <2>1, LoopbackAssumption DEF Init, PathInit, LoopInit
  <2> QED BY <2>1, <2>2, <2>4, <2>5 DEF Backed
<1>2. Inv /\ UpHoldsWrites /\ Backed /\ [Next]_vars
         => Inv' /\ UpHoldsWrites' /\ Backed'
  BY NextInv, UpHoldsWritesStep, BackedStep
<1>3. Inv /\ Backed => LoopbackBacked
  <2> SUFFICES ASSUME Inv, Backed, driver = "loopback"
               PROVE  /\ permits + owed <= Len(arrivals)
                      /\ Len(arrivals) <= permits + owed + Modules * polls
    BY DEF LoopbackBacked
  <2>1. /\ Len(arrivals) \in Nat /\ Modules * Alives(queue) \in Nat
        /\ permits + owed + Modules * polls \in Nat
    BY AlivesType, LenProperties, LoopbackAssumption, ValuesAssumption
    DEF Inv, PathsWhole, LoopTypeOK, ViewsWhole
  <2> QED BY <2>1 DEF Backed
<1> QED BY <1>1, <1>2, <1>3, PTL DEF Spec

\* The numbers the user enters reach the module in the order of the edits: no
\* message overtakes another in the connection, the console or the handler.
THEOREM EditsStayInOrder == Spec => []EditsInOrder
<1>1. Init => Inv /\ Ordered
  <2> SUFFICES ASSUME Init PROVE Inv /\ Ordered
    OBVIOUS
  <2>1. Inv /\ Len(<<>>) = 0
    BY InitInv, EmptySeq
  <2>2. /\ queue = <<>> /\ up = <<>> /\ ph = "receive" /\ connected = remote
    BY DEF Init, PathInit, TableInit, RemoteInit
  <2>3. EditsInOrder
    BY <2>1, <2>2 DEF EditsInOrder
  <2> QED BY <2>1, <2>2, <2>3 DEF Ordered
<1>2. Inv /\ Ordered /\ [Next]_vars => Inv' /\ Ordered'
  BY NextInv, OrderedStep
<1>3. Ordered => EditsInOrder
  BY DEF Ordered
<1> QED BY <1>1, <1>2, <1>3, PTL DEF Spec

=============================================================================
