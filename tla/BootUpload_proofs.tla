------------------------- MODULE BootUpload_proofs -------------------------
(***************************************************************************)
(* What holds of the plugin during uploads, changes of id and changes of   *)
(* the list of modules, for every memory size, set of images, set of       *)
(* modules and set of faults.                                              *)
(***************************************************************************)
EXTENDS BootUpload, BootDevice_proofs, WellFoundedInduction

\* Requests and answers that carry an id carry one a module can have.
Request == {m \in Message : m.cmd = "SET_MODULE_ADDR" => m.data[1] \in Ids}
Report  == {m \in Message : IsAlive(m) => m.data[1] \in Nat /\ m.data[2] \in Ids}

IdsValid ==
    /\ toDev \in Seq(Request) /\ toHost \in Seq(Report)
    /\ answer \in Request /\ ~IsAlive(answer)
    /\ config.id \in Ids /\ eeprom.id \in Ids \cup {255}

\* The plugin's queue ends in a message that timeout() does not skip, so that
\* skipping the first one, or taking it as answered, leaves one.
Ends(q) == q # <<>> /\ q[Len(q)].type = "BOOTLOADER"
QueueEnds == queue \in Seq(Request) /\ (active => Ends(queue))

Inv == TypeOK /\ IdsValid /\ QueueEnds /\ NoDanglingModule

-----------------------------------------------------------------------------
\* A set of naturals that is not empty has its minimum.
LEMMA MinIn ==
    ASSUME NEW S \in SUBSET Nat, S # {}
    PROVE  Min(S) \in S
<1> DEFINE R == {ss \in Nat \X Nat : ss[1] < ss[2]}
<1>1. IsWellFoundedOn(R, Nat)
  BY NatLessThanWellFounded, Zenon DEF OpToRel
<1>2. PICK x \in S : \A y \in S : <<y, x>> \notin R
  BY <1>1, WFMin
<1>3. ASSUME NEW y \in S
      PROVE  x <= y
  <2>1. x \in Nat /\ y \in Nat
    OBVIOUS
  <2>2. ~(y < x)
    BY <1>2, <2>1
  <2>3. QED
    BY <2>1, <2>2
<1>4. QED
  BY <1>3 DEF Min

\* What is left of a queue keeps what its messages have in common.
LEMMA Taken ==
    ASSUME NEW S, NEW q \in Seq(S), q # <<>>
    PROVE  Head(q) \in S /\ Tail(q) \in Seq(S)
  OBVIOUS

\* A list of modules without the one at n.
LEMMA Removal ==
    ASSUME NEW S, NEW s \in Seq(S), NEW n \in 1..Len(s)
    PROVE  /\ RemoveAt(s, n) \in Seq(S)
           /\ \A k \in 1..Len(s) : k # n =>
                 \E j \in 1..Len(RemoveAt(s, n)) : RemoveAt(s, n)[j] = s[k]
<1>1. /\ SubSeq(s, 1, n-1) \in Seq(S) /\ SubSeq(s, n+1, Len(s)) \in Seq(S)
      /\ Len(SubSeq(s, 1, n-1)) = n - 1 /\ Len(SubSeq(s, n+1, Len(s))) = Len(s) - n
      /\ \A i \in 1..n-1 : SubSeq(s, 1, n-1)[i] = s[i]
      /\ \A i \in 1..Len(s)-n : SubSeq(s, n+1, Len(s))[i] = s[n + i]
  OBVIOUS
<1> DEFINE a == SubSeq(s, 1, n-1)
           b == SubSeq(s, n+1, Len(s))
<1>2. /\ a \o b \in Seq(S) /\ Len(a \o b) = Len(s) - 1
      /\ \A i \in 1..n-1 : (a \o b)[i] = s[i]
      /\ \A i \in n..Len(s)-1 : (a \o b)[i] = s[i + 1]
  <2> HIDE DEF a, b
  <2> a \in Seq(S) /\ b \in Seq(S)
    BY <1>1 DEF a, b
  <2>1. /\ a \o b \in Seq(S) /\ Len(a \o b) = Len(a) + Len(b)
        /\ \A i \in 1..Len(a) + Len(b) :
              (a \o b)[i] = IF i <= Len(a) THEN a[i] ELSE b[i - Len(a)]
    BY ConcatProperties
  <2>2. Len(a) = n - 1 /\ Len(b) = Len(s) - n
    BY <1>1 DEF a, b
  <2>3. \A i \in 1..n-1 : a[i] = s[i]
    BY <1>1 DEF a
  <2>4. \A i \in 1..Len(s)-n : b[i] = s[n + i]
    BY <1>1 DEF b
  <2> Len(s) \in Nat /\ n \in Nat
    OBVIOUS
  <2>5. \A i \in 1..n-1 : (a \o b)[i] = s[i]
    BY <2>1, <2>2, <2>3
  <2>6. ASSUME NEW i \in n..Len(s)-1
        PROVE  (a \o b)[i] = s[i + 1]
    <3>1. i \in 1..Len(a) + Len(b) /\ ~(i <= Len(a)) /\ i - Len(a) \in 1..Len(s)-n
      BY <2>2
    <3>2. (a \o b)[i] = b[i - Len(a)]
      BY <2>1, <3>1
    <3>3. b[i - Len(a)] = s[n + (i - Len(a))] /\ n + (i - Len(a)) = i + 1
      BY <2>2, <2>4, <3>1
    <3>4. QED
      BY <3>2, <3>3
  <2>7. QED
    BY <2>1, <2>2, <2>5, <2>6
<1>3. ASSUME NEW k \in 1..Len(s), k # n
      PROVE  \E j \in 1..Len(a \o b) : (a \o b)[j] = s[k]
  <2> HIDE DEF a, b
  <2>1. CASE k < n
    <3>1. k \in 1..Len(a \o b) /\ (a \o b)[k] = s[k]
      BY <1>2, <2>1
    <3>2. QED
      BY <3>1
  <2>2. CASE k > n
    <3>1. /\ k - 1 \in 1..Len(a \o b) /\ k - 1 \in n..Len(s)-1
          /\ (k - 1) + 1 = k
      BY <1>2, <2>2
    <3>2. (a \o b)[k - 1] = s[k]
      BY <1>2, <3>1
    <3>3. QED
      BY <3>1, <3>2
  <2>3. QED
    BY <1>3, <2>1, <2>2
<1>4. QED
  BY <1>2, <1>3 DEF RemoveAt

-----------------------------------------------------------------------------
(* The module.                                                              *)
\* Requests and reports are messages, and the marks an answer gets do not
\* change what it asks.
LEMMA RequestTypes ==
    /\ NoMessage \in Request /\ ~IsAlive(NoMessage)
    /\ \A m \in Request : Nack(m) \in Request /\ Nack(m).cmd = m.cmd
    /\ \A m \in Request, v \in Nat : m.cmd # "SET_MODULE_ADDR" =>
          Valued(m, v) \in Request /\ Valued(m, v).cmd = m.cmd
    /\ \A m \in Request : ~IsAlive(m) => m \in Report
    /\ \A s \in Nat, i \in Ids : AliveAnswer(s, i) \in Report
<1>1. NoMessage \in Request /\ ~IsAlive(NoMessage)
  BY MessageTypes DEF Request, IsAlive, AnswerMessage
<1>2. ASSUME NEW m \in Request
      PROVE  Nack(m) \in Request /\ Nack(m).cmd = m.cmd
  <2>1. m \in Message /\ Nack(m) \in Message
    BY MessageTypes DEF Request, AnswerMessage
  <2>2. Nack(m).cmd = m.cmd /\ Nack(m).data = m.data
    BY <2>1 DEF Nack, Message
  <2>3. QED
    BY <2>1, <2>2 DEF Request
<1>3. ASSUME NEW m \in Request, NEW v \in Nat, m.cmd # "SET_MODULE_ADDR"
      PROVE  Valued(m, v) \in Request /\ Valued(m, v).cmd = m.cmd
  <2>1. <<v>> \in Seq(Nat) /\ Len(<<v>>) = 1
    OBVIOUS
  <2>2. QED
    BY <1>3, <2>1 DEF Request, Message, Valued
<1>4. \A m \in Request : ~IsAlive(m) => m \in Report
  BY DEF Request, Report
<1>5. ASSUME NEW s \in Nat, NEW i \in Ids
      PROVE  AliveAnswer(s, i) \in Report
  <2>1. i \in Nat
    BY HostAssumption
  <2>2. AliveAnswer(s, i) \in Message
    BY <2>1, MessageTypes
  <2>3. AliveAnswer(s, i).data = <<s, i>>
    BY DEF AliveAnswer, Msg
  <2>4. QED
    BY <2>2, <2>3 DEF Report
<1>6. QED
  BY <1>1, <1>2, <1>3, <1>4, <1>5

\* A reset takes the id from the EEPROM, or the default one.
LEMMA RestartIds ==
    ASSUME IdsValid, Restart
    PROVE  IdsValid'
<1>1. \A n \in 0..Len(toDev) : SubSeq(toDev, n + 1, Len(toDev)) \in Seq(Request)
  <2>1. toDev \in Seq(Request)
    BY DEF IdsValid
  <2>2. QED
    BY <2>1, SubSeqProperties
<1>2. toDev' \in Seq(Request) /\ toHost' \in Seq(Report)
  BY <1>1 DEF Restart, IdsValid
<1>3. config'.id \in Ids
  BY UploadAssumption DEF Restart, IdsValid, FirstConfig
<1>4. QED
  BY <1>2, <1>3, RequestTypes DEF Restart, IdsValid

\* A bootloader command answers with the message it took.
LEMMA CommandIds ==
    ASSUME ModuleTypeOK, IdsValid, BootCommand
    PROVE  IdsValid'
<1>1. ASSUME NEW cmd \in BootCommands, Command(cmd)
      PROVE  /\ In \in Request /\ In.cmd = cmd /\ ~IsAlive(In)
             /\ toDev' \in Seq(Request) /\ toHost' \in Seq(Report)
  <2>1. In \in Request /\ toDev' \in Seq(Request) /\ In.cmd = cmd
    BY <1>1, Taken DEF Command, Receive, In, IdsValid
  <2>2. QED
    BY <1>1, <2>1 DEF Command, IdsValid, IsAlive, BootCommands
<1> DEFINE Keeps(m) == m \in Request /\ ~IsAlive(m)
<1>2. ASSUME NEW cmd \in BootCommands, Command(cmd)
      PROVE  Keeps(In) /\ Keeps(Nack(In))
  BY <1>1, <1>2, RequestTypes DEF IsAlive
<1>3. ASSUME NEW cmd \in BootCommands, Command(cmd), Keeps(answer'),
             config'.id = config.id, UNCHANGED eeprom
      PROVE  IdsValid'
  BY <1>1, <1>3 DEF IdsValid
<1>4. CASE SetBaseAddr
  <2>1. Command("SET_BASE_ADDR") /\ "SET_BASE_ADDR" \in BootCommands
    BY <1>4 DEF SetBaseAddr, BootCommands
  <2>2. Keeps(answer')
    BY <1>2, <1>4, <2>1 DEF SetBaseAddr, Answer
  <2>3. config'.id = config.id /\ UNCHANGED eeprom
    BY <1>4 DEF SetBaseAddr, Unbootable, ModuleTypeOK, DevTypeOK, Config
  <2>4. QED
    BY <1>3, <2>1, <2>2, <2>3
<1>5. CASE SetState \/ SetDelay
  <2>1. PICK cmd \in BootCommands : Command(cmd)
    BY <1>5 DEF SetState, SetDelay, Set, BootCommands
  <2>2. Keeps(answer')
    BY <1>2, <1>5, <2>1 DEF SetState, SetDelay, Set, Answer
  <2>3. config'.id = config.id /\ UNCHANGED eeprom
    BY <1>5 DEF SetState, SetDelay, Set, ModuleTypeOK, DevTypeOK, Config
  <2>4. QED
    BY <1>3, <2>1, <2>2, <2>3
<1>6. CASE \/ Get("GET_BASE_ADDR", BootPage * PageSize) \/ Get("GET_MODULE_ADDR", config.id)
           \/ Get("GET_STATE", config.state) \/ Get("GET_DELAY", config.delay)
  <2>1. PICK cmd \in BootCommands \ {"SET_MODULE_ADDR"},
             v \in {BootPage * PageSize, config.id, config.state, config.delay} : Get(cmd, v)
    BY <1>6 DEF BootCommands
  <2>2. v \in Nat
    <3>1. BootPage * PageSize \in Nat
      BY DeviceAssumption
    <3>2. QED
      BY <3>1 DEF ModuleTypeOK, DevTypeOK, Config
  <2>3. Command(cmd)
    BY <2>1 DEF Get
  <2>4. Keeps(answer')
    BY <1>1, <2>1, <2>2, <2>3, RequestTypes DEF Get, Answer, IsAlive
  <2>5. QED
    BY <1>3, <2>1, <2>3, <2>4 DEF Get
<1>7. CASE NotImplemented \/ AnswerFirst \/ WriteBootConfig
  <2>1. PICK cmd \in BootCommands : Command(cmd)
    BY <1>7 DEF NotImplemented, AnswerFirst, WriteBootConfig, BootCommands
  <2>2. Keeps(answer')
    BY <1>2, <1>7, <2>1 DEF NotImplemented, AnswerFirst, WriteBootConfig, Answer
  <2>3. QED
    BY <1>3, <1>7, <2>1, <2>2 DEF NotImplemented, AnswerFirst, WriteBootConfig
<1>8. CASE WriteInc
  <2>1. Command("WRITE_INC") /\ "WRITE_INC" \in BootCommands
    BY <1>8 DEF WriteInc, BootCommands
  <2>2. Keeps(answer')
    BY <1>2, <1>8, <2>1 DEF WriteInc, Answer
  <2>3. In \in Message
    BY <1>1, <2>1 DEF Request
  <2>4. config'.id = config.id /\ UNCHANGED eeprom
    BY <1>8, <2>3, SpilledTypes DEF WriteInc
  <2>5. QED
    BY <1>3, <2>1, <2>2, <2>4
<1>9. QED
  BY <1>4, <1>5, <1>6, <1>7, <1>8 DEF BootCommand

\* Every step of the module keeps the ids valid.
LEMMA DevStepIds ==
    ASSUME ModuleTypeOK, IdsValid, DevNext
    PROVE  IdsValid'
<1>1. CASE Filtered \/ Ignore
  BY <1>1, Taken DEF Filtered, Ignore, Receive, IdsValid, IsAlive, devVars
<1>2. CASE BootAlive \/ AppAlive
  <2>1. PICK s \in Nat : ToHost(AliveAnswer(s, config.id))
    BY <1>2 DEF BootAlive, AppAlive, ModuleTypeOK, DevTypeOK, Config, BOOT_IDLE
  <2>2. toHost' \in Seq(Report)
    BY <2>1, RequestTypes DEF ToHost, IdsValid
  <2>3. toDev' \in Seq(Request)
    BY <1>2, Taken DEF BootAlive, AppAlive, Receive, IdsValid
  <2>4. QED
    BY <1>2, <2>2, <2>3 DEF BootAlive, AppAlive, IdsValid, devVars
<1>3. CASE AppReset \/ DoReset \/ PowerLoss
  BY <1>3, RestartIds DEF AppReset, DoReset, PowerLoss
<1>4. CASE BootCommand
  BY <1>4, CommandIds
<1>5. CASE EraseConfig
  BY <1>5 DEF EraseConfig, IdsValid, ErasedConfig, linkVars
<1>6. CASE ProgramConfig
  BY <1>6 DEF ProgramConfig, IdsValid, linkVars
<1>7. CASE ErasePage \/ ProgramPage \/ StartApp \/ Tick
  BY <1>7 DEF ErasePage, ProgramPage, StartApp, Tick, IdsValid, linkVars
<1>8. CASE Reply
  <2>1. toHost' \in Seq(Report) /\ UNCHANGED <<toDev, eeprom>>
    BY <1>8, RequestTypes DEF Reply, ToHost, IdsValid
  <2>2. config'.id \in Ids
    BY <1>8 DEF Reply, IdsValid, Request, ModuleTypeOK, DevTypeOK, Config
  <2>3. answer' \in Request /\ ~IsAlive(answer')
    BY <1>8, RequestTypes DEF Reply, IdsValid
  <2>4. QED
    BY <2>1, <2>2, <2>3 DEF IdsValid
<1>9. QED
  BY <1>1, <1>2, <1>3, <1>4, <1>5, <1>6, <1>7, <1>8 DEF DevNext, DevStep

-----------------------------------------------------------------------------
(* The plugin's queue.                                                      *)
\* Without its first message a queue still ends as it did, if it has another.
LEMMA TailEnds ==
    ASSUME NEW q \in Seq(Request), Ends(q), Len(q) # 1
    PROVE  Tail(q) \in Seq(Request) /\ Ends(Tail(q))
<1>1. Len(q) \in Nat /\ Len(q) > 1
  <2>1. q # <<>>
    BY DEF Ends
  <2>2. Len(q) \in Nat \ {0}
    BY <2>1
  <2>3. \A l \in Nat \ {0} : l # 1 => l > 1
    OBVIOUS
  <2>4. QED
    BY <2>2, <2>3
<1>2. Tail(q) \in Seq(Request) /\ Len(Tail(q)) = Len(q) - 1
  BY <1>1
<1>3. Tail(q)[Len(q) - 1] = q[Len(q)]
  BY <1>1
<1>4. Tail(q) # <<>>
  BY <1>1, <1>2, EmptySeq
<1>5. QED
  BY <1>2, <1>3, <1>4 DEF Ends

\* The messages the plugin builds are requests.
LEMMA RequestsBuilt ==
    ASSUME NEW id \in Ids
    PROVE  /\ Emergency(id) \in Request /\ AliveRequest \in Request
           /\ SetBaseAddress(id) \in Request
           /\ \A cmd \in {"SET_STATE", "WRITE_BOOTCONFIG", "RESET", "WRITE_INC"},
                 data \in Seq(Nat) : Boot(cmd, id, data) \in Request
           /\ \A new \in Ids : Boot("SET_MODULE_ADDR", id, <<new>>) \in Request
<1>1. id \in Nat /\ Ids \subseteq Nat
  BY HostAssumption
<1>2. <<>> \in Seq(Nat) /\ <<0>> \in Seq(Nat) /\ Len(<<0>>) = 1
  OBVIOUS
<1>3. Emergency(id) \in Request /\ AliveRequest \in Request
  BY <1>1, <1>2 DEF Emergency, AliveRequest, Broadcast, Msg, Message, Request
<1>4. SetBaseAddress(id) \in Request
  BY <1>1, <1>2 DEF SetBaseAddress, Boot, Msg, Message, BootCommands, Request
<1>5. \A cmd \in {"SET_STATE", "WRITE_BOOTCONFIG", "RESET", "WRITE_INC"},
         data \in Seq(Nat) : Boot(cmd, id, data) \in Request
  BY <1>1 DEF Boot, Msg, Message, BootCommands, Request
<1>6. ASSUME NEW new \in Ids
      PROVE  Boot("SET_MODULE_ADDR", id, <<new>>) \in Request
  <2>1. <<new>> \in Seq(Nat) /\ <<new>>[1] = new
    BY <1>1
  <2>2. QED
    BY <1>1, <2>1 DEF Boot, Msg, Message, BootCommands, Request
<1>7. QED
  BY <1>3, <1>4, <1>5, <1>6

\* Each WRITE_INC carries words of the image.
LEMMA DataType ==
    ASSUME NEW id \in Ids, NEW words \in Images
    PROVE  SendDataInc(id, words) \in Seq(Request)
<1> DEFINE count == Len(words) \div ChunkWords
<1>1. words \in Seq(Nat) /\ ChunkWords \in Nat \ {0} /\ Len(words) \in Nat
  BY HostAssumption
<1>2. count \in Nat /\ count * ChunkWords <= Len(words)
  BY <1>1
<1>3. ASSUME NEW n \in 1..count
      PROVE  /\ (n - 1) * ChunkWords + 1 \in 1..Len(words) + 1
             /\ n * ChunkWords \in (n - 1) * ChunkWords .. Len(words)
  BY <1>1, <1>2, SMTT(20)
<1>4. ASSUME NEW n \in 1..count
      PROVE  SubSeq(words, (n - 1) * ChunkWords + 1, n * ChunkWords) \in Seq(Nat)
  <2> DEFINE from == (n - 1) * ChunkWords + 1
             to   == n * ChunkWords
  <2>1. from \in 1..Len(words) + 1 /\ to \in from - 1 .. Len(words)
    BY <1>1, <1>3
  <2> HIDE DEF from, to
  <2>2. SubSeq(words, from, to) \in Seq(Nat)
    BY <1>1, <2>1, SubSeqProperties
  <2>3. QED
    BY <2>2 DEF from, to
<1>5. SendDataInc(id, words) \in [1..count -> Request]
  BY <1>4, RequestsBuilt DEF SendDataInc
<1>6. QED
  BY <1>2, <1>5, SeqDef

\* An upload ends in the reset of the module.
LEMMA UploadQueueEnds ==
    ASSUME NEW id \in Ids, NEW words \in Images
    PROVE  /\ MessageQueue(id, words) \in Seq(Request)
           /\ Ends(MessageQueue(id, words))
<1> DEFINE first == <<Emergency(id), SetBaseAddress(id)>>
           data  == SendDataInc(id, words)
           last  == <<Boot("SET_STATE", id, <<BOOT_NORMAL>>),
                      Boot("WRITE_BOOTCONFIG", id, <<>>), Boot("RESET", id, <<>>)>>
<1>1. first \in Seq(Request)
  BY RequestsBuilt
<1>2. data \in Seq(Request)
  BY DataType
<1>3. last \in Seq(Request) /\ Len(last) = 3 /\ last[3].type = "BOOTLOADER"
  <2>1. <<BOOT_NORMAL>> \in Seq(Nat) /\ <<>> \in Seq(Nat)
    BY DEF BOOT_NORMAL
  <2>2. /\ Boot("SET_STATE", id, <<BOOT_NORMAL>>) \in Request
        /\ Boot("WRITE_BOOTCONFIG", id, <<>>) \in Request
        /\ Boot("RESET", id, <<>>) \in Request
    BY <2>1, RequestsBuilt
  <2>3. Boot("RESET", id, <<>>).type = "BOOTLOADER"
    BY DEF Boot, Msg
  <2>4. QED
    BY <2>2, <2>3
<1>4. MessageQueue(id, words) = (first \o data) \o last
  BY DEF MessageQueue
<1> HIDE DEF first, data, last
<1>5. first \o data \in Seq(Request)
  BY <1>1, <1>2, ConcatProperties
<1> DEFINE most == first \o data
<1> HIDE DEF most
<1>6. /\ most \o last \in Seq(Request) /\ Len(most \o last) = Len(most) + 3
      /\ Len(most) \in Nat
      /\ (most \o last)[Len(most) + 3] = last[3]
  <2>1. most \in Seq(Request) /\ Len(most) \in Nat
    BY <1>5 DEF most
  <2>2. /\ most \o last \in Seq(Request) /\ Len(most \o last) = Len(most) + Len(last)
        /\ \A i \in 1..Len(most) + Len(last) :
              (most \o last)[i] = IF i <= Len(most) THEN most[i] ELSE last[i - Len(most)]
    BY <1>3, <2>1, ConcatProperties
  <2>3. QED
    BY <1>3, <2>1, <2>2
<1>7. most \o last # <<>>
  BY <1>6, EmptySeq
<1>8. QED
  BY <1>3, <1>4, <1>6, <1>7 DEF Ends, most

\* A change of id is two messages.
LEMMA ChangeQueueEnds ==
    ASSUME NEW id \in Ids, NEW new \in Ids, NEW q,
           q = <<Emergency(id), Boot("SET_MODULE_ADDR", id, <<new>>)>>
    PROVE  q \in Seq(Request) /\ Ends(q)
<1>1. q \in Seq(Request) /\ Len(q) = 2
  BY RequestsBuilt
<1>2. q[2].type = "BOOTLOADER"
  BY DEF Boot, Msg
<1>3. q # <<>>
  BY <1>1, EmptySeq
<1>4. QED
  BY <1>1, <1>2, <1>3 DEF Ends

-----------------------------------------------------------------------------
(* The plugin and the manager's list.                                       *)
Entry == [id : Ids, state : Nat]

\* The ids of a list of modules, by position.
LEMMA IdsAt ==
    ASSUME NEW list \in Seq(Entry)
    PROVE  /\ {m.id : m \in Range(list)} = {list[n].id : n \in 1..Len(list)}
           /\ {m.id : m \in Range(list)} \subseteq Ids
<1>1. Range(list) = {list[n] : n \in 1..Len(list)}
  BY DEF Range
<1>2. \A n \in 1..Len(list) : list[n].id \in Ids
  <2>1. \A n \in 1..Len(list) : list[n] \in Entry
    OBVIOUS
  <2>2. QED
    BY <2>1 DEF Entry
<1>3. QED
  BY <1>1, <1>2

\* The combo box and m_module, rebuilt, show modules of the list.
LEMMA Rebuilt ==
    ASSUME modules' \in Seq(Entry), NEW mod \in Ids \cup {NoId},
           modules' = <<>> => mod = NoId,
           RebuildCombo(modules', mod)
    PROVE  /\ combo' \in Ids \cup {NoId} /\ module' \in Ids \cup {NoId}
           /\ NoDanglingModule'
<1> DEFINE ids == {m.id : m \in Range(modules')}
<1>1. ids = {modules'[n].id : n \in 1..Len(modules')} /\ ids \subseteq Ids
  BY IdsAt
<1>2. CASE modules' = <<>>
  BY <1>2 DEF RebuildCombo, NoDanglingModule
<1>3. CASE modules' # <<>>
  <2>1. combo' = Head(modules').id /\ module' = Min(ids)
    BY <1>3 DEF RebuildCombo
  <2>2. Head(modules').id \in Ids
    <3>1. Head(modules') \in Entry
      BY <1>3
    <3>2. QED
      BY <3>1 DEF Entry
  <2>3. ids # {}
    <3>1. 1 \in 1..Len(modules')
      BY <1>3, EmptySeq
    <3>2. QED
      BY <1>1, <3>1
  <2>4. ids \subseteq Nat
    <3>1. Ids \subseteq Nat
      BY HostAssumption
    <3> HIDE DEF ids
    <3>2. QED
      BY <1>1, <3>1
  <2>5. Min(ids) \in ids
    BY <2>3, <2>4, MinIn
  <2>6. QED
    BY <1>1, <2>1, <2>2, <2>5 DEF NoDanglingModule, Known
<1>4. QED
  BY <1>2, <1>3

Plugin == HostTypeOK /\ QueueEnds /\ NoDanglingModule
Links  == toDev \in Seq(Request) /\ toHost \in Seq(Report)

\* An answer to an alive request, of a module known or new.
LEMMA DiscoverKeeps ==
    ASSUME Plugin, NEW id \in Ids, NEW state \in Nat, Discover(id, state)
    PROVE  Plugin'
<1> USE DEF Plugin
<1>1. modules \in Seq(Entry) /\ [id |-> id, state |-> state] \in Entry
  BY DEF HostTypeOK, Entry
<1>2. /\ modules' \in Seq(Entry)
      /\ combo' \in Ids \cup {NoId} /\ module' \in Ids \cup {NoId}
      /\ NoDanglingModule'
  <2>1. CASE id \in Known
    <3>1. modules' = [n \in DOMAIN modules |->
                         IF modules[n].id = id
                            THEN [modules[n] EXCEPT !.state = state]
                            ELSE modules[n]]
      BY <2>1 DEF Discover
    <3>2. \A n \in 1..Len(modules) : modules[n] \in Entry
      BY <1>1
    <3>3. \A n \in 1..Len(modules) :
             modules'[n] \in Entry /\ modules'[n].id = modules[n].id
      BY <1>1, <3>1, <3>2 DEF Entry
    <3>4. modules' \in [1..Len(modules) -> Entry] /\ Len(modules) \in Nat
      <4>1. DOMAIN modules = 1..Len(modules) /\ Len(modules) \in Nat
        BY <1>1
      <4>2. modules' = [n \in 1..Len(modules) |-> modules'[n]]
        BY <3>1, <4>1
      <4>3. QED
        BY <3>3, <4>1, <4>2
    <3>5. modules' \in Seq(Entry) /\ Len(modules') = Len(modules)
      BY <3>4, SeqDef
    <3>6. Known' = Known
      BY <1>1, <3>3, <3>5, IdsAt DEF Known
    <3>7. QED
      BY <2>1, <3>5, <3>6 DEF Discover, HostTypeOK, NoDanglingModule
  <2>2. CASE id \notin Known
    <3>1. modules' = Append(modules, [id |-> id, state |-> state])
          /\ RebuildCombo(modules', module)
      BY <2>2 DEF Discover
    <3>2. modules' \in Seq(Entry) /\ Len(modules') = Len(modules) + 1
      BY <1>1, <3>1
    <3>3. modules' # <<>>
      BY <1>1, <3>2, EmptySeq
    <3>4. module \in Ids \cup {NoId}
      BY DEF HostTypeOK
    <3>5. QED
      BY <3>1, <3>2, <3>3, <3>4, Rebuilt
  <2>3. QED
    BY <2>1, <2>2
<1>3. UNCHANGED <<queue, active, timerOn, orphan, observing, buttons, dialog,
                  elapsed, outcome, image, uploads>>
  BY DEF Discover
<1>4. HostTypeOK'
  BY <1>2, <1>3 DEF HostTypeOK, Entry
<1>5. QED
  BY <1>2, <1>3, <1>4 DEF QueueEnds

\* stop() leaves nothing of the dialogue.
LEMMA StopKeeps ==
    ASSUME Plugin, NEW result \in {"done", "error", "stopped"}, StopWith(result)
    PROVE  Plugin'
<1> USE DEF Plugin, StopWith, Stop
<1>1. HostTypeOK'
  <2>1. <<>> \in Seq(Message)
    OBVIOUS
  <2>2. QED
    BY <2>1 DEF HostTypeOK, NoId
<1>2. QueueEnds'
  <2>1. <<>> \in Seq(Request)
    OBVIOUS
  <2>2. QED
    BY <2>1 DEF QueueEnds
<1>3. NoDanglingModule'
  BY DEF NoDanglingModule
<1>4. QED
  BY <1>1, <1>2, <1>3

\* A request is added to what is on its way to the module.
LEMMA PushKeeps ==
    ASSUME Links, NEW m \in Request, Push(m)
    PROVE  toDev' \in Seq(Request)
  BY DEF Links, Push

\* Requests and reports are messages.
LEMMA RequestsAreMessages ==
    /\ Seq(Request) \subseteq Seq(Message) /\ Seq(Report) \subseteq Seq(Message)
<1>1. Request \subseteq Message /\ Report \subseteq Message
  BY DEF Request, Report
<1>2. QED
  BY <1>1

\* A queue that ends as it should has a request at its front.
LEMMA FrontOf ==
    ASSUME NEW q \in Seq(Request), Ends(q)
    PROVE  Head(q) \in Request
  BY Taken DEF Ends

\* The upload button.
LEMMA UploadKeeps ==
    ASSUME Plugin, Links, Upload
    PROVE  Plugin' /\ Links'
<1> USE DEF Plugin
<1>1. combo \in Known /\ combo \in Ids
  <2>1. modules \in Seq(Entry)
    BY DEF HostTypeOK, Entry
  <2>2. Known \subseteq Ids
    BY <2>1, IdsAt DEF Known
  <2>3. QED
    BY <2>2 DEF Upload
<1>2. PICK words \in Images :
         /\ image' = words /\ queue' = MessageQueue(combo, words)
         /\ Push(Head(queue'))
  BY DEF Upload
<1>3. queue' \in Seq(Request) /\ Ends(queue')
  BY <1>1, <1>2, UploadQueueEnds
<1>4. /\ module' = combo /\ active' = TRUE /\ observing' = TRUE
      /\ buttons' = FALSE /\ elapsed' = "fresh" /\ outcome' = "none"
      /\ timerOn' = TRUE /\ orphan' = (orphan \/ timerOn)
      /\ uploads' = uploads + 1 /\ uploads < MaxUploads
      /\ UNCHANGED <<combo, dialog, modules, toHost>>
  BY DEF Upload, StartTimer
<1>5. HostTypeOK'
  <2>1. queue' \in Seq(Message) /\ image' \in Images
    BY <1>2, <1>3, RequestsAreMessages
  <2>2. uploads' \in 0..MaxUploads
    BY <1>4, HostAssumption DEF HostTypeOK
  <2>3. elapsed' \in Elapsed
    BY <1>4 DEF Elapsed
  <2>4. /\ active' \in BOOLEAN /\ timerOn' \in BOOLEAN /\ orphan' \in BOOLEAN
        /\ observing' \in BOOLEAN /\ buttons' \in BOOLEAN
    BY <1>4 DEF HostTypeOK
  <2>5. QED
    BY <1>1, <1>4, <2>1, <2>2, <2>3, <2>4, Zenon DEF HostTypeOK
<1>6. NoDanglingModule'
  BY <1>1, <1>4 DEF NoDanglingModule, Known
<1>7. toDev' \in Seq(Request)
  BY <1>2, <1>3, FrontOf, PushKeeps
<1>8. QED
  BY <1>3, <1>4, <1>5, <1>6, <1>7 DEF QueueEnds, Links

\* The button that changes the id.
LEMMA ChangeKeeps ==
    ASSUME Plugin, Links, NEW id \in NewIds, ChangeModuleID(id)
    PROVE  Plugin' /\ Links'
<1> USE DEF Plugin
<1>1. module \in Known /\ module \in Ids /\ id \in Ids
  <2>1. modules \in Seq(Entry)
    BY DEF HostTypeOK, Entry
  <2>2. Known \subseteq Ids
    BY <2>1, IdsAt DEF Known
  <2>3. QED
    BY <2>2, UploadAssumption DEF ChangeModuleID
<1>2. queue' \in Seq(Request) /\ Ends(queue')
  BY <1>1, ChangeQueueEnds DEF ChangeModuleID
<1>3. /\ active' = TRUE /\ Push(Head(queue'))
      /\ timerOn' = TRUE /\ orphan' = (orphan \/ timerOn) /\ dialog' = FALSE
      /\ UNCHANGED <<observing, module, combo, buttons, modules, elapsed,
                     outcome, image, uploads, toHost>>
  BY DEF ChangeModuleID, StartTimer
<1>4. HostTypeOK'
  <2>1. queue' \in Seq(Message)
    BY <1>2, RequestsAreMessages
  <2>2. /\ active' \in BOOLEAN /\ timerOn' \in BOOLEAN /\ orphan' \in BOOLEAN
        /\ dialog' \in BOOLEAN
    BY <1>3 DEF HostTypeOK
  <2>3. QED
    BY <1>3, <2>1, <2>2 DEF HostTypeOK
<1>5. NoDanglingModule'
  BY <1>3 DEF NoDanglingModule, Known
<1>6. toDev' \in Seq(Request)
  BY <1>2, <1>3, FrontOf, PushKeeps
<1>7. QED
  BY <1>2, <1>3, <1>4, <1>5, <1>6 DEF QueueEnds, Links

\* A queue that moves on to its next message, or sends its first again.
LEMMA QueueKeeps ==
    ASSUME Plugin, Links, queue' \in Seq(Request), Ends(queue'),
           Push(Head(queue')), elapsed' \in Elapsed,
           UNCHANGED <<active, timerOn, orphan, observing, module, combo, buttons,
                       dialog, modules, outcome, image, uploads>>
    PROVE  Plugin' /\ toDev' \in Seq(Request)
<1>1. HostTypeOK'
  <2>1. queue' \in Seq(Message)
    BY RequestsAreMessages
  <2>2. QED
    BY <2>1 DEF Plugin, HostTypeOK
<1>2. NoDanglingModule'
  BY DEF Plugin, NoDanglingModule, Known
<1>3. toDev' \in Seq(Request)
  BY FrontOf, PushKeeps
<1>4. QED
  BY <1>1, <1>2, <1>3 DEF Plugin, QueueEnds

\* event(): an answer.
LEMMA AnswerKeeps ==
    ASSUME Plugin, Links, HandleAnswer
    PROVE  Plugin' /\ Links'
<1>1. toHost' \in Seq(Report)
  BY Taken DEF HandleAnswer, Links
<1>2. CASE UNCHANGED <<hostVars, toDev>>
  BY <1>1, <1>2 DEF hostVars, Plugin, HostTypeOK, QueueEnds, NoDanglingModule,
                    Known, Links
<1>3. CASE (StopWith("error") \/ StopWith("done")) /\ UNCHANGED toDev
  BY <1>1, <1>3, StopKeeps DEF Links
<1>4. CASE active /\ Len(queue) # 1 /\ Accepted
  <2>1. queue \in Seq(Request) /\ Ends(queue)
    BY <1>4 DEF Plugin, QueueEnds
  <2>2. queue' \in Seq(Request) /\ Ends(queue')
    BY <1>4, <2>1, TailEnds DEF Accepted
  <2>3. Plugin' /\ toDev' \in Seq(Request)
    BY <1>4, <2>2, QueueKeeps DEF Accepted, Elapsed
  <2>4. QED
    BY <1>1, <2>3 DEF Links
<1>5. QED
  BY <1>2, <1>3, <1>4 DEF HandleAnswer

\* timeout().
LEMMA TimeoutKeeps ==
    ASSUME Plugin, Links, Timeout
    PROVE  Plugin' /\ Links'
<1>1. CASE StopWith("stopped") /\ UNCHANGED linkVars
  BY <1>1, StopKeeps DEF Links, linkVars
<1>2. CASE active /\ Resend
  <2>1. queue \in Seq(Request) /\ Ends(queue)
    BY <1>2 DEF Plugin, QueueEnds
  <2>2. CASE Head(queue).type # "BOOTLOADER"
    <3>1. Len(queue) # 1
      BY <2>1, <2>2 DEF Ends
    <3>2. Tail(queue) \in Seq(Request) /\ Ends(Tail(queue))
      BY <2>1, <3>1, TailEnds
    <3>3. queue' \in Seq(Request) /\ Ends(queue')
      BY <1>2, <2>2, <3>2 DEF Resend, ToResend
    <3>4. elapsed' \in Elapsed
      BY <1>2 DEF Resend, Plugin, HostTypeOK
    <3>5. QED
      BY <1>2, <3>3, <3>4, QueueKeeps DEF Resend, Links
  <2>3. CASE Head(queue).type = "BOOTLOADER"
    <3>1. queue' \in Seq(Request) /\ Ends(queue')
      BY <1>2, <2>1, <2>3 DEF Resend, ToResend
    <3>2. elapsed' \in Elapsed
      BY <1>2 DEF Resend, Plugin, HostTypeOK
    <3>3. QED
      BY <1>2, <3>1, <3>2, QueueKeeps DEF Resend, Links
  <2>4. QED
    BY <2>2, <2>3
<1>3. QED
  BY <1>1, <1>2 DEF Timeout

\* The manager deletes a module: what is programmed is stopped when it is that
\* one, and the combo box shows one that is left.
LEMMA RemovalKeeps ==
    ASSUME Plugin, Links, NEW id \in Ids, ModuleRemoved(id)
    PROVE  Plugin' /\ Links'
<1> USE DEF Plugin
<1>1. modules \in Seq(Entry) /\ DOMAIN modules = 1..Len(modules)
  BY DEF HostTypeOK, Entry
<1>2. PICK n \in 1..Len(modules) :
         modules[n].id = id /\ modules' = RemoveAt(modules, n)
  BY <1>1 DEF ModuleRemoved
<1>3. modules' \in Seq(Entry)
  BY <1>1, <1>2, Removal
<1>4. UNCHANGED <<orphan, dialog, elapsed, image, uploads, linkVars>>
  BY DEF ModuleRemoved
<1>5. CASE module = id
  <2>1. /\ timerOn' = FALSE /\ active' = FALSE /\ buttons' = TRUE
        /\ observing' = (observing /\ ~active) /\ queue' = <<>>
        /\ outcome' = IF buttons THEN outcome ELSE "stopped"
        /\ RebuildCombo(modules', NoId)
    BY <1>5 DEF ModuleRemoved
  <2>2. /\ combo' \in Ids \cup {NoId} /\ module' \in Ids \cup {NoId}
        /\ NoDanglingModule'
    BY <1>3, <2>1, Rebuilt
  <2>3. HostTypeOK'
    <3>1. <<>> \in Seq(Message)
      OBVIOUS
    <3>2. /\ timerOn' \in BOOLEAN /\ active' \in BOOLEAN /\ buttons' \in BOOLEAN
          /\ observing' \in BOOLEAN /\ outcome' \in {"none", "done", "error", "stopped"}
      BY <2>1 DEF HostTypeOK
    <3>3. QED
      BY <1>3, <1>4, <2>1, <2>2, <3>1, <3>2 DEF HostTypeOK, Entry
  <2>4. QueueEnds'
    <3>1. <<>> \in Seq(Request)
      OBVIOUS
    <3>2. QED
      BY <2>1, <3>1 DEF QueueEnds
  <2>5. QED
    BY <1>4, <2>2, <2>3, <2>4 DEF Links, linkVars
<1>6. CASE module # id
  <2>1. /\ UNCHANGED <<timerOn, active, buttons, observing, queue, outcome>>
        /\ RebuildCombo(modules', module)
    BY <1>6 DEF ModuleRemoved
  <2>2. modules' = <<>> => module = NoId
    <3>1. SUFFICES ASSUME module # NoId
                   PROVE  modules' # <<>>
      OBVIOUS
    <3>2. PICK k \in 1..Len(modules) : modules[k].id = module
      BY <1>1, <3>1, IdsAt DEF NoDanglingModule, Known
    <3>3. k # n
      BY <1>2, <1>6, <3>2
    <3>4. PICK j \in 1..Len(modules') : modules'[j] = modules[k]
      BY <1>1, <1>2, <3>3, Removal
    <3>5. Len(modules') # 0
      BY <3>4
    <3>6. Len(<<>>) = 0
      BY EmptySeq
    <3>7. QED
      BY <3>5, <3>6
  <2>3. module \in Ids \cup {NoId}
    BY DEF HostTypeOK
  <2>4. /\ combo' \in Ids \cup {NoId} /\ module' \in Ids \cup {NoId}
        /\ NoDanglingModule'
    BY <1>3, <2>1, <2>2, <2>3, Rebuilt
  <2>5. HostTypeOK'
    BY <1>3, <1>4, <2>1, <2>4 DEF HostTypeOK, Entry
  <2>6. QED
    BY <1>4, <2>1, <2>4, <2>5 DEF QueueEnds, Links, linkVars
<1>7. QED
  BY <1>5, <1>6

\* Every slot of the GUI thread keeps what the plugin needs.
LEMMA HostStepKeeps ==
    ASSUME Plugin, Links, HostStep
    PROVE  Plugin' /\ Links'
<1>1. CASE Upload
  BY <1>1, UploadKeeps
<1>2. CASE StopButton
  BY <1>2, StopKeeps DEF StopButton, Links, linkVars
<1>3. CASE \E id \in NewIds : ChangeModuleID(id)
  BY <1>3, ChangeKeeps
<1>4. CASE HandleAnswer
  BY <1>4, AnswerKeeps
<1>5. CASE HandleAlive
  <2>1. Got \in Report /\ toHost' \in Seq(Report) /\ UNCHANGED toDev
    BY <1>5, Taken DEF HandleAlive, Got, Links
  <2>2. Got.data[1] \in Nat /\ Got.data[2] \in Ids
    BY <1>5, <2>1 DEF HandleAlive, Report
  <2>3. Plugin'
    BY <1>5, <2>2, DiscoverKeeps DEF HandleAlive
  <2>4. QED
    BY <2>1, <2>3 DEF Links
<1>6. CASE Timeout
  BY <1>6, TimeoutKeeps
<1>7. CASE TimePasses
  BY <1>7 DEF TimePasses, Plugin, HostTypeOK, Elapsed, QueueEnds,
              NoDanglingModule, Known, Links, linkVars
<1>8. CASE PollAlive
  <2>1. toDev' \in Seq(Request) /\ UNCHANGED <<hostVars, toHost>>
    BY <1>8, PushKeeps, RequestsBuilt, HostAssumption DEF PollAlive
  <2>2. QED
    BY <2>1 DEF hostVars, Plugin, HostTypeOK, QueueEnds, NoDanglingModule,
                Known, Links
<1>9. CASE \E id \in Ids : ComboActivated(id)
  <2>1. PICK id \in Ids : ComboActivated(id)
    BY <1>9
  <2>2. QED
    BY <2>1 DEF ComboActivated, Plugin, HostTypeOK, QueueEnds,
                NoDanglingModule, Known, Links, linkVars
<1>10. CASE \E id \in Ids : ModuleRemoved(id)
  BY <1>10, RemovalKeeps
<1>11. CASE \E id \in Others, state \in {BOOT_NORMAL, BOOT_IDLE} : OtherAlive(id, state)
  <2>1. PICK id \in Ids, state \in Nat : OtherAlive(id, state)
    BY <1>11, UploadAssumption DEF BOOT_NORMAL, BOOT_IDLE
  <2>2. Plugin'
    BY <2>1, DiscoverKeeps DEF OtherAlive
  <2>3. QED
    BY <2>1, <2>2 DEF OtherAlive, Links, linkVars
<1>12. CASE OpenDialog \/ CancelDialog
  <2>1. /\ UNCHANGED <<queue, active, timerOn, orphan, observing, module, combo, buttons,
                       modules, elapsed, outcome, image, uploads, linkVars>>
        /\ dialog' \in BOOLEAN
    BY <1>12 DEF OpenDialog, CancelDialog
  <2>2. QED
    BY <2>1 DEF Plugin, HostTypeOK, QueueEnds, NoDanglingModule, Known, Links, linkVars
<1>13. QED
  BY <1>1, <1>2, <1>3, <1>4, <1>5, <1>6, <1>7, <1>8, <1>9, <1>10, <1>11, <1>12
     DEF HostStep

-----------------------------------------------------------------------------
\* The module discovered is the one selected, and nothing is under way.
LEMMA InitInv == Init => Inv
<1> SUFFICES ASSUME Init PROVE Inv
  OBVIOUS
<1>1. ModuleTypeOK
  BY DevInitType, UploadAssumption DEF Init
<1>2. DefaultId \in Ids /\ Ids \subseteq Nat
  BY UploadAssumption, HostAssumption
<1>3. IdsValid
  <2>1. toDev = <<>> /\ toHost = <<>> /\ answer = NoMessage
    BY DEF Init, LinkInit, DevInit
  <2>2. toDev \in Seq(Request) /\ toHost \in Seq(Report)
    BY <2>1
  <2>3. config.id \in Ids /\ eeprom.id \in Ids \cup {255}
    BY <1>2 DEF Init, DevInit, FirstConfig, ErasedConfig
  <2>4. QED
    BY <2>1, <2>2, <2>3, RequestTypes DEF IdsValid
<1>4. PICK state \in Nat : HostInit(DefaultId, state)
  BY <1>1 DEF Init, ModuleTypeOK, DevTypeOK, Config, BOOT_IDLE
<1>5. modules \in Seq(Entry) /\ Len(modules) = 1 /\ modules[1].id = DefaultId
  <2>1. [id |-> DefaultId, state |-> state] \in Entry
    BY <1>2 DEF Entry
  <2>2. QED
    BY <1>4, <2>1 DEF HostInit
<1>6. HostTypeOK
  <2>1. queue \in Seq(Message) /\ uploads \in 0..MaxUploads
    BY <1>4, HostAssumption DEF HostInit
  <2>2. QED
    BY <1>2, <1>4, <1>5, <2>1 DEF HostInit, HostTypeOK, Entry, Elapsed
<1>7. QueueEnds
  <2>1. queue = <<>> /\ active = FALSE
    BY <1>4 DEF HostInit
  <2>2. QED
    BY <2>1 DEF QueueEnds
<1>8. NoDanglingModule
  <2>1. 1 \in 1..Len(modules)
    BY <1>5
  <2>2. DefaultId \in Known
    BY <1>5, <2>1, IdsAt DEF Known
  <2>3. QED
    BY <1>4, <2>2 DEF HostInit, NoDanglingModule
<1>9. stored = NoImage
  BY DEF Init
<1>10. QED
  BY <1>1, <1>3, <1>6, <1>7, <1>8, <1>9 DEF Inv, TypeOK

\* Every step of plugin, module and paths keeps the inductive invariant.
LEMMA StepInv == Inv /\ [Next]_vars => Inv'
<1> SUFFICES ASSUME Inv, [Next]_vars PROVE Inv'
  OBVIOUS
<1> USE DEF Inv, TypeOK
<1>0. stored' \in Images \cup {NoImage}
  BY DEF Next, Stores, HostTypeOK, vars
<1>1. CASE DevNext /\ UNCHANGED <<hostVars, answersLost>>
  <2>1. ModuleTypeOK' /\ IdsValid'
    BY <1>1, DevStepType, DevStepIds
  <2>2. QED
    BY <1>0, <1>1, <2>1 DEF hostVars, HostTypeOK, QueueEnds, NoDanglingModule, Known
<1>2. CASE HostStep /\ UNCHANGED <<devVars, answersLost>>
  <2>1. Plugin' /\ Links'
    BY <1>2, HostStepKeeps DEF Plugin, Links, IdsValid
  <2>2. LinkTypeOK'
    BY <2>1, RequestsAreMessages DEF Links, LinkTypeOK
  <2>3. DevTypeOK'
    BY <1>2 DEF ModuleTypeOK, DevTypeOK, devVars
  <2>4. IdsValid'
    BY <1>2, <2>1 DEF IdsValid, Links, devVars, IsAlive
  <2>5. QED
    BY <1>0, <2>1, <2>2, <2>3, <2>4 DEF Plugin, ModuleTypeOK
<1>3. CASE (LoseRequest \/ LoseAnswer) /\ UNCHANGED <<devVars, hostVars>>
  <2>1. toDev' \in Seq(Request) /\ toHost' \in Seq(Report)
    BY <1>3, Taken DEF LoseRequest, LoseAnswer, IdsValid
  <2>2. LinkTypeOK'
    BY <2>1, RequestsAreMessages DEF LinkTypeOK
  <2>3. DevTypeOK'
    BY <1>3 DEF ModuleTypeOK, DevTypeOK, devVars
  <2>4. IdsValid'
    BY <1>3, <2>1 DEF IdsValid, devVars, IsAlive
  <2>5. QED
    BY <1>0, <1>3, <2>2, <2>3, <2>4
       DEF ModuleTypeOK, hostVars, HostTypeOK, QueueEnds, NoDanglingModule, Known
<1>4. CASE UNCHANGED vars
  BY <1>0, <1>4 DEF vars, linkVars, devVars, hostVars, ModuleTypeOK, LinkTypeOK,
              DevTypeOK, HostTypeOK, IdsValid, IsAlive, QueueEnds,
              NoDanglingModule, Known
<1>5. QED
  BY <1>1, <1>2, <1>3, <1>4 DEF Next

\* The inductive invariant holds in every state.
LEMMA AlwaysInv == Spec => []Inv
<1>1. QED
  BY InitInv, StepInv, PTL DEF Spec

\* Every variable of plugin, module and paths keeps its type, whatever the user
\* does, whichever modules come and go and whatever is lost.
THEOREM TypeCorrect == Spec => []TypeOK
<1>1. Inv => TypeOK
  BY DEF Inv
<1>2. QED
  BY <1>1, AlwaysInv, PTL

\* event() and timeout() never read the front of an empty queue.
THEOREM QueueIsNeverEmpty == Spec => []QueueNonEmpty
<1>1. Inv => QueueNonEmpty
  BY DEF Inv, QueueEnds, Ends, QueueNonEmpty
<1>2. QED
  BY <1>1, AlwaysInv, PTL

\* m_module is never left pointing to a module that has been deleted.
THEOREM ModuleNeverDangles == Spec => []NoDanglingModule
<1>1. Inv => NoDanglingModule
  BY DEF Inv
<1>2. QED
  BY <1>1, AlwaysInv, PTL

=============================================================================
