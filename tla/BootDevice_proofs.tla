------------------------- MODULE BootDevice_proofs -------------------------
(***************************************************************************)
(* The types of the bootloader's state under whatever is sent to it: what  *)
(* the proofs about the module with a client, and with the plugin, share.  *)
(***************************************************************************)
EXTENDS BootDevice, SequenceTheorems, TLAPS

USE LinkAssumption, DeviceAssumption

\* Messages keep their type through the operators that build them.
LEMMA MessageTypes ==
    /\ \A m \in Message : Nack(m) \in AnswerMessage
    /\ \A m \in Message, v \in Nat :
          m.cmd \notin {"SET_BASE_ADDR", "SET_MODULE_ADDR"} =>
             Valued(m, v) \in AnswerMessage
    /\ \A m \in Message :
          m.cmd # "SET_MODULE_ADDR" \/ Len(m.data) = 1 => m \in AnswerMessage
    /\ AnswerMessage \subseteq Message
    /\ \A s, i \in Nat : AliveAnswer(s, i) \in Message
    /\ NoMessage \in AnswerMessage
    /\ NoMessage.cmd = "RESET"
<1>1. \A m \in Message : Nack(m) \in AnswerMessage
  BY DEF Message, Nack, AnswerMessage
<1>2. ASSUME NEW m \in Message, NEW v \in Nat,
             m.cmd \notin {"SET_BASE_ADDR", "SET_MODULE_ADDR"}
      PROVE  Valued(m, v) \in AnswerMessage
  <2>1. <<v>> \in Seq(Nat)
    OBVIOUS
  <2>2. QED
    BY <1>2, <2>1 DEF Valued, Message, AnswerMessage
<1>3. ASSUME NEW s \in Nat, NEW i \in Nat
      PROVE  AliveAnswer(s, i) \in Message
  <2>1. <<s, i>> \in Seq(Nat)
    OBVIOUS
  <2>2. QED
    BY <2>1 DEF AliveAnswer, Msg, Message
<1>4. NoMessage \in AnswerMessage /\ NoMessage.cmd = "RESET"
  <2>1. <<>> \in Seq(Nat)
    OBVIOUS
  <2>2. QED
    BY <2>1 DEF NoMessage, Boot, Msg, Message, AnswerMessage, BootCommands
<1>5. \A m \in Message :
         m.cmd # "SET_MODULE_ADDR" \/ Len(m.data) = 1 => m \in AnswerMessage
  BY DEF AnswerMessage
<1>6. AnswerMessage \subseteq Message
  BY DEF AnswerMessage
<1>7. QED
  BY <1>1, <1>2, <1>3, <1>4, <1>5, <1>6

\* The page of an address and the place in it.
LEMMA Addresses ==
    /\ \A a \in Nat : a \div PageSize \in Nat /\ a % PageSize \in 0..PageSize-1
    /\ 0 \div PageSize = 0 /\ 0 % PageSize = 0
  OBVIOUS

\* The head and the tail of a non-empty queue of messages.
LEMMA QueueTypes ==
    ASSUME NEW q \in Seq(Message), q # <<>>
    PROVE  Head(q) \in Message /\ Tail(q) \in Seq(Message)
  OBVIOUS

\* What a reset leaves of the type invariant.
LEMMA RestartType ==
    ASSUME ModuleTypeOK, Restart
    PROVE  ModuleTypeOK'
<1>1. \A n \in 0..Len(toDev) : SubSeq(toDev, n + 1, Len(toDev)) \in Seq(Message)
  <2>1. toDev \in Seq(Message)
    BY DEF ModuleTypeOK, LinkTypeOK
  <2>2. QED
    BY <2>1, SubSeqProperties
<1>2. LinkTypeOK'
  BY <1>1 DEF Restart, ModuleTypeOK, LinkTypeOK
<1>3. BlankPage \in Page
  BY DEF BlankPage, Page
<1>4. FirstConfig \in Config
  BY DEF FirstConfig, Config, BOOT_IDLE
<1>5. config' \in Config /\ ph' \in Phases
  BY <1>4 DEF Restart, ModuleTypeOK, DevTypeOK, Phases
<1>6. page' \in Page
  BY <1>3 DEF Restart, ModuleTypeOK, DevTypeOK
<1>7. /\ mode' = "boot" /\ base' = 0 /\ skew' = 0 /\ off' = 0 /\ timer' = 0
      /\ ready' = FALSE
  BY DEF Restart
<1>8. /\ answer' \in AnswerMessage
      /\ UNCHANGED <<eeprom, flash>>
  BY MessageTypes DEF Restart
<1>9. DevTypeOK'
  <2>1. /\ mode' \in {"boot", "app"} /\ base' \in Nat /\ timer' \in Nat
        /\ skew' \in 0..PageSize-1 /\ off' \in 0..PageSize /\ ready' \in BOOLEAN
    <3>1. 0 \in Nat /\ 0 \in 0..PageSize-1 /\ 0 \in 0..PageSize
      OBVIOUS
    <3>2. QED
      BY <1>7, <3>1, Zenon
  <2>2. eeprom' \in Config /\ flash' \in [0..FlashPages-1 -> Page]
    BY <1>8 DEF ModuleTypeOK, DevTypeOK
  <2>3. QED
    BY <1>5, <1>6, <1>8, <2>1, <2>2, Zenon DEF DevTypeOK
<1>10. QED
  BY <1>2, <1>9 DEF ModuleTypeOK

\* The page buffer after an append, with and without the reset vector.
LEMMA PageTypes ==
    ASSUME ModuleTypeOK, NEW d \in Seq(Nat), off + Len(d) <= PageSize,
           NEW odd \in {<<>>} \cup {<<byte>> : byte \in 0..255}
    PROVE  Filled(d, odd) \in Page
<1>1. ASSUME NEW w \in 0..PageSize-1, w \in off..(off + Len(d) - 1)
      PROVE  d[w - off + 1] \in Nat
  <2>1. w - off + 1 \in 1..Len(d)
    BY <1>1 DEF ModuleTypeOK, DevTypeOK
  <2>2. QED
    BY <2>1
<1>2. \A w \in 0..PageSize-1 : page[w] \in Nat
  BY DEF ModuleTypeOK, DevTypeOK, Page
<1>3. ASSUME NEW w \in 0..PageSize-1, odd # <<>>
      PROVE  LowByte(page[w], odd[1]) \in Nat
  <2>1. PICK byte \in 0..255 : odd = <<byte>>
    BY <1>3
  <2>2. odd[1] \in Nat
    BY <2>1
  <2>3. PICK word \in Nat : word = page[w]
    BY <1>2
  <2>4. \A x, y \in Nat : (x - (x % 256)) + y \in Nat
    OBVIOUS
  <2>5. QED
    BY <2>2, <2>3, <2>4, Zenon DEF LowByte
<1>4. QED
  BY <1>1, <1>2, <1>3 DEF Filled, Page

\* Where the odd byte of a message that overruns the buffer may go.
LEMMA SpilledTypes ==
    ASSUME ModuleTypeOK, In \in Message, NEW c \in Spilled
    PROVE  /\ c \in Config /\ c.id = config.id
           /\ Unbootable(c) \in Config /\ Unbootable(c).id = config.id
           /\ Unbootable(c).state = BOOT_IDLE
<1>1. config \in Config
  BY DEF ModuleTypeOK, DevTypeOK
<1>2. c \in Config /\ c.id = config.id
  <2>1. CASE c = config
    BY <1>1, <2>1
  <2>2. CASE c # config
    <3>1. In.half # <<>> /\ c = [config EXCEPT !.state = In.half[1]]
      BY <2>2 DEF Spilled, Overruns
    <3>2. PICK byte \in 0..255 : In.half = <<byte>>
      BY <3>1 DEF Message
    <3>3. In.half[1] \in Nat
      BY <3>2
    <3>4. QED
      BY <1>1, <3>1, <3>3 DEF Config
  <2>3. QED
    BY <2>1, <2>2
<1>3. QED
  BY <1>2 DEF Unbootable, Config, BOOT_IDLE

\* What may become of a row that is programmed without being erased.
LEMMA OverwrittenTypes ==
    ASSUME NEW old \in Page, NEW new, NEW words \in Overwritten(old, new)
    PROVE  words \in Page
<1>1. words \in [0..PageSize-1 -> UNION {0..old[w] : w \in 0..PageSize-1}]
  BY DEF Overwritten
<1>2. \A w \in 0..PageSize-1 : 0..old[w] \subseteq Nat
  BY DEF Page
<1>3. UNION {0..old[w] : w \in 0..PageSize-1} \subseteq Nat
  BY <1>2, Zenon
<1>4. QED
  BY <1>1, <1>3 DEF Page

\* What is programmed is a page, wherever it goes; an aligned one goes to the
\* page erased before.
LEMMA ProgramTypes ==
    ASSUME ModuleTypeOK, ProgramPage
    PROVE  /\ flash' \in [0..FlashPages-1 -> Page]
           /\ skew = 0 => flash' = [flash EXCEPT ![base] = page]
           /\ \A p \in 0..FlashPages-1 :
                 p \notin {base, base + 1} => flash'[p] = flash[p]
<1>1. flash \in [0..FlashPages-1 -> Page] /\ page \in Page /\ skew \in 0..PageSize-1
  BY DEF ModuleTypeOK, DevTypeOK
<1>2. PICK place \in {skew, skew - (skew % 2)} : ProgramFrom(place)
  BY DEF ProgramPage
<1>3. skew = 0 => place = 0
  BY <1>1, <1>2
<1>4. CASE place = 0
  <2>1. flash' = [flash EXCEPT ![base] = page]
    BY <1>2, <1>4 DEF ProgramFrom
  <2>2. QED
    BY <1>1, <2>1
<1>5. CASE place # 0
  <2>1. PICK words \in Overwritten(flash[base + 1], Latches(place)) :
           flash' = [flash EXCEPT ![base + 1] = words]
    BY <1>2, <1>5 DEF ProgramFrom
  <2>2. CASE base + 1 \in 0..FlashPages-1
    <3>1. words \in Page
      BY <1>1, <2>1, <2>2, OverwrittenTypes
    <3>2. QED
      BY <1>1, <1>3, <1>5, <2>1, <3>1
  <2>3. CASE base + 1 \notin 0..FlashPages-1
    BY <1>1, <1>3, <1>5, <2>1, <2>3
  <2>4. QED
    BY <2>2, <2>3
<1>6. QED
  BY <1>4, <1>5

\* The word written at the reset vector keeps the type of the page buffer.
LEMMA ResetVectorType ==
    ASSUME NEW p \in Page
    PROVE  WithResetVector(p) \in Page /\ WithResetVector(p)[0] = ResetVector
  BY DEF WithResetVector, Page

-----------------------------------------------------------------------------
\* The initial states, configured or not, are type-correct.
LEMMA DevInitType ==
    ASSUME NEW App \in Nat, LinkInit, DevInit(App)
    PROVE  ModuleTypeOK
<1>1. LinkTypeOK
  BY DEF LinkInit, LinkTypeOK
<1>2. InitialFlash(App) \in [0..FlashPages-1 -> Page]
  BY DEF InitialFlash, Page
<1>3. eeprom \in Config /\ config \in Config
  BY DEF DevInit, Config, ErasedConfig, FirstConfig, BOOT_NORMAL, BOOT_IDLE
<1>4. BlankPage \in Page
  BY DEF BlankPage, Page
<1>5. /\ mode \in {"boot", "app"} /\ ph \in Phases
      /\ base = 0 /\ skew = 0 /\ off = 0 /\ timer = 0 /\ ready = FALSE
  BY DEF DevInit, Phases
<1>6. /\ flash \in [0..FlashPages-1 -> Page] /\ page \in Page
      /\ answer \in AnswerMessage
  BY <1>2, <1>4, MessageTypes DEF DevInit
<1>7. /\ base \in Nat /\ skew \in 0..PageSize-1 /\ timer \in Nat
      /\ off \in 0..PageSize /\ ready \in BOOLEAN
  <2>1. 0 \in Nat /\ 0 \in 0..PageSize-1 /\ 0 \in 0..PageSize
    OBVIOUS
  <2>2. QED
    BY <1>5, <2>1, Zenon
<1>8. QED
  BY <1>1, <1>3, <1>5, <1>6, <1>7, Zenon DEF ModuleTypeOK, DevTypeOK

\* A bootloader command takes a message off the queue and leaves the rest of
\* the handler to the steps that follow.
LEMMA CommandType ==
    ASSUME ModuleTypeOK, NEW cmd, Command(cmd)
    PROVE  /\ LinkTypeOK' /\ timer' \in Nat
           /\ In \in Message /\ In.cmd = cmd
           /\ ph = "loop"
  BY QueueTypes DEF ModuleTypeOK, LinkTypeOK, Command, Receive, In

\* SET_STATE and SET_DELAY, through their common operator.
LEMMA SetType ==
    ASSUME ModuleTypeOK, NEW cmd, cmd # "SET_MODULE_ADDR", NEW c, Set(cmd, c),
           Len(In.data) = 1 => c \in Config
    PROVE  ModuleTypeOK'
<1>1. Command(cmd)
  BY DEF Set
<1>2. QED
  BY <1>1, CommandType, MessageTypes, SMTT(20) DEF Set, Answer, ModuleTypeOK, DevTypeOK, Phases

\* The four GET commands, through their common operator.
LEMMA GetType ==
    ASSUME ModuleTypeOK, NEW cmd, cmd \notin {"SET_BASE_ADDR", "SET_MODULE_ADDR"},
           NEW v \in Nat, Get(cmd, v)
    PROVE  ModuleTypeOK'
<1>1. Command(cmd)
  BY DEF Get
<1>2. In \in Message /\ In.cmd \notin {"SET_BASE_ADDR", "SET_MODULE_ADDR"}
  BY <1>1, CommandType
<1>3. Valued(In, v) \in AnswerMessage
  BY <1>2, MessageTypes
<1>4. QED
  BY <1>1, <1>3, CommandType DEF Get, Answer, ModuleTypeOK, DevTypeOK, Phases

\* Every bootloader command keeps the type invariant.
LEMMA CommandStepType == ModuleTypeOK /\ BootCommand => ModuleTypeOK'
<1> SUFFICES ASSUME ModuleTypeOK, BootCommand PROVE ModuleTypeOK'
  OBVIOUS
<1> USE CommandType, MessageTypes
<1>1. CASE SetBaseAddr
  <2>1. Command("SET_BASE_ADDR")
    BY <1>1 DEF SetBaseAddr
  <2>2. In.data \in Seq(Nat) /\ Len(In.data) = 1
    BY <2>1 DEF Message
  <2>3. In.data[1] \in Nat
    BY <2>2
  <2>4. config' \in Config
    BY <1>1 DEF SetBaseAddr, Unbootable, ModuleTypeOK, DevTypeOK, Config, BOOT_IDLE
  <2>5. answer' \in AnswerMessage
    BY <1>1, <2>1 DEF SetBaseAddr, Answer
  <2>6. /\ base' \in Nat /\ skew' \in 0..PageSize-1
        /\ off' \in 0..PageSize /\ ready' \in BOOLEAN
        /\ ph' \in Phases /\ timer' \in Nat
    <3>1. In.data[1] \div PageSize \in Nat /\ In.data[1] % PageSize \in 0..PageSize-1
      BY <2>3, Addresses
    <3>2. /\ base' = In.data[1] \div PageSize /\ skew' = In.data[1] % PageSize
          /\ off' = 0 /\ ready' = TRUE /\ ph' = "reply"
      BY <1>1 DEF SetBaseAddr
    <3>3. 0 \in 0..PageSize /\ timer' \in Nat /\ "reply" \in Phases
      BY <2>1 DEF Phases
    <3>4. QED
      BY <3>1, <3>2, <3>3, Zenon
  <2>7. LinkTypeOK'
    BY <2>1
  <2>8. QED
    BY <1>1, <2>4, <2>5, <2>6, <2>7, Zenon DEF SetBaseAddr, ModuleTypeOK, DevTypeOK
<1>2. CASE SetState
  <2>1. Command("SET_STATE")
    BY <1>2 DEF SetState, Set
  <2>2. In.data \in Seq(Nat)
    BY <2>1 DEF Message
  <2>3. ASSUME Len(In.data) = 1
        PROVE  [config EXCEPT !.state = In.data[1]] \in Config
    <3>1. In.data[1] \in Nat
      BY <2>2, <2>3
    <3>2. QED
      BY <3>1 DEF ModuleTypeOK, DevTypeOK, Config
  <2>4. QED
    BY <1>2, <2>3, SetType DEF SetState
<1>3. CASE SetDelay
  <2>1. Command("SET_DELAY")
    BY <1>3 DEF SetDelay, Set
  <2>2. In.data \in Seq(Nat)
    BY <2>1 DEF Message
  <2>3. ASSUME Len(In.data) = 1
        PROVE  [config EXCEPT !.delay = In.data[1]] \in Config
    <3>1. In.data[1] \in Nat
      BY <2>2, <2>3
    <3>2. QED
      BY <3>1 DEF ModuleTypeOK, DevTypeOK, Config
  <2>4. QED
    BY <1>3, <2>3, SetType DEF SetDelay
<1>4. CASE \/ Get("GET_BASE_ADDR", BootPage * PageSize) \/ Get("GET_MODULE_ADDR", config.id)
           \/ Get("GET_STATE", config.state) \/ Get("GET_DELAY", config.delay)
  <2>1. {BootPage * PageSize, config.id, config.state, config.delay} \subseteq Nat
    BY DEF ModuleTypeOK, DevTypeOK, Config
  <2>2. QED
    BY <1>4, <2>1, GetType
<1>5. CASE NotImplemented
  <2>1. PICK cmd : Command(cmd)
    BY <1>5 DEF NotImplemented
  <2>2. QED
    BY <1>5, <2>1 DEF NotImplemented, Answer, ModuleTypeOK, DevTypeOK, Phases
<1>6. CASE AnswerFirst
  <2>1. PICK cmd : Command(cmd)
    BY <1>6 DEF AnswerFirst
  <2>2. QED
    BY <1>6, <2>1 DEF AnswerFirst, Answer, ModuleTypeOK, DevTypeOK, Phases
<1>7. CASE WriteBootConfig
  <2>1. Command("WRITE_BOOTCONFIG")
    BY <1>7 DEF WriteBootConfig
  <2>2. In \in AnswerMessage /\ LinkTypeOK' /\ timer' \in Nat
    BY <2>1
  <2>3. QED
    BY <1>7, <2>2 DEF WriteBootConfig, Answer, ModuleTypeOK, DevTypeOK, Phases
<1>8. CASE WriteInc
  <2>1. Command("WRITE_INC")
    BY <1>8 DEF WriteInc
  <2>2. In.data \in Seq(Nat) /\ Len(In.data) \in Nat
    BY <2>1 DEF Message
  <2>3. off' \in 0..PageSize
    <3>1. off' = IF off + Len(In.data) <= PageSize THEN off + Len(In.data) ELSE off
      BY <1>8 DEF WriteInc, Fits
    <3>2. off \in 0..PageSize
      BY DEF ModuleTypeOK, DevTypeOK
    <3>3. QED
      BY <2>2, <3>1, <3>2
  <2>4. (IF Fits THEN Filled(In.data, In.half) ELSE page) \in Page
    BY <2>1, <2>2, PageTypes DEF Fits, Message, ModuleTypeOK, DevTypeOK
  <2>5. page' \in Page
    BY <1>8, <2>4, ResetVectorType DEF WriteInc
  <2>6. config' \in Config
    BY <1>8, <2>1, SpilledTypes DEF WriteInc
  <2>7. answer' \in AnswerMessage
    BY <1>8, <2>1 DEF WriteInc, Answer
  <2>8. ph' \in Phases
    BY <1>8 DEF WriteInc, Phases
  <2>9. QED
    BY <1>8, <2>1, <2>3, <2>5, <2>6, <2>7, <2>8 DEF WriteInc, ModuleTypeOK, DevTypeOK
<1>9. QED
  BY <1>1, <1>2, <1>3, <1>4, <1>5, <1>6, <1>7, <1>8 DEF BootCommand

-----------------------------------------------------------------------------
\* Every step of the module, power failures included, keeps its type.
LEMMA DevStepType == ModuleTypeOK /\ DevNext => ModuleTypeOK'
<1> SUFFICES ASSUME ModuleTypeOK, DevNext PROVE ModuleTypeOK'
  OBVIOUS
<1> USE DEF ModuleTypeOK, LinkTypeOK
<1>1. CASE Filtered
  <2>1. toDev' \in Seq(Message)
    BY <1>1, QueueTypes DEF Filtered
  <2>2. QED
    BY <1>1, <2>1 DEF Filtered, devVars, DevTypeOK
<1>2. CASE BootAlive \/ AppAlive
  <2>1. toDev' \in Seq(Message)
    BY <1>2, QueueTypes DEF BootAlive, AppAlive, Receive
  <2>2. \A s \in {BOOT_IDLE, eeprom.state} : AliveAnswer(s, config.id) \in Message
    BY MessageTypes DEF DevTypeOK, Config, BOOT_IDLE
  <2>3. PICK s \in {BOOT_IDLE, eeprom.state} : ToHost(AliveAnswer(s, config.id))
    BY <1>2 DEF BootAlive, AppAlive
  <2>5. toHost' \in Seq(Message)
    BY <2>2, <2>3 DEF ToHost
  <2>4. QED
    BY <1>2, <2>1, <2>5 DEF BootAlive, AppAlive, devVars, DevTypeOK
<1>3. CASE Ignore
  <2>1. toDev' \in Seq(Message)
    BY <1>3, QueueTypes DEF Ignore, Receive
  <2>2. QED
    BY <1>3, <2>1 DEF Ignore, devVars, DevTypeOK
<1>4. CASE AppReset \/ DoReset \/ PowerLoss
  BY <1>4, RestartType DEF AppReset, DoReset, PowerLoss
<1>5. CASE BootCommand
  BY <1>5, CommandStepType
<1>6. CASE EraseConfig
  <2>1. ErasedConfig \in Config
    BY DEF ErasedConfig, Config
  <2>2. QED
    BY <1>6, <2>1 DEF EraseConfig, DevTypeOK, Phases, linkVars
<1>7. CASE ProgramConfig
  <2>1. ph' \in {"loop", "erasePage", "reset", "reply"}
    BY <1>7 DEF ProgramConfig
  <2>2. QED
    BY <1>7, <2>1 DEF ProgramConfig, DevTypeOK, Phases, linkVars
<1>8. CASE ErasePage
  <2>1. BlankPage \in Page
    BY DEF BlankPage, Page
  <2>2. flash' \in [0..FlashPages-1 -> Page]
    BY <1>8, <2>1 DEF ErasePage, DevTypeOK
  <2>3. QED
    BY <1>8, <2>2 DEF ErasePage, DevTypeOK, Phases, linkVars
<1>9. CASE ProgramPage
  <2>1. flash' \in [0..FlashPages-1 -> Page]
    BY <1>9, ProgramTypes DEF DevTypeOK
  <2>2. QED
    BY <1>9, <2>1 DEF ProgramPage, DevTypeOK, Phases, linkVars
<1>10. CASE Reply
  <2>1. toHost' \in Seq(Message)
    BY <1>10, MessageTypes DEF Reply, ToHost, DevTypeOK
  <2>2. config' \in Config
    <3>1. CASE answer.cmd = "SET_MODULE_ADDR" /\ ~answer.nack
      <4>1. answer.data \in Seq(Nat) /\ Len(answer.data) = 1
        BY <3>1 DEF DevTypeOK, AnswerMessage, Message
      <4>2. answer.data[1] \in Nat
        BY <4>1
      <4>3. QED
        BY <1>10, <3>1, <4>2 DEF Reply, DevTypeOK, Config
    <3>2. CASE ~(answer.cmd = "SET_MODULE_ADDR" /\ ~answer.nack)
      BY <1>10, <3>2 DEF Reply, DevTypeOK
    <3>3. QED
      BY <3>1, <3>2
  <2>3. ph' \in Phases
    BY <1>10 DEF Reply, SaveId, Phases
  <2>4. answer' \in AnswerMessage
    BY <1>10, MessageTypes DEF Reply, DevTypeOK
  <2>5. QED
    BY <1>10, <2>1, <2>2, <2>3, <2>4 DEF Reply, DevTypeOK
<1>11. CASE StartApp \/ Tick
  BY <1>11 DEF StartApp, Tick, DevTypeOK, Phases, linkVars
<1>12. QED
  BY <1>1, <1>2, <1>3, <1>4, <1>5, <1>6, <1>7, <1>8, <1>9, <1>10, <1>11
     DEF DevNext, DevStep

=============================================================================
