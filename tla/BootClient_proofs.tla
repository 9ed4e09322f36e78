------------------------- MODULE BootClient_proofs -------------------------
(***************************************************************************)
(* What holds of the bootloader under any client, for every memory size,   *)
(* page size, set of requests and set of faults.                           *)
(***************************************************************************)
EXTENDS BootClient, BootDevice_proofs

USE LinkAssumption, DeviceAssumption, ClientAssumption

\* The initial states, configured or not, are type-correct.
LEMMA InitType == Init => TypeOK
  BY DevInitType DEF Init, TypeOK

\* Every step of clients and module keeps the type invariant.
LEMMA StepType == TypeOK /\ [Next]_vars => TypeOK'
<1> SUFFICES ASSUME TypeOK, [Next]_vars PROVE TypeOK'
  OBVIOUS
<1> USE DEF TypeOK, ModuleTypeOK, LinkTypeOK
<1>0. strayed' \in BOOLEAN
  BY DEF Next, vars
<1>1. CASE Send
  <2>1. PICK m \in Requests : Push(m) /\ UNCHANGED <<devVars, toHost>>
    BY <1>1 DEF Send
  <2>2. toDev' \in Seq(Message)
    BY <2>1 DEF Push
  <2>3. ModuleTypeOK'
    BY <2>1, <2>2 DEF devVars, DevTypeOK
  <2>4. QED
    BY <1>0, <2>3
<1>2. CASE Collect
  <2>1. toHost' \in Seq(Message)
    BY <1>2, QueueTypes DEF Collect
  <2>2. ModuleTypeOK'
    BY <1>2, <2>1 DEF Collect, devVars, DevTypeOK
  <2>3. QED
    BY <1>0, <2>2
<1>3. CASE DevNext
  BY <1>0, <1>3, DevStepType
<1>4. CASE UNCHANGED vars
  BY <1>4 DEF vars, devVars, linkVars, DevTypeOK
<1>5. QED
  BY <1>1, <1>2, <1>3, <1>4 DEF Next

\* Every variable of the module and of the two paths keeps its type, whatever
\* clients send and wherever power is lost.
THEOREM TypeCorrect == Spec => []TypeOK
<1>1. Init => TypeOK
  BY InitType
<1>2. TypeOK /\ [Next]_vars => TypeOK'
  BY StepType
<1>3. QED
  BY <1>1, <1>2, PTL DEF Spec

-----------------------------------------------------------------------------
\* The initial flash and EEPROM satisfy the inductive invariant.
LEMMA InitSafe == Init => Safe
<1> SUFFICES ASSUME Init PROVE Safe
  OBVIOUS
<1> USE DEF Init, DevInit
<1>1. flash = InitialFlash(App)
  OBVIOUS
<1>2. BootloaderIntact
  BY <1>1 DEF BootloaderIntact
<1>3. ResetVectorKept
  <2>1. 0 \in 0..FlashPages-1 /\ 0 \in 0..PageSize-1 /\ ~(0 >= BootPage)
    OBVIOUS
  <2>2. InitialFlash(App)[0] = [w \in 0..PageSize-1 |->
                                  IF 0 >= BootPage THEN BootCode
                                  ELSE IF 0 = 0 /\ w = 0 THEN ResetVector ELSE App]
    BY <2>1 DEF InitialFlash
  <2>3. flash[0][0] = ResetVector
    BY <1>1, <2>1, <2>2
  <2>4. QED
    BY <2>3 DEF ResetVectorKept
<1>4. answer.cmd = "RESET" /\ ph \in {"loop", "eraseConfig"}
  BY MessageTypes
<1>5. IdSaved
  BY <1>4 DEF IdSaved, Saving, FirstConfig
<1>6. QED
  BY <1>2, <1>3, <1>4, <1>5
     DEF Safe, FirstPageGuarded, WritePrepared, PageWritten, Saving, Writing

\* A reset keeps the memories and takes the configuration from the EEPROM, or
\* goes on to write it.
LEMMA RestartSafe ==
    ASSUME Safe, Restart, strayed => strayed'
    PROVE  Safe'
<1>1. /\ UNCHANGED <<flash, eeprom>>
      /\ answer'.cmd = "RESET" /\ ph' \in {"loop", "eraseConfig"}
  BY MessageTypes DEF Restart
<1>2. BootloaderIntact' /\ ResetVectorKept'
  BY <1>1 DEF Safe, BootloaderIntact, ResetVectorKept
<1>3. IdSaved'
  BY <1>1 DEF Restart, IdSaved, Saving, FirstConfig
<1>4. QED
  BY <1>1, <1>2, <1>3
     DEF Safe, FirstPageGuarded, WritePrepared, PageWritten, Saving, Writing

\* A handler that touches neither memory and keeps the id, and goes on to its
\* answer or to a configuration write that does not come before a page write.
LEMMA HarmlessSafe ==
    ASSUME Safe, UNCHANGED <<flash, eeprom>>, strayed => strayed',
           ph \in {"loop", "reply"},
           \/ config'.id = config.id
           \/ ph' = "eraseConfig" /\ answer'.cmd = "SET_MODULE_ADDR",
           ph' \in {"reply", "loop", "reset", "eraseConfig"},
           ph' = "eraseConfig" => answer'.cmd # "WRITE_INC",
           ph' = "reply" =>
              answer'.cmd # "WRITE_INC" \/ answer'.nack \/ off' # 0
    PROVE  Safe'
<1>1. BootloaderIntact' /\ ResetVectorKept'
  BY DEF Safe, BootloaderIntact, ResetVectorKept
<1>2. eeprom'.id = eeprom.id /\ eeprom.id = config.id
  BY DEF Safe, IdSaved, Saving
<1>3. ph' # "programConfig"
  OBVIOUS
<1>4. ph' # "eraseConfig" => config'.id = config.id
  OBVIOUS
<1>5. IdSaved'
  BY <1>2, <1>3, <1>4 DEF IdSaved, Saving
<1>6. QED
  BY <1>1, <1>5
     DEF Safe, FirstPageGuarded, WritePrepared, PageWritten, Saving, Writing

\* The append, and the decision to write the page.
LEMMA WriteIncSafe ==
    ASSUME TypeOK, Safe, WriteInc, strayed => strayed'
    PROVE  Safe'
<1>1. Command("WRITE_INC")
  BY DEF WriteInc
<1>2. ph = "loop" /\ In \in Message /\ In.cmd = "WRITE_INC"
  BY <1>1, CommandType DEF TypeOK
<1>3. answer'.cmd = "WRITE_INC"
  BY <1>2 DEF WriteInc, Answer, Nack, Message
<1>4. UNCHANGED <<flash, eeprom, base, skew, ready>> /\ config'.id = config.id
  BY <1>2, SpilledTypes DEF WriteInc, TypeOK
<1>5. BootloaderIntact' /\ ResetVectorKept'
  BY <1>4 DEF Safe, BootloaderIntact, ResetVectorKept
<1>6. IdSaved'
  <2>1. ph' \in {"eraseConfig", "erasePage", "reply"}
    BY DEF WriteInc
  <2>2. eeprom'.id = config'.id
    BY <1>2, <1>4 DEF Safe, IdSaved, Saving
  <2>3. QED
    BY <2>1, <2>2 DEF IdSaved, Saving
<1>7. CASE ph' = "eraseConfig"
  <2>1. base = 0 /\ skew = 0 /\ AtBoundary(off') /\ ready
    BY <1>7 DEF WriteInc
  <2>2. config'.state = BOOT_IDLE
    BY <1>2, <2>1, SpilledTypes DEF WriteInc, TypeOK
  <2>3. page'[0] = ResetVector
    <3>1. In.data \in Seq(Nat)
      BY <1>2 DEF Message
    <3>2. (IF Fits THEN Filled(In.data, In.half) ELSE page) \in Page
      BY <1>2, <3>1, PageTypes DEF Fits, Message, TypeOK, ModuleTypeOK, DevTypeOK
    <3>3. page' = WithResetVector(IF Fits THEN Filled(In.data, In.half) ELSE page)
      BY <2>1 DEF WriteInc
    <3>4. QED
      BY <3>2, <3>3, ResetVectorType
  <2>4. QED
    BY <1>4, <1>5, <1>6, <1>7, <2>1, <2>2, <2>3
       DEF Safe, FirstPageGuarded, WritePrepared, PageWritten, Saving, Writing
<1>8. CASE ph' = "erasePage"
  <2>1. AtBoundary(off') /\ BelowBootloader /\ ready /\ ~(base = 0 /\ skew = 0)
    BY <1>8 DEF WriteInc
  <2>2. QED
    BY <1>4, <1>5, <1>6, <1>8, <2>1
       DEF Safe, FirstPageGuarded, WritePrepared, PageWritten, BelowBootloader,
           Saving, Writing
<1>9. CASE ph' = "reply"
  <2>1. ~(AtBoundary(off') /\ BelowBootloader /\ ready)
    BY <1>9 DEF WriteInc
  <2>2. CASE off' = 0
    <3>1. AtBoundary(off')
      BY <2>2 DEF AtBoundary
    <3>2. answer' = Nack(In)
      BY <2>1, <3>1 DEF WriteInc, Answer
    <3>3. answer'.nack
      BY <1>2, <3>2 DEF Nack, Message
    <3>4. QED
      BY <1>5, <1>6, <1>9, <3>3
         DEF Safe, FirstPageGuarded, WritePrepared, PageWritten, Saving, Writing
  <2>3. CASE off' # 0
    BY <1>5, <1>6, <1>9, <2>3
       DEF Safe, FirstPageGuarded, WritePrepared, PageWritten, Saving, Writing
  <2>4. QED
    BY <2>2, <2>3
<1>10. QED
  BY <1>7, <1>8, <1>9 DEF WriteInc

\* Every bootloader command keeps the inductive invariant.
LEMMA CommandSafe ==
    ASSUME TypeOK, Safe, BootCommand, strayed => strayed'
    PROVE  Safe'
<1>1. CASE SetBaseAddr \/ SetState \/ SetDelay
  <2>1. PICK cmd \in {"SET_BASE_ADDR", "SET_STATE", "SET_DELAY"} : Command(cmd)
    BY <1>1 DEF SetBaseAddr, SetState, SetDelay, Set
  <2>2. ph = "loop" /\ In \in Message /\ In.cmd = cmd
    BY <2>1, CommandType DEF TypeOK
  <2>3. answer'.cmd # "WRITE_INC"
    BY <1>1, <2>2 DEF SetBaseAddr, SetState, SetDelay, Set, Answer, Nack, Message
  <2>4. config'.id = config.id
    BY <1>1, SMTT(20) DEF SetBaseAddr, SetState, SetDelay, Set, Unbootable, TypeOK,
                          ModuleTypeOK, DevTypeOK, Config
  <2>5. UNCHANGED <<flash, eeprom>> /\ ph' = "reply"
    BY <1>1 DEF SetBaseAddr, SetState, SetDelay, Set
  <2>6. QED
    BY <2>2, <2>3, <2>4, <2>5, HarmlessSafe
<1>2. CASE \/ Get("GET_BASE_ADDR", BootPage * PageSize) \/ Get("GET_MODULE_ADDR", config.id)
           \/ Get("GET_STATE", config.state) \/ Get("GET_DELAY", config.delay)
           \/ NotImplemented \/ AnswerFirst
  <2>1. PICK cmd \in BootCommands \ {"WRITE_INC"} : Command(cmd)
    BY <1>2 DEF Get, NotImplemented, AnswerFirst, BootCommands
  <2>2. ph = "loop" /\ In \in Message /\ In.cmd = cmd
    BY <2>1, CommandType DEF TypeOK
  <2>3. answer'.cmd # "WRITE_INC"
    BY <1>2, <2>2, ZenonT(30) DEF Get, NotImplemented, AnswerFirst, Answer, Nack, Valued,
        Message
  <2>4. UNCHANGED <<flash, eeprom, config>> /\ ph' = "reply"
    BY <1>2 DEF Get, NotImplemented, AnswerFirst
  <2>5. QED
    BY <2>2, <2>3, <2>4, HarmlessSafe
<1>3. CASE WriteBootConfig
  <2>1. Command("WRITE_BOOTCONFIG")
    BY <1>3 DEF WriteBootConfig
  <2>2. ph = "loop" /\ In.cmd = "WRITE_BOOTCONFIG"
    BY <2>1, CommandType DEF TypeOK
  <2>3. QED
    BY <1>3, <2>2, HarmlessSafe DEF WriteBootConfig, Answer
<1>4. CASE WriteInc
  BY <1>4, WriteIncSafe
<1>5. QED
  BY <1>1, <1>2, <1>3, <1>4 DEF BootCommand

-----------------------------------------------------------------------------
\* Every step of clients and module keeps the inductive invariant.
LEMMA StepSafe == TypeOK /\ Safe /\ [Next]_vars => Safe'
<1> SUFFICES ASSUME TypeOK, Safe, [Next]_vars PROVE Safe'
  OBVIOUS
<1>0. strayed => strayed'
  BY DEF Next, vars
<1>1. CASE UNCHANGED devVars
  BY <1>0, <1>1 DEF devVars, Safe, BootloaderIntact, ResetVectorKept, FirstPageGuarded,
                    WritePrepared, IdSaved, PageWritten, Saving, Writing
<1>2. CASE AppReset \/ DoReset \/ PowerLoss
  BY <1>0, <1>2, RestartSafe DEF AppReset, DoReset, PowerLoss
<1>3. CASE BootCommand
  BY <1>0, <1>3, CommandSafe
<1>4. CASE EraseConfig
  BY <1>0, <1>4
     DEF EraseConfig, ErasedConfig, Safe, BootloaderIntact, ResetVectorKept,
         FirstPageGuarded, WritePrepared, IdSaved, PageWritten, Saving, Writing
<1>5. CASE ProgramConfig
  <2>1. BootloaderIntact' /\ ResetVectorKept'
    BY <1>0, <1>5 DEF ProgramConfig, Safe, BootloaderIntact, ResetVectorKept
  <2>2. IdSaved'
    BY <1>5 DEF ProgramConfig, IdSaved, Saving
  <2>3. CASE ph' = "erasePage"
    <3>1. answer.cmd = "WRITE_INC"
      BY <1>5, <2>3 DEF ProgramConfig
    <3>2. /\ base = 0 /\ base < BootPage /\ config.state = BOOT_IDLE
          /\ skew = 0 /\ page[0] = ResetVector
      BY <1>5, <3>1 DEF ProgramConfig, Safe, WritePrepared, Saving, Writing
    <3>3. base' = base /\ eeprom' = config /\ UNCHANGED <<config, page, skew>>
      BY <1>5, <3>2 DEF ProgramConfig
    <3>4. QED
      BY <2>1, <2>2, <2>3, <3>2, <3>3
         DEF Safe, FirstPageGuarded, WritePrepared, PageWritten, Saving, Writing
  <2>4. CASE ph' # "erasePage"
    <3>1. ph' \in {"loop", "reset", "reply"}
      BY <1>5, <2>4 DEF ProgramConfig
    <3>2. ph' = "reply" => answer'.cmd # "WRITE_INC"
      BY <1>5 DEF ProgramConfig
    <3>3. QED
      BY <2>1, <2>2, <3>1, <3>2
         DEF Safe, FirstPageGuarded, WritePrepared, PageWritten, Saving, Writing
  <2>5. QED
    BY <2>3, <2>4
<1>6. CASE ErasePage
  <2>1. base < BootPage /\ base \in 0..FlashPages-1
    BY <1>6 DEF ErasePage, Safe, WritePrepared, Saving, Writing, TypeOK,
                ModuleTypeOK, DevTypeOK
  <2>2. flash' = [flash EXCEPT ![base] = BlankPage]
    BY <1>6 DEF ErasePage
  <2>3. BootloaderIntact'
    BY <1>0, <2>1, <2>2 DEF Safe, BootloaderIntact, TypeOK, ModuleTypeOK, DevTypeOK
  <2>4. ResetVectorKept'
    BY <1>0, <2>1, <2>2 DEF Safe, ResetVectorKept, TypeOK, ModuleTypeOK, DevTypeOK
  <2>5. QED
    BY <1>6, <2>3, <2>4 DEF ErasePage, Safe, FirstPageGuarded, WritePrepared,
                            IdSaved, PageWritten, Saving, Writing
<1>7. CASE ProgramPage
  <2>1. base < BootPage /\ base \in 0..FlashPages-1
    BY <1>7 DEF ProgramPage, Safe, WritePrepared, Saving, Writing, TypeOK,
                ModuleTypeOK, DevTypeOK
  <2>2. /\ skew = 0 => flash' = [flash EXCEPT ![base] = page]
        /\ \A p \in 0..FlashPages-1 :
              p \notin {base, base + 1} => flash'[p] = flash[p]
        /\ flash \in [0..FlashPages-1 -> Page]
    BY <1>7, ProgramTypes DEF TypeOK, ModuleTypeOK, DevTypeOK
  <2>3. /\ base' = base + 1 /\ ph' = "reply"
        /\ UNCHANGED <<page, skew, eeprom, config, answer>>
    BY <1>7 DEF ProgramPage
  <2>4. skew # 0 => flash' = flash \/ strayed'
    <3>1. strayed' = (strayed \/ (flash' # flash /\ skew # 0)) \/ UNCHANGED vars
      BY DEF Next
    <3>2. CASE UNCHANGED vars
      BY <3>2 DEF vars, devVars
    <3>3. CASE strayed' = (strayed \/ (flash' # flash /\ skew # 0))
      BY <3>3, Zenon
    <3>4. QED
      BY <3>1, <3>2, <3>3
  <2>5. BootloaderIntact'
    <3>1. SUFFICES ASSUME NEW p \in BootPage..FlashPages-1
                   PROVE  flash'[p] = InitialFlash(App)[p] \/ (p = BootPage /\ strayed')
      BY DEF BootloaderIntact
    <3>2. flash[p] = InitialFlash(App)[p] \/ (p = BootPage /\ strayed')
      BY <1>0 DEF Safe, BootloaderIntact
    <3>3. p # base /\ p \in 0..FlashPages-1
      BY <2>1, <3>1
    <3>4. CASE skew = 0
      BY <2>1, <2>2, <3>2, <3>3, <3>4
    <3>5. CASE skew # 0
      <4>1. p = base + 1 => p = BootPage
        BY <2>1, <3>1 DEF TypeOK, ModuleTypeOK, DevTypeOK
      <4>2. QED
        BY <2>2, <2>4, <3>2, <3>3, <3>5, <4>1
    <3>6. QED
      BY <3>4, <3>5
  <2>6. ResetVectorKept'
    <3>1. skew = 0 /\ base = 0 => page[0] = ResetVector
      BY <1>7 DEF ProgramPage, Safe, WritePrepared, Writing
    <3>2. CASE skew = 0
      BY <1>0, <2>1, <2>2, <3>1, <3>2 DEF Safe, ResetVectorKept
    <3>3. CASE skew # 0
      BY <1>0, <2>4, <3>3 DEF Safe, ResetVectorKept
    <3>4. QED
      BY <3>2, <3>3
  <2>7. skew' = 0 => base' > 0 /\ flash'[base' - 1] = page'
    BY <2>1, <2>2, <2>3 DEF TypeOK, ModuleTypeOK, DevTypeOK
  <2>8. IdSaved'
    BY <1>7, <2>3 DEF ProgramPage, Safe, IdSaved, Saving
  <2>9. QED
    BY <2>3, <2>5, <2>6, <2>7, <2>8
       DEF Safe, FirstPageGuarded, WritePrepared, PageWritten, Saving, Writing
<1>8. CASE Reply
  <2>1. CASE answer.cmd = "SET_MODULE_ADDR" /\ ~answer.nack
    BY <1>0, <1>8, <2>1, HarmlessSafe DEF Reply, SaveId
  <2>2. CASE ~(answer.cmd = "SET_MODULE_ADDR" /\ ~answer.nack)
    BY <1>0, <1>8, <2>2, HarmlessSafe DEF Reply
  <2>3. QED
    BY <2>1, <2>2
<1>9. CASE StartApp \/ Tick
  BY <1>0, <1>9, HarmlessSafe DEF StartApp, Tick
<1>10. QED
  BY <1>1, <1>2, <1>3, <1>4, <1>5, <1>6, <1>7, <1>8, <1>9
     DEF Next, DevNext, DevStep, Send, Collect, Filtered, BootAlive, AppAlive,
         Ignore, vars

\* The conjuncts of Safe hold together: each needs the preparation of page
\* writes (WritePrepared) that the others maintain.
THEOREM AlwaysSafe == Spec => []Safe
<1>1. Init => Safe
  BY InitSafe
<1>2. TypeOK /\ Safe /\ [Next]_vars => Safe'
  BY StepSafe
<1>3. QED
  BY <1>1, <1>2, TypeCorrect, PTL DEF Spec

\* No client and no power failure can alter a page of the bootloader, but its
\* first one by a page written at an address inside the page below.
THEOREM BootloaderSurvives == Spec => []BootloaderIntact
<1>1. Safe => BootloaderIntact
  BY DEF Safe
<1>2. QED
  BY <1>1, AlwaysSafe, PTL

\* The reset vector starts the bootloader unless page 0 is erased, or a page has
\* been written at an address inside one.
THEOREM ResetVectorSurvives == Spec => []ResetVectorKept
<1>1. Safe => ResetVectorKept
  BY DEF Safe
<1>2. QED
  BY <1>1, AlwaysSafe, PTL

\* Page 0 is only written from its address on while the EEPROM forbids a normal
\* boot.
THEOREM FirstPageIsGuarded == Spec => []FirstPageGuarded
<1>1. Safe => FirstPageGuarded
  BY DEF Safe
<1>2. QED
  BY <1>1, AlwaysSafe, PTL

\* A page is never written but for an address below the bootloader, nor for
\* address 0 without the reset vector and the saved configuration.
THEOREM WritesArePrepared == Spec => []WritePrepared
<1>1. Safe => WritePrepared
  BY DEF Safe
<1>2. QED
  BY <1>1, AlwaysSafe, PTL

\* A page is in flash before its last chunk is answered positively, when it was
\* written at the beginning of one.
THEOREM AckFollowsWrite == Spec => PageWrittenBeforeAck
<1>1. Safe =>
        [ /\ Len(toHost') > Len(toHost) /\ answer.cmd = "WRITE_INC"
          /\ ~answer.nack /\ ph = "reply" /\ off = 0
          => skew # 0 \/ (base > 0 /\ flash[base - 1] = page) ]_vars
  BY DEF Safe, PageWritten
<1>2. QED
  BY <1>1, AlwaysSafe, PTL DEF PageWrittenBeforeAck

-----------------------------------------------------------------------------
\* What a step may do to the id.
IdStep ==
    config'.id # config.id =>
       \/ /\ ph = "reply" /\ answer.cmd = "SET_MODULE_ADDR" /\ ~answer.nack
          /\ config'.id = answer.data[1]
       \/ config.id = 255 /\ config'.id = DefaultId
       \/ /\ ph = "eraseConfig" /\ answer.cmd = "SET_MODULE_ADDR"
          /\ config'.id \in {eeprom.id, DefaultId}
       \/ ph = "programConfig" /\ config'.id = DefaultId

\* After a reset the id is that of the EEPROM, which differs only while it is
\* rewritten.
LEMMA RestartId == ASSUME Safe, Restart PROVE IdStep
<1>1. IF eeprom.id = 255 THEN config'.id = DefaultId ELSE config'.id = eeprom.id
  BY DEF Restart, FirstConfig
<1>2. CASE ~Saving
  BY <1>1, <1>2 DEF Safe, IdSaved, IdStep
<1>3. CASE ph = "programConfig"
  BY <1>1, <1>3 DEF Safe, IdSaved, IdStep
<1>4. CASE ph = "eraseConfig"
  BY <1>1, <1>4 DEF Safe, IdSaved, IdStep
<1>5. QED
  BY <1>2, <1>3, <1>4 DEF Saving

\* A reset and the reply to SET_MODULE_ADDR are the only steps that set it.
LEMMA StepId == TypeOK /\ Safe /\ [Next]_vars => IdStep
<1> SUFFICES ASSUME TypeOK, Safe, [Next]_vars PROVE IdStep
  OBVIOUS
<1>0. config \in Config
  BY DEF TypeOK, ModuleTypeOK, DevTypeOK
<1>1. CASE AppReset \/ DoReset \/ PowerLoss
  BY <1>1, RestartId DEF AppReset, DoReset, PowerLoss
<1>2. CASE SetBaseAddr \/ SetState \/ SetDelay
  BY <1>0, <1>2 DEF SetBaseAddr, SetState, SetDelay, Set, Unbootable, Config, IdStep
<1>3. CASE WriteInc
  <2>1. Command("WRITE_INC")
    BY <1>3 DEF WriteInc
  <2>2. In \in Message
    BY <2>1, CommandType DEF TypeOK
  <2>3. config'.id = config.id
    BY <1>3, <2>2, SpilledTypes DEF WriteInc, TypeOK
  <2>4. QED
    BY <2>3 DEF IdStep
<1>4. CASE Reply
  <2>1. CASE answer.cmd = "SET_MODULE_ADDR" /\ ~answer.nack
    BY <1>0, <1>4, <2>1 DEF Reply, IdStep, Config
  <2>2. CASE ~(answer.cmd = "SET_MODULE_ADDR" /\ ~answer.nack)
    BY <1>4, <2>2 DEF Reply, IdStep
  <2>3. QED
    BY <2>1, <2>2
<1>5. CASE UNCHANGED config
  BY <1>5 DEF IdStep
<1>6. QED
  BY <1>1, <1>2, <1>3, <1>4, <1>5
     DEF Next, Send, Collect, DevNext, DevStep, Filtered, BootAlive, AppAlive, Ignore,
         BootCommand, Get, NotImplemented, AnswerFirst, WriteBootConfig, EraseConfig,
         ProgramConfig, ErasePage, ProgramPage, StartApp, Tick, devVars, vars

\* The id of a module changes by an acknowledged SET_MODULE_ADDR, and is lost
\* only to a power failure while the EEPROM row is rewritten.
THEOREM IdSurvives == Spec => IdKept
<1>1. TypeOK /\ Safe /\ [Next]_vars =>
        [ config'.id # config.id =>
            \/ /\ ph = "reply" /\ answer.cmd = "SET_MODULE_ADDR" /\ ~answer.nack
               /\ config'.id = answer.data[1]
            \/ config.id = 255 /\ config'.id = DefaultId
            \/ /\ ph = "eraseConfig" /\ answer.cmd = "SET_MODULE_ADDR"
               /\ config'.id \in {eeprom.id, DefaultId}
            \/ ph = "programConfig" /\ config'.id = DefaultId ]_vars
  BY StepId DEF IdStep
<1>2. QED
  BY <1>1, TypeCorrect, AlwaysSafe, PTL DEF Spec, IdKept

=============================================================================
