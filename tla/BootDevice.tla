----------------------------- MODULE BootDevice -----------------------------
(***************************************************************************)
(* The dsPIC bootloader (Bootloader/dsPICBootloader.X/main.c) and the      *)
(* application it starts, as far as the dialogue with the viewer sees it.  *)
(*                                                                         *)
(* Non-volatile memory is written by WriteMem in two operations, erase     *)
(* then program, so a handler that writes is split where the module can    *)
(* lose power: ph names the next operation of the handler and "loop" is    *)
(* the main loop.  An address of flash is a page, one row of the memory,   *)
(* and a place in it: addresses count as the words of the page buffer do,  *)
(* PAGE_SIZE to a row, and BOOTLOADER_ADDRESS is the beginning of one.     *)
(***************************************************************************)
EXTENDS BootLink

CONSTANTS
    FlashPages,     \* pages of program memory
    BootPage,       \* the page BOOTLOADER_ADDRESS is at
    PageSize,       \* words per page, PAGE_SIZE
    ResetVector,    \* BOOTLOADER_ADDRESS as a word: "goto bootloader"
    Blank,          \* an erased word
    BootCode,       \* a word of the bootloader itself
    WordBits,       \* bits of a word
    DefaultId,      \* module id and delay given to a module never configured
    DefaultDelay,
    MaxTicks        \* bound on timer1Count

ASSUME DeviceAssumption ==
    /\ FlashPages \in Nat /\ BootPage \in Nat \ {0} /\ BootPage < FlashPages
    /\ PageSize \in Nat \ {0}
    /\ {ResetVector, Blank, BootCode} \subseteq Nat
    /\ ResetVector # Blank
    /\ WordBits \in Nat /\ DefaultId \in 0..254 /\ DefaultDelay \in Nat
    /\ MaxTicks \in Nat

VARIABLES
    mode,       \* which program runs: "boot" or "app"
    config,     \* BootConfig in RAM
    eeprom,     \* BootConfig in EEPROM
    flash,      \* program memory, a page at a time
    base,       \* the page of baseAddr
    skew,       \* the place of baseAddr in that page, 0 when it is aligned
    off,        \* pageOffset
    page,       \* pageData
    ready,      \* a base address has been received since the reset
    timer,      \* timer1Count
    ph,         \* next operation of the handler in progress
    answer      \* answerMessage of the handler in progress

devVars == <<mode, config, eeprom, flash, base, skew, off, page, ready, timer,
             ph, answer>>

Config == [state : Nat, id : Nat, delay : Nat]
Page   == [0..PageSize-1 -> Nat]

ErasedConfig == [state |-> 255, id |-> 255, delay |-> 255]
FirstConfig  == [state |-> BOOT_IDLE, id |-> DefaultId, delay |-> DefaultDelay]
BlankPage    == [w \in 0..PageSize-1 |-> Blank]
NoMessage    == Boot("RESET", 0, <<>>)

\* Only a SET_MODULE_ADDR that carries one byte is answered positively.
AnswerMessage ==
    {m \in Message : m.cmd = "SET_MODULE_ADDR" /\ ~m.nack => Len(m.data) = 1}

Phases == {"loop", "eraseConfig", "programConfig", "erasePage", "programPage",
           "reply", "reset"}
Saving  == ph \in {"eraseConfig", "programConfig"}
Writing == ph \in {"erasePage", "programPage"}

DevTypeOK ==
    /\ mode \in {"boot", "app"}
    /\ config \in Config /\ eeprom \in Config
    /\ flash \in [0..FlashPages-1 -> Page]
    /\ base \in Nat /\ skew \in 0..PageSize-1 /\ off \in 0..PageSize
    /\ page \in Page
    /\ ready \in BOOLEAN
    /\ timer \in Nat
    /\ ph \in Phases
    /\ answer \in AnswerMessage

\* Flash before the first upload: the application (words App) under a reset
\* vector that starts the bootloader, and the bootloader above it.
InitialFlash(App) ==
    [p \in 0..FlashPages-1 |->
        [w \in 0..PageSize-1 |->
            IF p >= BootPage THEN BootCode
            ELSE IF p = 0 /\ w = 0 THEN ResetVector ELSE App]]

-----------------------------------------------------------------------------
(* Reset: readBootConfig, and the initialisation of a module whose EEPROM   *)
(* is erased.  The variables of main() are initialised, pageData is not:    *)
(* it holds what RAM held or nothing useful.                                *)
Restart ==
    /\ mode' = "boot"
    /\ base' = 0 /\ skew' = 0 /\ off' = 0 /\ ready' = FALSE /\ timer' = 0
    /\ page' \in {page, BlankPage}
    /\ answer' = NoMessage
    /\ IF eeprom.id = 255
          THEN config' = FirstConfig /\ ph' = "eraseConfig"
          ELSE config' = eeprom /\ ph' = "loop"
    \* what sat in the CAN controller is gone
    /\ \E n \in 0..Len(toDev) : toDev' = SubSeq(toDev, n + 1, Len(toDev))
    /\ UNCHANGED <<eeprom, flash, toHost>>

\* The module sits in its bootloader, or runs the application if its EEPROM
\* lets it.
DevInit(App) ==
    /\ eeprom \in {[state |-> s, id |-> DefaultId, delay |-> DefaultDelay] :
                      s \in {BOOT_NORMAL, BOOT_IDLE}} \cup {ErasedConfig}
    /\ flash = InitialFlash(App)
    /\ base = 0 /\ skew = 0 /\ off = 0 /\ ready = FALSE /\ timer = 0
    /\ page = BlankPage
    /\ answer = NoMessage
    /\ IF eeprom.id = 255
          THEN config = FirstConfig /\ ph = "eraseConfig"
          ELSE config = eeprom /\ ph = "loop"
    /\ mode \in {"boot"} \cup (IF eeprom.state = BOOT_NORMAL THEN {"app"} ELSE {})

PowerLoss == "powerLoss" \in Faults /\ Restart

-----------------------------------------------------------------------------
(* Reception: one turn of the main loop takes one message whose destination *)
(* passes the filters; the others never reach the loop.                     *)
In == Head(toDev)

Filtered ==
    /\ toDev # <<>>
    /\ In.dest \notin {config.id, Broadcast}
    /\ toDev' = Tail(toDev)
    /\ UNCHANGED <<devVars, toHost>>

Receive(program) ==
    /\ mode = program /\ ph = "loop"
    /\ toDev # <<>>
    /\ In.dest \in {config.id, Broadcast}
    /\ toDev' = Tail(toDev)

\* send_alive_answer: the bootloader always reports BOOT_IDLE.
BootAlive ==
    /\ Receive("boot") /\ IsAlive(In)
    /\ ToHost(AliveAnswer(BOOT_IDLE, config.id))
    /\ UNCHANGED devVars

\* netv_send_im_alive: the application reports the EEPROM.
AppAlive ==
    /\ Receive("app") /\ IsAlive(In)
    /\ ToHost(AliveAnswer(eeprom.state, config.id))
    /\ UNCHANGED devVars

\* Emergencies do nothing in the bootloader, bootloader commands nothing in
\* the application.
Ignore ==
    /\ \/ Receive("boot") /\ In.type = "EMERGENCY"
       \/ Receive("app") /\ In.type = "BOOTLOADER"
    /\ UNCHANGED <<devVars, toHost>>

\* NETV_EMERGENCY_CMD_PROGRAM resets the module that runs the application.
AppReset ==
    /\ mode = "app" /\ toDev # <<>>
    /\ In.dest \in {config.id, Broadcast} /\ In.type = "EMERGENCY"
    /\ Restart
    /\ Len(toDev') < Len(toDev)

-----------------------------------------------------------------------------
(* Bootloader commands.  Each resets the timer and answers with the message *)
(* it received, marked as NACK or filled with a value.                      *)
Command(cmd) ==
    /\ Receive("boot") /\ In.type = "BOOTLOADER" /\ In.cmd = cmd
    /\ timer' = 0
    /\ UNCHANGED toHost

Answer(m) == answer' = m
Nack(m)   == [m EXCEPT !.nack = TRUE]
Valued(m, value) == [m EXCEPT !.data = <<value>>, !.half = <<>>]

\* The configuration that keeps the module in its bootloader; a mutant that
\* forgets to change it.
BootableMutant(c) == c
Unbootable(c) == [c EXCEPT !.state = BOOT_IDLE]

\* baseAddr < BOOTLOADER_ADDRESS, wherever in its page it is; a mutant off by
\* one page.
BelowBootloaderMutant == base <= BootPage
BelowBootloader == base < BootPage

SetBaseAddr ==
    /\ Command("SET_BASE_ADDR")
    /\ config' = Unbootable(config)
    /\ base' = In.data[1] \div PageSize /\ skew' = In.data[1] % PageSize
    /\ off' = 0 /\ ready' = TRUE
    /\ Answer(IF base' >= BootPage THEN Nack(In) ELSE In)
    /\ ph' = "reply"
    /\ UNCHANGED <<mode, eeprom, flash, page>>

\* SET_STATE and SET_DELAY change the configuration in RAM only.
Set(cmd, updated) ==
    /\ Command(cmd)
    /\ IF Len(In.data) = 1
          THEN config' = updated /\ Answer(In)
          ELSE UNCHANGED config /\ Answer(Nack(In))
    /\ ph' = "reply"
    /\ UNCHANGED <<mode, eeprom, flash, base, skew, off, page, ready>>

SetState == Set("SET_STATE", [config EXCEPT !.state = In.data[1]])
SetDelay == Set("SET_DELAY", [config EXCEPT !.delay = In.data[1]])

\* GET_BASE_ADDR answers with the address of the bootloader, not with baseAddr.
Get(cmd, value) ==
    /\ Command(cmd)
    /\ Answer(Valued(In, value))
    /\ ph' = "reply"
    /\ UNCHANGED <<mode, config, eeprom, flash, base, skew, off, page, ready>>

NotImplemented ==
    /\ \E cmd \in {"READ_INC", "READ_PAGE", "WRITE_PAGE"} : Command(cmd)
    /\ Answer(Nack(In))
    /\ ph' = "reply"
    /\ UNCHANGED <<mode, config, eeprom, flash, base, skew, off, page, ready>>

\* RESET answers first; so does SET_MODULE_ADDR, whose effect follows in Reply.
AnswerFirst ==
    /\ \E cmd \in {"RESET", "SET_MODULE_ADDR"} : Command(cmd)
    /\ Answer(IF In.cmd = "SET_MODULE_ADDR" /\ Len(In.data) # 1
                 THEN Nack(In) ELSE In)
    /\ ph' = "reply"
    /\ UNCHANGED <<mode, config, eeprom, flash, base, skew, off, page, ready>>

WriteBootConfig ==
    /\ Command("WRITE_BOOTCONFIG")
    /\ Answer(In)
    /\ ph' = "eraseConfig"
    /\ UNCHANGED <<mode, config, eeprom, flash, base, skew, off, page, ready>>

(* WRITE_INC: append to the page buffer if it fits, then write the page     *)
(* when the offset is at a page boundary.  The offset is a boundary too     *)
(* when nothing was appended to an empty buffer.  The test and the offset   *)
(* count whole words, Len(data); the copy takes the odd byte along.         *)
FitsMutant == off + Len(In.data) <= PageSize + 1
Fits == off + Len(In.data) <= PageSize

LowByte(word, byte) == (word - (word % 256)) + byte

Filled(d, odd) ==
    [w \in 0..PageSize-1 |->
        IF w \in off..(off + Len(d) - 1) THEN d[w - off + 1]
        ELSE IF w = off + Len(d) /\ odd # <<>> THEN LowByte(page[w], odd[1])
        ELSE page[w]]

\* The odd byte lies behind the buffer: it is lost, or it is module_state, the
\* first byte of config, which is declared next.
Overruns == Fits /\ off + Len(In.data) = PageSize /\ In.half # <<>>
Spilled ==
    {config} \cup (IF Overruns THEN {[config EXCEPT !.state = In.half[1]]} ELSE {})

AtBoundary(o) == o \in {0, PageSize}

PlainPageMutant(p) == p
WithResetVector(p) == [p EXCEPT ![0] = ResetVector]

WriteInc ==
    /\ Command("WRITE_INC")
    /\ off' = IF Fits THEN off + Len(In.data) ELSE off
    /\ LET filled == IF Fits THEN Filled(In.data, In.half) ELSE page
           first  == AtBoundary(off') /\ base = 0 /\ skew = 0 /\ ready
           writes == AtBoundary(off') /\ BelowBootloader /\ ready
       IN  /\ page' = IF first THEN WithResetVector(filled) ELSE filled
           /\ \E c \in Spilled : config' = IF first THEN Unbootable(c) ELSE c
           /\ Answer(IF Fits /\ (AtBoundary(off') => writes)
                        THEN In ELSE Nack(In))
           /\ ph' = IF first THEN "eraseConfig"
                    ELSE IF writes THEN "erasePage" ELSE "reply"
    /\ UNCHANGED <<mode, eeprom, flash, base, skew, ready>>

BootCommand ==
    \/ SetBaseAddr
    \/ SetState \/ SetDelay
    \/ Get("GET_BASE_ADDR", BootPage * PageSize) \/ Get("GET_MODULE_ADDR", config.id)
    \/ Get("GET_STATE", config.state) \/ Get("GET_DELAY", config.delay)
    \/ NotImplemented \/ AnswerFirst \/ WriteBootConfig \/ WriteInc

-----------------------------------------------------------------------------
(* The rest of a handler, one operation on a memory or on the bus a step.   *)
\* WriteMem on the EEPROM row, for writeBootConfig.
EraseConfig ==
    /\ ph = "eraseConfig"
    /\ eeprom' = ErasedConfig
    /\ ph' = "programConfig"
    /\ UNCHANGED <<mode, config, flash, base, skew, off, page, ready, timer,
                   answer, linkVars>>

ProgramConfig ==
    /\ ph = "programConfig"
    /\ eeprom' = config
    /\ ph' = CASE answer = NoMessage                -> "loop"
               [] answer.cmd = "WRITE_INC"          -> "erasePage"
               [] answer.cmd = "SET_MODULE_ADDR"    -> "reset"
               [] OTHER                             -> "reply"
    /\ UNCHANGED <<mode, config, flash, base, skew, off, page, ready, timer,
                   answer, linkVars>>

\* WriteMem on flash: the row that holds the address is erased.
ErasePage ==
    /\ ph = "erasePage"
    /\ flash' = [flash EXCEPT ![base] = BlankPage]
    /\ ph' = "programPage"
    /\ UNCHANGED <<mode, config, eeprom, base, skew, off, page, ready, timer,
                   answer, linkVars>>

ProgramNextPageMutant ==
    /\ ph = "programPage"
    /\ flash' = [flash EXCEPT ![base + 1] = page]
    /\ base' = base + 1 /\ off' = 0
    /\ ph' = "reply"
    /\ UNCHANGED <<mode, config, eeprom, skew, page, ready, timer, answer,
                   linkVars>>

\* Each word has a latch, chosen by its place in the row, and the row that is
\* programmed is that of the last word: the next one, which is not erased, for an
\* address inside a row.  The lowest bit of an address may not count.  What is
\* programmed into a word only clears bits.
Latches(place) ==
    [w \in 0..PageSize-1 |->
        page[IF w >= place THEN w - place ELSE w + PageSize - place]]

BitOf(word, n) == (word \div 2^n) % 2
Overwritten(old, new) ==
    {words \in [0..PageSize-1 -> UNION {0..old[w] : w \in 0..PageSize-1}] :
        \A w \in 0..PageSize-1, n \in 0..WordBits-1 :
            BitOf(words[w], n) = BitOf(old[w], n) * BitOf(new[w], n)}

ProgramFrom(place) ==
    \/ place = 0 /\ flash' = [flash EXCEPT ![base] = page]
    \/ /\ place # 0
       /\ \E words \in Overwritten(flash[base + 1], Latches(place)) :
             flash' = [flash EXCEPT ![base + 1] = words]

ProgramPage ==
    /\ ph = "programPage"
    /\ \E place \in {skew, skew - (skew % 2)} : ProgramFrom(place)
    /\ base' = base + 1 /\ off' = 0
    /\ ph' = "reply"
    /\ UNCHANGED <<mode, config, eeprom, skew, page, ready, timer, answer,
                   linkVars>>

\* The id is changed and saved after the answer; a mutant that does not save it.
UnsavedIdMutant == "reset"
SaveId == "eraseConfig"

Reply ==
    /\ ph = "reply"
    /\ ToHost(answer)
    /\ IF answer.cmd = "SET_MODULE_ADDR" /\ ~answer.nack
          THEN /\ config' = [config EXCEPT !.id = answer.data[1]]
               /\ ph' = SaveId
               /\ UNCHANGED answer
          ELSE /\ ph' = IF answer.cmd = "RESET" THEN "reset" ELSE "loop"
               /\ answer' = NoMessage
               /\ UNCHANGED config
    /\ UNCHANGED <<mode, eeprom, flash, base, skew, off, page, ready, timer, toDev>>

DoReset == ph = "reset" /\ Restart

\* The end of the loop: start the application, count half seconds.
StartApp ==
    /\ mode = "boot" /\ ph = "loop"
    /\ config.state = BOOT_NORMAL /\ timer >= config.delay
    /\ mode' = "app"
    /\ UNCHANGED <<config, eeprom, flash, base, skew, off, page, ready, timer,
                   ph, answer, linkVars>>

Tick ==
    /\ mode = "boot" /\ ph = "loop"
    /\ timer < MaxTicks
    /\ timer' = timer + 1
    /\ UNCHANGED <<mode, config, eeprom, flash, base, skew, off, page, ready,
                   ph, answer, linkVars>>

\* Steps the module takes by itself, without the clock and the power supply.
DevStep ==
    \/ Filtered \/ BootAlive \/ AppAlive \/ Ignore \/ AppReset
    \/ BootCommand
    \/ EraseConfig \/ ProgramConfig \/ ErasePage \/ ProgramPage \/ Reply
    \/ DoReset \/ StartApp

DevNext == DevStep \/ Tick \/ PowerLoss

\* Every variable of the module and of its two paths keeps its type.
ModuleTypeOK == LinkTypeOK /\ DevTypeOK

=============================================================================
