---------------------------- MODULE BootTransfer ----------------------------
(***************************************************************************)
(* How far an upload has got: the invariant that relates the plugin's      *)
(* queue, the messages on both paths, the handler in progress and flash,   *)
(* for a module that is alone on its bus and keeps its power.              *)
(***************************************************************************)
EXTENDS BootUpload

\* Answers of other modules, a change of id and a power failure are what lets
\* plugin and module disagree without either of them noticing.
Alone ==
    /\ Ids = {DefaultId} /\ NewIds = {}
    /\ "powerLoss" \notin Faults

\* The messages of the upload, in their order: the emergency, the base address,
\* the chunks of the image from FirstChunk on, and the three that end it.
Script     == MessageQueue(DefaultId, image)
Chunks     == Len(image) \div ChunkWords
FirstChunk == 3
Ending     == Chunks + FirstChunk
Final      == Ending + 2
ImagePages == Len(image) \div PageSize

\* What the messages of the upload do to the module, in the order of the script.
Stage(m) ==
    CASE m.cmd \in {"PROGRAM", "SET_BASE_ADDR"} -> 2
      [] m.cmd = "WRITE_INC"                    -> 3
      [] m.cmd = "SET_STATE"                    -> 4
      [] m.cmd = "WRITE_BOOTCONFIG"             -> 5
      [] m.cmd = "RESET"                        -> 6
      [] OTHER                                  -> 0

Good(m) == m.cmd = "WRITE_INC" /\ ~m.nack

Sorted(q) ==
    \A i, j \in 1..Len(q) :
        i < j /\ ~IsAlive(q[i]) /\ ~IsAlive(q[j]) => Stage(q[i]) <= Stage(q[j])
Before(p, q) ==
    \A i \in 1..Len(p), j \in 1..Len(q) :
        ~IsAlive(p[i]) /\ ~IsAlive(q[j]) => Stage(p[i]) <= Stage(q[j])
AtLeast(q, stage) == \A i \in 1..Len(q) : IsAlive(q[i]) \/ Stage(q[i]) >= stage

-----------------------------------------------------------------------------
(* The module.                                                              *)
Pending == answer # NoMessage

Programmed == \E words \in Images : Holds(words)

\* The module has just taken the base address.
Based ==
    /\ mode = "boot" /\ config.state # BOOT_NORMAL
    /\ base = 0 /\ off = 0 /\ ready
    /\ ph \in {"loop", "reply"}
    /\ answer \in {NoMessage, SetBaseAddress(DefaultId)}

\* It takes chunks: nothing makes it bootable, nor what it has started to write.
Loading ==
    /\ mode = "boot" /\ config.state # BOOT_NORMAL
    /\ ready /\ ph # "reset"
    /\ base > 0 => eeprom.state # BOOT_NORMAL

ModuleSound ==
    /\ skew = 0
    /\ mode = "app" => ph = "loop" /\ Whole
    /\ config.state = BOOT_NORMAL \/ eeprom.state = BOOT_NORMAL => Whole
    /\ eeprom = ErasedConfig \/ eeprom.id = DefaultId
    /\ ph \in {"loop", "reset"} => ~Pending
    /\ ph = "reply" => Pending
    /\ Pending => answer.cmd \in {"SET_BASE_ADDR", "WRITE_INC", "SET_STATE",
                                  "WRITE_BOOTCONFIG", "RESET"}
    /\ Writing =>
          /\ config.state # BOOT_NORMAL /\ eeprom.state # BOOT_NORMAL
          /\ Good(answer) /\ base < BootPage /\ off = PageSize
    /\ Saving =>
          \/ ~Pending /\ config.state # BOOT_NORMAL
          \/ answer.cmd = "WRITE_BOOTCONFIG"
          \/ config.state # BOOT_NORMAL /\ Good(answer) /\ base = 0 /\ off = PageSize
    /\ answer.cmd = "SET_BASE_ADDR" => Based
    /\ off = PageSize => base >= BootPage \/ (Good(answer) /\ (Saving \/ Writing))

\* Until an answer is lost, what is about to be made bootable is an image.
SavesImage ==
    ~answersLost /\ Saving /\ config.state = BOOT_NORMAL => Programmed

-----------------------------------------------------------------------------
(* The plugin, with the message at h of the script next.                    *)
HostSound ==
    /\ ~dialog /\ active = ~buttons
    /\ active => /\ observing /\ combo = DefaultId /\ module = DefaultId
                 /\ outcome = "none" /\ image # NoImage

NothingSent ==
    /\ outcome # "done" /\ ~Pending
    /\ \A i \in 1..Len(toDev) : toDev[i] = AliveRequest
    /\ \A i \in 1..Len(toHost) : IsAlive(toHost[i])

Reached(h) ==
    /\ active => /\ Len(queue) = Final + 1 - h
                 /\ \A i \in 1..Len(queue) : queue[i] = Script[h + i - 1]
    /\ outcome = "done" => h = Final

(* The messages on their way.  Each comes from the script, up to h; an       *)
(* answer of the upload before may be among those to the host until the      *)
(* base address is acknowledged, and is refused.                             *)
Sent(m, h)  == \E i \in 1..h : m = Script[i]
Echo(m, h)  == \E i \in 1..h : m = Script[i] \/ m = Nack(Script[i])

Requests(h) ==
    /\ \A i \in 1..Len(toDev) : toDev[i] = AliveRequest \/ Sent(toDev[i], h)
    /\ Sorted(toDev)

StaleAnswers ==
    \A i \in 1..Len(toHost) :
        toHost[i] = SetBaseAddress(DefaultId) =>
            /\ Based
            /\ \A j \in i+1..Len(toHost) :
                  IsAlive(toHost[j]) \/ toHost[j] = SetBaseAddress(DefaultId)

\* What the host has accepted is behind everything on its way.
Answers(h) ==
    /\ \A i \in 1..Len(toHost) : IsAlive(toHost[i]) \/ Echo(toHost[i], h)
    /\ Pending => Echo(answer, h)
    /\ Sorted(toHost) /\ Before(toHost, <<answer>>) /\ Before(toHost, toDev)
    /\ Pending => Before(<<answer>>, toDev)
    /\ LET accepted == Stage(Script[h - 1]) IN
          AtLeast(toHost, accepted) /\ AtLeast(<<answer>>, accepted) /\ AtLeast(toDev, accepted)

(* What they have done to the module.                                        *)
ChunksLeft ==
    answer.cmd = "WRITE_INC" \/ \E i \in 1..Len(toDev) : toDev[i].cmd = "WRITE_INC"

Answered(cmd) == \E i \in 1..Len(toHost) : toHost[i].cmd = cmd

Prepared(h) ==
    /\ h < Ending \/ ChunksLeft => Loading
    /\ h > Ending \/ Answered("SET_STATE") \/ answer.cmd = "SET_STATE" =>
          config.state = BOOT_NORMAL
    /\ \/ h = Final
       \/ Answered("WRITE_BOOTCONFIG")
       \/ answer.cmd = "WRITE_BOOTCONFIG" /\ ph = "reply"
       => \/ eeprom.state = BOOT_NORMAL
          \/ answer.cmd = "WRITE_BOOTCONFIG" /\ ph = "programConfig"
    /\ ph = "reset" => h = Final

-----------------------------------------------------------------------------
(* The words received since the base address, in flash and in the page       *)
(* buffer.  The chunk that an answer on its way acknowledges has a number:    *)
(* that of the chunks stored before it.                                       *)
Store ==
    [pw \in {pw \in (0..base) \X (0..PageSize-1) : pw[1] < base \/ pw[2] < off} |->
        IF pw[1] < base THEN flash[pw[1]][pw[2]] ELSE page[pw[2]]]

Position(pw) == pw[1] * PageSize + pw[2]
Amount       == base * PageSize + off

One(m)    == IF Good(m) THEN 1 ELSE 0
Latest(q) == Len(q) + 1

Numbered(number, h, answers, pending, amount) ==
    /\ \A i \in 1..Len(answers) : number[i + 1] = number[i] + One(answers[i])
    /\ \A i, j \in 1..Latest(answers) : i <= j => number[i] <= number[j]
    /\ number[1] >= h - FirstChunk
    /\ amount >= ChunkWords * (number[Latest(answers)] + One(pending))

Exact(number, answers, pending, amount) ==
    amount = ChunkWords * (number[Latest(answers)] + One(pending))

\* The words of chunk number n are those of the message m.
Chunk(store, n, m) ==
    \A pw \in DOMAIN store, d \in 0..ChunkWords-1 :
        Position(pw) = ChunkWords * n + d => store[pw] = m.data[d + 1]

\* The chunks acknowledged to the host are the first ones of the image.
Chunked(number, h, store, words, answers, pending) ==
    /\ number[1] = h - FirstChunk
    /\ \A pw \in DOMAIN store :
          Position(pw) < ChunkWords * number[1] => store[pw] = Word(words, pw[1], pw[2])
    /\ \A i \in 1..Len(answers) : Good(answers[i]) => Chunk(store, number[i], answers[i])
    /\ Good(pending) => Chunk(store, number[Latest(answers)], pending)

\* Until an answer is lost no chunk has been stored twice; what follows a buffer
\* that is full at the bootloader is refused.
Received(h) ==
    /\ \A pw \in DOMAIN Store : Store[pw] \in Range(image)
    /\ \E number \in [1..Latest(toHost) -> Nat] :
          /\ Numbered(number, h, toHost, answer, Amount)
          /\ ~answersLost =>
                /\ Chunked(number, h, Store, image, toHost, answer)
                /\ off < PageSize \/ base < BootPage => Exact(number, toHost, answer, Amount)

Complete ==
    /\ Rewritten(image) /\ (~answersLost => Holds(image))
    /\ ChunksLeft => base >= ImagePages

Progress(h) ==
    /\ Reached(h) /\ Requests(h)
    /\ h < FirstChunk => StaleAnswers
    /\ h >= FirstChunk =>
          /\ Answers(h) /\ Prepared(h)
          /\ IF h < Ending THEN active => Received(h) ELSE Complete

\* Once a page of the upload has been erased, flash is that of its image.
FromImage(h) ==
    h >= Ending \/ (h >= FirstChunk /\ active /\ (base > 0 \/ ph = "programPage"))
       => stored = image

TransferInv ==
    /\ ModuleSound /\ SavesImage /\ HostSound
    /\ image = NoImage => NothingSent
    /\ image # NoImage => \E h \in 1..Final : Progress(h) /\ FromImage(h)

=============================================================================
