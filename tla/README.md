# OpenECoSys network tools: TLA+ models, model checking and proofs

OpenECoSys puts small modules (dsPIC, PIC18, PIC32) on a CAN bus and a Qt program, the
NetworkViewer, on a PC. The modules are found by polling, their variables are read and
written over the bus, and a bootloader in each dsPIC lets the viewer replace the
application. This directory models the parts whose correctness depends on the order of
messages, threads, interrupts, timers and power failures.

1. [The system](#1-the-system)
2. [The modules](#2-the-modules)
3. [The runs](#3-the-runs)
4. [Fairness](#4-fairness)
5. [What is proved](#5-what-is-proved)
6. [What is only model-checked](#6-what-is-only-model-checked)
7. [Where the code and its comments disagree](#7-where-the-code-and-its-comments-disagree)
8. [What is not modelled](#8-what-is-not-modelled)
9. [Plan](#9-plan)

## 1. The system

    +--------------------------- NetworkViewer (PC) -----------------------------+
    | bootloader plugin    logger, scope, script engine, windows    GUI thread   |
    |        |  pushNETVMessage       |  variables                               |
    |        v                        v                                          |
    | interface handler  <--->  interface manager + network scheduler            |
    |   send thread, receive thread                                              |
    |        |  sendMessage / recvMessage                                        |
    | driver: SerialEmulator, SerialBridge, Loopback, TcpRemoteClient, PCAN, ... |
    +--------|-------------------------------------------------------------------+
             | serial line, CAN bus, TCP
    +--------|------------------------- module ----------------------------------+
    | driver of the stack (receive interrupt, ring)                              |
    | protocol stack NETV8 / NETV16 / NETV32: netv_transceiver, data flow table  |
    | application   |   dsPIC bootloader (its own flash pages, EEPROM row)       |
    +----------------------------------------------------------------------------+

| Component | State it keeps | Operations | Hard behaviour | Correct when |
|---|---|---|---|---|
| dsPIC bootloader (`Bootloader/dsPICBootloader.X/main.c`, `eeprom_flash.s`) | flash, EEPROM row with the boot configuration, RAM copy of it, page buffer, base address | reset, alive answer, GET/SET commands, `WRITE_INC`, `WRITE_BOOTCONFIG`, start of the application | power failure between erase and program; commands in any order, addresses and lengths of any value | its own pages and the reset vector stay, the id changes by acknowledged commands only; a half-written application does not start |
| Bootloader plugin (`GUI/plugins/dsPICBootloader/dsPICBootloader.cpp`) | queue of messages, timer, current module, combo box | upload, stop, change id, answers, timeouts, modules appearing and vanishing | lost and late answers, resending, stale selection | "Done programming." means the image is in flash; every upload ends |
| Interface handler (`core/src/NETVInterfaceHandler.cpp`) | message list, semaphore, two mutexes, observers, `m_running` | push, register, unregister, destroy, send loop, receive loop | three threads, devices that fail | FIFO, nothing stranded, no call-back after unregistration, destructor returns |
| Interface manager (`core/src/NETVInterfaceManager.cpp`) | modules, time of the last answer, `m_active` | alive request and answer, watchdog, `requestVariable`, removal | timers, wrap-around of the time of day | silent modules are found out, answering ones never declared silent |
| Network scheduler, configurations, variables (`core/src/NetworkScheduler.cpp`, `ModuleConfiguration.cpp`, `ModuleVariable.cpp`, `NetworkModule.cpp`) | round robin of pointers to variables, signal connections | load, add, activate, delete, turn | a pointer kept after its variable is deleted, variables scheduled twice or not at all | every activated variable of an active module comes round, no other |
| Protocol stacks (`NETVProtocolStack/NETV{8,16,32}`) | data flow table, boot configuration | `netv_transceiver`: alive, reset, read, write | the application's interrupts while a variable is copied byte by byte | no value is read or written in halves; the first eight bytes of the EEPROM, the bootloader's, are never written |
| Serial drivers (`NETV{8,16,32}_SerialDriver.c`) | receive ring, two indices, a count | interrupt, `netv_recv_message`, `netv_send_message` | interrupt at any point, lost bytes, overrun | FIFO, resynchronises |
| SerialEmulator (`core/drivers/SerialEmulator`) | bytes of the port, queue, semaphore | `serialReadyRead`, `recvMessage`, `event` | frames in pieces, two threads | messages in order, none left behind |
| Loopback (`core/drivers/Loopback`) | virtual modules, list of answers, semaphore | `sendMessage`, `recvMessage`, the sine timer | three threads; list and permits change apart | no message is taken that is not there |
| Remote server and client (`NETVRemoteServer.cpp`, `NETVRemoteClient.cpp`, `drivers/TcpRemoteClient`) | sockets, a list of received messages | broadcast, forwarding of writes, serialisation, disconnection | messages arrive in pieces; two viewers show the same variables | both ends stay at the start of a message; edits keep their order; both viewers end up with the module's values |
| SerialBridge, PCAN, SocketCAN, EthernetBridge | handles, sockets | `sendMessage`, `recvMessage` | those of the vendor's or kernel's interface | not modelled, see section 8 |

How they interact. Everything the viewer sends goes through `pushNETVMessage` and the send
thread; everything it receives is handed by the receive thread to the observers, which post
an event to the GUI thread. The manager and the bootloader plugin are such observers. The
plugin also reads the manager's list of modules and is told of changes by signals. The
manager's and the plugin's timers, the answers and the user's clicks are all handled in the
GUI thread, so that each handler is one atomic step of the models of these parts; only the
interface handler, the receive queue of the serial driver, the list of the loopback driver,
and the ring and the table of a module are shared between threads or with an interrupt, and
there the models have the grain of the single semaphore, mutex and memory operations. The
one place where the GUI thread runs an event loop inside a handler, the dialog of
`changeModuleID`, is modelled as such.

The hazards, each at its line with the properties that cover it, are in `PROJECT.json`.

## 2. The modules

| Module | Models | State and actions, in the names of the code |
|---|---|---|
| `BootLink` | the messages of the bootloader dialogue and the two FIFO paths between plugin and module | `toDev`, `toHost`; `Push` (`pushNETVMessage`), `LoseRequest`, `LoseAnswer` |
| `BootDevice` | `main.c` of the bootloader, and what the plugin sees of a running application (`netv_transceiver`) | `mode`, `ph` (the point in the command's handler), `flash`, `eeprom`, `config` (RAM copy), `page`, `off`, `base` and `skew` (`baseAddr`: its page and the place in it), `answer`. One action per command; a flash page and the EEPROM row are written in two steps, erase and program, each of which power may fail before or after |
| `BootClient` | the bootloader under any client: every request of `Requests` in any order | composes `BootDevice` with an arbitrary sender |
| `BootHost` | `dsPICBootloader.cpp`: upload, stop, `changeModuleID`, `event`, `timeout`, combo box, module list | `queue` (`m_msgQueue`), `active` (`m_interface` is set), `module` (`m_module`), `combo`, `buttons`, `dialog` (the nested event loop of `changeModuleID` runs), `outcome`, the timers |
| `HexFile` | `hexutils.cpp`, `loadHEX` and `generateMemoryMap` as functions of a file | `load`, `validate`, `parse`, `memoryData`; a file is the sequence of its records |
| `BootUpload` | plugin, module and paths together | composes `BootDevice` and `BootHost` over `BootLink` |
| `BootTransfer` | nothing more of the code: how far an upload has got, the invariant that ties the plugin's queue to what is in flight, to the handler in progress and to flash | `ModuleSound`, `SavesImage`, `HostSound`, `Progress`, `FromImage` |
| `FirmwareUpdate` | the abstract promise of an update | `memory` (the applications it holds the whole of), `wanted`, `bootable`, `report` |
| `SendQueue` | the abstract promise of the handler: a FIFO that delivers each message once | |
| `InterfaceHandler` | `NETVInterfaceHandler.cpp` | a program point for each of the three threads (`gui`, `sender`, `receiver`); `queue`, `permits` (`m_listSemaphore`), `observers`; a mutex is held exactly at the points its critical section spans |
| `NetworkScheduler` | `NetworkScheduler.cpp` as operators on a record: the round robin `list`, and the modules and variables whose signals are connected | `AddModule`, `RemoveModules`, `Added`, `Removed`, `Activated`, `Rotated` |
| `InterfaceManager` | `NETVInterfaceManager.cpp` with configurations and variables, over `NetworkScheduler` | `clock` (a `QTime`), `known`, `active`, `heard`, `conf`, `activated`, `sched`, `asked`. Each handler with every signal it emits is one action |
| `SerialFrames` | the frame: start byte, message, checksum | |
| `SerialReceiver` | `NETV16_SerialDriver.c` (the drivers of NETV8 and NETV32 differ in how they mask interrupts) | `ring`, `writeIndex`, `readIndex`, `available`, the point `at` in `netv_recv_message`; `Interrupt` may come between any two of its steps |
| `SerialViewer` | `SerialEmulator.cpp` | `port`, `batch` (the frames of one `serialReadyRead` still to be looked at; `QueueFrame` keeps one, `DropFrame` refuses it), `recvQueue`, `semaphore`, `taking` |
| `SerialLink` | both directions together | |
| `DataFlow` | the messages about variables and the two paths between a viewer and its interface | `table` (the memories of the module), `queue` (the handler's `m_msgQueue`, the adapter and the bus), `arrivals` (the way back and the driver's list) |
| `DataFlowTable` | the data-flow side of `netv_transceiver` (`NETV16_Common.c`) | `ph`, `held` (`g_rMessage`), `copied`; one action per byte copied, `Interrupt` between any two that `disi` does not cover, `LoseRequest`, `LoseAnswer` |
| `Loopback` | `Loopback.cpp`: reads, writes, alive requests, the sine timer | `permits` (`m_semaphore`), `owed` (those an alive request releases after the mutex) |
| `RemoteLink` | the serialised stream between `NETVRemoteServer.cpp` and `NETVRemoteClient.cpp` | `connected`, `down` and `up` (parts on their way), `downRead` and `upRead` (those arrived); `ClientReads`, `ServerReads`, `Disconnect` |
| `VariableValues` | the values of variables from the module to one or two viewers and back: `requestVariable`, `processCANMessage`, `setUserValue`, `writeVariable`, `loadConfiguration` of the view | composes the four modules above; `display` and `shown` are `m_value` at the viewer with the interface and at the one connected to it; `driver`, `remote`, `listed` are the deployment, chosen at first and kept |

`MCBootClient`, `MCBootUpload`, `MCInterfaceHandler`, `MCInterfaceManager`, `MCSerialLink`
and `MCVariableValues` define the values of the constants for TLC; `*_proofs` hold the
theorems. Variables that the code does not have are history or bounds: `uploads`, `outcome`
and `image` of the plugin, `answersLost` and `stored` of an upload, `strayed` of the
bootloader's clients, `taken` and `failures` of the
handler, `silence` of the manager, `fifo`, `overrun`, `requested`, `obtained`, `answered`,
`received` and the lost bytes of the serial link, `edits`, `polls` and `updates` of the
values. No guard reads them but for the bounds; an edit also gives its number to the value
it enters, so that values can be told by age.

The operators whose names end in `Mutant` are plausible bugs of the operator after them (a
dropped guard, an off-by-one, a missing reset); nothing refers to them in the
specifications. `PROJECT.json` lists for each property a mutant that violates it.

Abstractions worth knowing:

- A flash page is a function of `PageSize` words, one row of the memory. An address counts
  words as `PAGE_SIZE` does and is kept as a page, `base`, and a place in it, `skew`. Writing a
  page at an address inside one erases the row that holds the address (eeprom_flash.s:124).
  Each word then goes to the latch of its place in a row, and the row that is programmed is
  that of the last word, the next one; it was not erased, so that programming only clears
  bits (`Overwritten`). Whether the lowest bit of an odd address counts is left open. That is
  the memory's side of `WriteMem`, after the manual of the controller: the code only loads
  latches and starts the operation.
- A message of the dialogue is a record of command, destination and data; the fields of
  `NETV_MESSAGE` that only the CAN controller reads are left out. The data of a `WRITE_INC`
  are whole words in `data` and, of an odd number of bytes, the last in `half`: the test at
  main.c:442 and the offset count words, `memcpy` copies bytes. The odd byte becomes the low
  byte of the next word. Behind a full buffer it lands in nothing that matters or in
  `config.module_state`, which is declared after the buffer (main.c:239-240); which, the
  compiler decides.
- Time is counted in what the code compares: seconds for the watchdog, ticks of the
  one-second timer for the plugin and of the boot delay for the module. Nobody sets the
  clock of the PC.
- `recvMessage` of the loopback driver is one step: between its `tryAcquire` and its `pop`
  nobody else takes from the list, which has one consumer, and what is added meanwhile is
  added behind.
- The handler's two ways of not sending (nothing in the list, not running) and the
  uninitialised `result` that is then read lead to the same state, since `quit()` does
  nothing to a thread without an event loop.
- The bytes of a frame between start and checksum are one message; which bit belongs to
  which field plays no part in framing.
- The dialog of `changeModuleID` is modal: while it is open there are answers, timeouts and
  modules discovered, but no other click. When `timeout()` has stopped the plugin meanwhile,
  `m_module` is null and accepting the dialog dereferences it; the model has no step for
  that.
- The variables of a configuration all differ, so that adding them to the scheduler one by
  one is adding those that are new at once, in order.
- A variable is `Size` bytes that are equal in every value: a torn value is one whose bytes
  differ. `Ram`, `Eeprom`, `BootConfig` and `Outside` say where it lies. A text that
  converts to no number is shown as typed and written as zero.
- A part of a serialised message is a run of bytes that arrives at once: `HeaderParts` in
  the header, one for the data of a variable, `EventParts` for that of an event. A stream
  contains everything from the serialiser to the reader: the event posted to the server, the
  socket's buffers at both ends, and `m_msgList` of `TcpRemoteClient`.
- One interface and one remote client: the server broadcasts to all sockets and forwards to
  all interfaces alike (with a FIXME, NETVRemoteServer.cpp:125).
- `Quiet` and `Capacity`: a timer asks for the next variable when what it asked for before
  has been dealt with. The timers of the code do not wait, but with one request every 10 ms
  and a bus far faster a longer queue only repeats what a shorter one shows. Edits are not
  held back.
- The transceivers of NETV8 and NETV32 are the same code but for how they mask interrupts
  while they copy and for the filter on `msg_dest`, which they have in software.

## 3. The runs

| Run | Question | Distinct states |
|---|---|---|
| `boot_client` | the bootloader under every command in any order, any address and length, with power failures | 2,722,974 |
| `upload_faults` | two uploads, requests and answers lost; refinement of `FirmwareUpdate` until an answer is lost | 3,174,963 |
| `upload_ids` | other modules, changes of id through the dialog and of selection | 3,503,597 |
| `upload_ends` | liveness of an upload with losses in both directions and a boot delay | 394,673 |
| `handler` | three threads, failing device, destructor | 369,035 |
| `module_life` | discovery, silence, removal, configurations, activation | 94,020 |
| `serial_link` | frames both ways with losses | 519,377 |
| `values` | reads, writes, edits and loads on a bus or the loopback driver, at a local or a remote viewer, with losses | 262,372 |
| `lost_answer`, `power_loss`, `other_module`, `midnight` | violations, see section 7 | |

What they show, and why the bounds suffice:

- **boot_client.** Four pages of two words, the last two the bootloader's: a first page with
  the reset vector, a page below the bootloader, the page of the bootloader an address just
  below it can reach, and one it cannot. A chunk of no word, one or two, or of one word and
  an odd byte, reaches every case of the test at main.c:442 (fits, ends the page, passes the
  end, passes it by the odd byte alone). The odd byte is the one that makes the module
  bootable where it lands in `module_state`. Base addresses are 0 and 1, the beginning of page
  0 and a place inside it; a page at a time they reach the beginning of every page up to the
  bootloader, and the places inside. Words of four bits show what programming without an
  erase leaves. Ids 2 and 3 tell a saved from an unsaved id, and 255 is the one that looks
  like an erased EEPROM. One request at a time waits for the module, which takes them one by
  one, so that `ClientWaits` drops only states that differ in when the client speaks: while a
  handler runs, before the last answer is collected, after a tick. It also keeps the reading
  commands (GET_*, READ_INC), which change nothing but the timer, to the time before the
  first base address.

  The viewer sends addresses of whole pages and, `ChunkWords` at a time, whole words. The
  bootloader refuses nothing else, and the properties say what then remains:

  | Property | Holds for every client | Only while no page is written at an address inside one |
  |---|---|---|
  | `BootloaderIntact` | no page of the bootloader but its first changes | nor does its first |
  | `ResetVectorKept` | | the reset vector starts the bootloader, or page 0 is erased after a power failure |
  | `FirstPageGuarded` | page 0 written at address 0 is written with a normal boot forbidden | so is page 0 at all |
  | `WritePrepared` | a page is written at an address below the bootloader, with the reset vector at address 0 | |
  | `PageWrittenBeforeAck` | | what is acknowledged is in flash |
  | `IdKept` | the id changes by an acknowledged `SET_MODULE_ADDR` only | |

  `IdKept` has two exceptions, both of the code: 255 given as an id is taken for an erased
  EEPROM at the next reset, and power lost while `writeBootConfig` rewrites the row gives the
  id before or, once the row is erased, the default one. Outside these two windows no reset
  changes the id.
- **Files.** The images of the runs of `MCBootUpload` are the memory maps `HexFile` makes of small files whose records come out of
  order, with high halves of addresses between them. Before each of these runs TLC checks
  `HexFilesAreMapped`: for every file of up to four records from two extended addresses and
  three data records, the memory map has every byte below the bootloader where the file
  says and zero elsewhere, begins with the jump to the bootloader and ends with a page; a
  file with a wrong checksum is refused, and one cut short when what is left in the buffer
  has a wrong checksum (the buffer is uninitialised, so one in 256 passes). Addresses in a
  record are 0..3, so that the flash below the bootloader needs the high half as the 0x9000
  words of the code do. Records that overlap are excluded: which byte stays then depends on
  an order `std::sort` leaves open, and which `Sortings` has all of. So are records across
  the beginning of the bootloader, which `generateMemoryMap` keeps whole; the module refuses
  their pages by itself (`BootloaderIntact`).
- **upload_faults.** One word per `WRITE_INC` and pages of two words, so that a page takes two
  messages and a loss can fall inside a page or at its end. The two uploads ask for an image
  of one page or of two, each for either: the second starts from whatever the first left,
  and may be shorter or longer than it. The longer image repeats a word, so that a chunk
  appended twice may look right. Until an answer is lost the upload implements
  `FirmwareUpdate` (`ImplementsUpdate`) and success means that flash holds the image
  (`DoneUnlessAnswerLost`), however many requests are lost; with lost answers
  `BootableMeansWhole` remains: an application that may start is that of the factory, or has
  every page rewritten with nothing but words of the image that flash was last erased for
  (`stored`); the shorter image is the beginning of the longer, and a page of the longer over
  the old rest does not pass for it. The run's specification is `DrainedSpec`, where an upload
  starts only when nothing of the one before is in flight: the answers take milliseconds, the
  user seconds. Without it a late answer of an aborted upload counts for the next, and
  `BootableMeansWhole` does not hold.
- **upload_ids.** Modules 1 and 3 around the programmed module 2, on both sides of it in the
  sorted list and in the combo box; one word in one page, as the image does not matter here.
  The dialog that changes an id may stay open while an earlier change times out or modules
  appear; `m_module` never points to a module that is gone, and the queue is never read empty.
- **upload_ends.** One tick of the boot delay (`MaxTicks = 1`), one upload. The upload ends:
  with success, or, for a module that runs its application because the emergency was lost or
  its EEPROM lets it, with the abort after ten seconds (dsPICBootloader.cpp:519). The one
  exception `UploadEnds` names: a module that leaves the bootloader between `SET_STATE` and
  `WRITE_BOOTCONFIG`, on the state set in RAM, has an EEPROM that does not say
  `BOOT_NORMAL`; its alive answers report `BOOT_IDLE`, and `timeout()` resends for ever
  (dsPICBootloader.cpp:497).
- **handler.** Three pushes are enough for a permit lost to a failure, the message it
  strands, and one behind it; two observers for one to be unregistered while the other is
  called. All device results occur.
- **module_life.** Two modules, three variables (one that can be requested, one without an
  offset in the table, one of a script, which the scheduler refuses), a day of four seconds
  and a timeout of one, so that the clock wraps around in every phase of a module's silence.
- **serial_link.** Bytes modulo 8, frames of three bytes, a ring of two frames. With three
  frames a start byte can be taken from inside a frame, an overrun can happen, and a lost
  byte can cost its frame and the next, and the viewer cuts frames it must refuse; the
  messages include one that is the start byte and one whose checksum is. Instances with four frames, one or two losses and fewer messages
  gave the same results.

- **values.** Five deployments: a bus with a variable in RAM and one in the bootloader's cells,
  or with one beyond the table; the loopback driver with two virtual modules; a bus and a
  loopback behind a console with a remote viewer. Variables of two bytes, so that an
  interrupt can fall between them; a header of two parts, so that a message arrives in
  pieces; two edits, so that one can overtake the other; one update by an interrupt while a
  value is copied; one alive request, enough for the loopback driver's list to lag behind.
  Requests and answers are lost. `Eeprom` is empty: its variables are read and written as
  those of RAM are, without the interrupts; the theorems of `VariableValues_proofs` include
  them.

`CHECK_DEADLOCK FALSE` is set where the system may stop: uploads, pushes, frames, edits and
losses are bounded, the users and the connection may do nothing more, and a deleted handler
does nothing more. The manager's runs check deadlock: its timers never stop.

## 4. Fairness

- `BootUpload!FairSpec`: weak fairness of the module's main loop and of the plugin's timeouts
  (timers of the GUI thread); strong fairness of taking a command, an alive request, an answer
  or an alive answer, since a path that loses messages does not lose all of them. The
  manager's polling has strong fairness: its timer never stops, and only `Capacity`, which is
  the model's and not the code's, disables it now and then.
- `InterfaceHandler!FairSpec`: weak fairness of each thread. The receive thread comes back
  from every `recvMessage` in bounded time: the drivers use `tryAcquire` with 10 ms, a
  non-blocking socket, or return at once. Strong fairness of a successful `sendMessage`: a
  device that overflows does not do so for ever.
- `InterfaceManager!FairSpec`: weak fairness of the watchdog and of the scheduler's timer.
  `NoneStarves` assumes in addition that configurations are not reloaded for ever, as each
  reload puts its variables at the end of the list.
- `SerialLink!FairSpec`: bytes arrive, the module's main loop goes on, and so do the slot
  and the receive thread.
- `VariableValues!FairSpec`: weak fairness of the module's main loop, the loopback driver's
  send thread, the receive thread (`Deliver`), both readers of the connection and, while it
  lasts, of TCP. Strong fairness, for each variable that can be read, of asking for it (the
  round robin comes to every variable: `NoneStarves` of `InterfaceManager`), and of the
  module's and the viewer's taking a message about it (a path that loses messages does not
  lose every one about one variable).

Users, faults, interrupts, disconnections and modules that vanish have no fairness.

## 5. What is proved

All theorems are of the form `Spec => []P`, `Spec => [][A]_vars` or `Spec => Abstract!Spec`,
for every value of the constants that satisfies the named assumptions in the modules
(`LinkAssumption`, `DeviceAssumption`, `ClientAssumption`, `HostAssumption`,
`UploadAssumption`, `HandlerAssumption`, `SchedulableAssumption`, `ManagerAssumption`,
`FrameAssumption`, `RingAssumption`, `AnswersAssumption`, `DataFlowAssumption`,
`TableAssumption`, `LoopbackAssumption`, `RemoteAssumption`, `ValuesAssumption`); those of
`BootTransfer_proofs` are of `DrainedSpec` and of a module that is `Alone`, see there. Every
safety property of every passing run is the property of a theorem. Each proof follows the
same scheme: an inductive invariant, one step per action, and a temporal step.

- **`BootDevice_proofs`.** Lemmas about the module that the next two share: every step of it
  keeps `ModuleTypeOK`, for any address and length.
- **`BootClient_proofs`.** `TypeOK` is inductive by itself: `pageOffset` never passes the end
  of the buffer, although the chunks come from outside (the odd byte that may lie behind it
  does not count, as in the code; `Spilled` says where it goes). `Safe` is the conjunction of
  the safety invariants with `PageWritten` and `IdSaved`. It is needed because a page is
  written in two steps: what is true of flash after the second depends on what `WriteInc` had
  tested (address below the bootloader, reset vector put back, EEPROM made unbootable) before
  the first, and what a reset does to the id on how far `writeBootConfig` has got. The
  theorems hold for every set of requests, with base addresses anywhere and chunks of any
  number of bytes; where an address inside a page defeats a test of the code, the property
  says so (section 3), and what is proved is that nothing else does. `TypeCorrect`, `BootloaderSurvives`, `ResetVectorSurvives`, `FirstPageIsGuarded`,
  `IdSurvives`, `WritesArePrepared`, `AckFollowsWrite`.
- **`BootUpload_proofs`.** `Inv` adds two things to `TypeOK` and `NoDanglingModule`.
  `IdsValid`: the ids in requests on their way, in the module and in its EEPROM are ids a
  module can have, so that those of alive answers are; the manager's list and with it the
  combo box then hold such ids only. `QueueEnds`: while the plugin is active its queue ends
  in a bootloader message. `timeout()` only skips a message of another kind and `event()`
  only takes the last one on its way to `stop()`, so that one always remains: that is why
  `QueueNonEmpty` holds, which alone is not inductive. That the lowest id in the list is one
  of the list needs the least element of a set of naturals, from the well-foundedness of
  `<`. `TypeCorrect`, `QueueIsNeverEmpty`, `ModuleNeverDangles`; for every set of faults, and for
  `Spec`, where the user may start the next upload at any time.
- **`BootTransfer_proofs`.** `AlwaysTransfer` proves `Inv /\ TransferInv`, and from it
  `AlwaysBootable`, `DoneIsTrue` and `UpdateImplemented`. `TransferInv` says that there is a
  message `h` of the upload's script which the plugin waits to have answered, and relates
  everything to it. `Requests` and `Answers`: whatever is in flight comes from the script up
  to `h`, in the order of the script by `Stage`, so that behind the answer the plugin has
  accepted nothing earlier can come. `Received`: the words that module has received, in flash
  and in the page buffer, are numbered by chunk; an acknowledged chunk has been appended at
  least once, and until an answer is lost exactly once, which places each word. That is why
  a request resent after a lost request does no harm and one resent after a lost answer
  does. `Prepared` and `Complete`: what `SET_STATE` and `WRITE_BOOTCONFIG` have done, and
  that they come after the last chunk. `ModuleSound` and `SavesImage`: what is about to be
  erased or programmed when power stays on. `FromImage`: once a page has been erased for the
  upload, the image flash was last erased for is that of the upload. The theorems assume
  - `DrainedSpec`, as in the run: without it they are false;
  - `Alone`, which the constants of `upload_faults` satisfy: one module, no change of id, no
    power failure. `BootableMeansWhole` is false
    with a power failure inside a page (run `power_loss`); with other modules or ids the
    combo box may point elsewhere and answers of the programmed module are then ignored (run
    `other_module`). Both are properties of the code and not of the proof.

  `Rewritten` says that every word in the pages of an image is one of the image's words. That
  each page only differs from the old application would not do: so does a page of a longer
  image that the upload of a shorter one leaves behind.
- **`InterfaceHandler_proofs`.** `Positions` ties the contents of the list to the point each
  thread has reached (the sender holds the list mutex from its test of the list to the end,
  so the list it sends from is not empty; what is still to be notified is registered). From
  it: `PermitsBalance` (the semaphore lags behind the list by exactly the failed sends),
  `OnlyRegisteredCalled`, and `DeliversInOrder`, the refinement of `SendQueue`.
- **`InterfaceManager_proofs`.** First lemmas about the scheduler's operators on the round
  robin. `Without` keeps the elements that are not gone, each as often as it was (the
  positions kept are numbered by how many there are up to each: an injection between sets of
  the same finite size is a bijection); each operation keeps a scheduler `Sound` (no variable
  twice, and all of them connected), and does to its list and connections, as sets, what its
  name says. Then the manager. `Watched` relates the time of day of the last answer to the
  true silence: `NotAhead` (on the same day the difference of the clock readings is the
  silence), `SameDay` (which of the two cases applies), and `DetectedWithinDay`, which is
  inductive only together with them. From it `SilenceIsDetected` and `NoFalseAlarm`, for
  every length of day and timeout. `Scheduled` relates the round robin to configurations and
  modules: `ConfsSound` (no variable in two configurations or twice in one, none of unknown
  modules) and `ScheduleSound` (the scheduler serves exactly the active modules, and is
  connected to all of their variables and to no others than those of known modules). The
  connections are what makes it inductive: `removeModule` leaves those of variables that
  were switched off, a later click schedules such a variable of an inactive module, and it
  is the connection to `aboutToDestroy` that takes it out before it dangles. From it
  `TypeCorrect`, `OwnersAreKnown` and `NoneIsMissing`.
- **`SerialLink_proofs`.** `RingInv`: `Reserved` (the bytes `netv_recv_message` counts on
  are there at each of its steps), `Apart` (the indices differ by the bytes not taken, up to
  full turns of the ring; this survives an overrun) and `Window` (without an overrun there
  is no full turn and the ring holds exactly the bytes of the FIFO). From it `RingStaysFifo`
  and `RingAlwaysRecovers`; from `QueueInv`, `PermitsAlwaysMatch`.
  `TypeCorrect`: with `ReceiverTypes` and `ViewerTypes`, every frame is as long as it should
  be, whatever is lost or overrun. That a checksum is a byte needs the running sums of a
  sequence of any length to exist: the least number of bytes without them, by the
  well-foundedness of `<`, would be neither 0 nor the successor of a number with them.
  `AlwaysInOrder`: `ReceiverOrder` and `ViewerOrder` say that the bytes in line, ring and
  buffer are those of the frames of the messages not yet obtained (`Aligned`), so that while
  nothing is lost the byte looked at is always the first of a frame, and no start byte inside
  a message is ever taken for one. The two ends lose bytes independently, so that each
  direction has its own invariant.
  `LossIsBounded`: `CostInv` traces each byte still to be parsed to the place where it was
  sent (`Traced`, a strictly increasing map). A byte missing between two others shows as a
  gap in it, and one missing before the front has been counted in `before`; the front is then
  within `FrameSize * (got + 2 * before) + 1`, so that each byte lost before it has paid for
  two messages. Skipping to a start byte moves the front to the beginning of a frame; copying
  a frame without a gap delivers it (`Unbroken`), copying one with a gap moves the gap before
  the front. The last theorem is for messages without a start byte in them, as `CostOfLoss`
  says: with one, a single lost byte can shift the frames for as long as such messages come.
- **`VariableValues_proofs`.** `Inv` says that queues, streams and viewers hold whole values,
  and, where one is being copied, that the bytes copied so far agree with their source while
  interrupts are off; from it `TypeCorrect` and `ValuesAreWhole`.
  `RemoteStaysInSync` needs that taking a complete message off a stream of whole messages
  leaves one. `LoopbackStaysBacked`: the alive requests still in the queue are counted, each
  of which will leave `Modules` messages without a permit, and a remote viewer only sends
  writes. `EditsStayInOrder`: nothing on its way is newer than the last edit, and a viewer
  with an interface of its own sends nothing through a connection.

## 6. What is only model-checked

- Liveness, which is out of the prover's reach: `UploadEnds`, `DestructorReturns`, `AllSent`,
  `NoneStarves`, `AllArrive`, `AgreesEventually`.
- `HexFilesAreMapped`: what `loadHEX` makes of a file, for the files described in section 3.
  It is recursion over the records, for which the provers have no induction.

## 7. Where the code and its comments disagree

| Run | Statement | What the code does |
|---|---|---|
| `lost_answer` | "Done programming." (dsPICBootloader.cpp:468) | after a lost answer `timeout()` resends a `WRITE_INC` the module has executed; the chunk is appended twice and the upload ends with success |
| `power_loss` | "Make sure we dont't boot in normal mode if data transfer aborts" (main.c:462) | after a power failure inside a page, the rest of the page is acknowledged and dropped, and the end of the upload makes the module bootable |
| `other_module` | "Feedback from the right module" (dsPICBootloader.cpp:445) | the combo box is rebuilt during an upload when modules come and go; the module it then shows is not the one being programmed |
| `midnight` | "TRUE if the module is active on the bus" (NetworkModule.h:144) | `QTime::secsTo` is negative after midnight: a module heard last just before stays active |

Two comments of the bootloader do not hold for a client other than the viewer. Its properties
state what does hold (section 3):

- "make sure we don't overflow our buffer" (main.c:441): the test divides
  `msg_data_length` by two, rounding down; the last byte of an odd number is copied behind a
  buffer that is otherwise full (`Overruns`).
- "Make sure we don't overwrite the bootloader" (main.c:469): the test is of the first
  address. A page written at an address inside the last page below the bootloader is
  programmed into the bootloader's first row; at an address inside page 0 the page is erased
  without the reset vector and the EEPROM being looked after (main.c:457).

Other things met while modelling, for which no statement of the repository says otherwise,
or which the models show to be harmless:

- `Loopback::sendMessage` queues two messages for each virtual module on an alive request and
  releases one permit (Loopback.cpp:142), so that the list lags behind by one message per
  module and request for ever. `LoopbackBacked` states exactly that bound.
- A text that is no number is written as zero while the viewer shows it as typed, until the
  next answer. Loading a configuration writes a zero for each variable that has no value in
  the file. The answer to a read beyond the table carries the zeros of the request.
- Edits made after the connection is lost reach nobody: `TcpRemoteClient` does not connect
  again, and its `sendMessage` then fails, with the messages kept by the handler.
- `operator==` of `NETV_MESSAGE` compares `msg_timestamp` with itself (NETVDevice.h:107),
  which is as well: an answer never has the time of its request.
- The dialog of `changeModuleID` uses `m_module` after its nested event loop: the new id goes
  to the module the combo box was rebuilt with meanwhile, or to a null pointer.
- Repeated connections (NetworkScheduler.cpp:137) only call an idempotent slot again; the
  uninitialised `result` (NETVInterfaceHandler.cpp:246) is read by nothing that matters.
- `g_availableBytes` (NETV16_SerialDriver.c:12) is not volatile; the model assumes that each
  access reaches memory, which the calls and the pragmas around them enforce in practice.

## 8. What is not modelled

- The CAN drivers of the modules, PCAN, SocketCAN and EthernetBridge: register access and
  thin wrappers of vendor or kernel interfaces. What they return is in `SendResults` of
  `InterfaceHandler`.
- Loading a file while the plugin runs. `stop()` enables the upload button whenever the
  document has lines (dsPICBootloader.cpp:548), also those of a file that failed `validate()`
  and was never parsed: after a change of id such a document can be uploaded. `BootHost`
  starts with a loaded file and has no step that loads another.
- Windows, logger, scope, script engine: presentation. The calls they make on handler and
  manager are actions of the GUI thread.
- USB stacks, Ethernet driver, board files and example main loops: vendored or
  hardware-bound. They are more than half of the lines of the repository; the models cover
  the logic that decides about messages, memory and threads.
- SerialBridge: raw structures without start byte or checksum over the port of the
  emulator, a subset of `SerialLink` without its resynchronisation.
- In `SerialEmulator`: the seconds after opening the port in which `sendMessage` drops
  messages, and statistics.
- In `Loopback`: the echo of bootloader commands and the boot state of virtual modules.
- Several remote clients or several interfaces; connecting; the console output of NETV32;
  the reset that NETV8 makes on an emergency message.
- XML files, the widths of types and the script variables of configurations; offsets and
  lengths of variables as numbers. That a variable reaches into the bootloader's eight bytes
  of the EEPROM (`BootConfig`) or beyond the table (`Outside`) is given; that the test
  `offset >= 8` (NETV16_Common.c:352) tells which do is not checked.
- `changeModuleID` when `m_module` has become null in its dialog: the program ends there.

## 9. Plan

Done: bootloader and upload with the dialog's event loop, interface handler, manager and
scheduler, serial link, data flow with loopback driver and remote viewers; the proofs of
section 5. What is left, in this order:

1. An abstract specification of a variable and its viewers (edits, polls and loads as single
   steps) and the proof that `VariableValues` implements it where nothing is lost.
2. Several interfaces behind one console: the server forwards a write to all of them
   (NETVRemoteServer.cpp:125), so that equal device ids on two buses are both written.
3. The boot state of the loopback driver's virtual modules, composed with `BootHost`.
4. `SerialBridge` as a variant of `SerialViewer`.
