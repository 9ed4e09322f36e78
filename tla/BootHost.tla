------------------------------ MODULE BootHost ------------------------------
(***************************************************************************)
(* The bootloader plugin of the viewer                                     *)
(* (GUI/plugins/dsPICBootloader/dsPICBootloader.cpp) with the part of the  *)
(* interface manager it watches: the modules discovered and the state each *)
(* reported last.  Everything here runs in the GUI thread, a slot at a     *)
(* time.                                                                   *)
(***************************************************************************)
EXTENDS BootLink, FiniteSets, SequencesExt

CONSTANTS
    Ids,            \* ids of the modules that can be discovered
    Images,         \* memory maps that can be uploaded, as page-aligned words
    ChunkWords,     \* words in a WRITE_INC, 4 in the code
    NoImage,
    MaxUploads      \* bound on the presses of the upload button

ASSUME HostAssumption ==
    /\ Ids \subseteq 1..254 /\ Ids # {} /\ IsFiniteSet(Ids)
    /\ Images \subseteq Seq(Nat) /\ NoImage \notin Images
    /\ ChunkWords \in Nat \ {0}
    /\ MaxUploads \in Nat

VARIABLES
    queue,      \* m_msgQueue
    active,     \* m_interface is set
    timerOn,    \* m_timer is set and running
    orphan,     \* a timer started earlier runs on, no pointer to it is left
    observing,  \* the plugin is registered with the interface handler
    module,     \* m_module, the id of the module it points to
    combo,      \* module id at the current index of the combo box
    buttons,    \* the load, upload and change buttons are enabled
    dialog,     \* changeModuleID shows its dialog, which is modal
    modules,    \* m_modules of the manager: ids, with the state reported last
    elapsed,    \* what m_elapsed shows
    outcome,    \* what was printed last about the upload
    image,      \* the memory map of the last upload
    uploads     \* presses of the upload button so far

hostVars == <<queue, active, timerOn, orphan, observing, module, combo,
              buttons, dialog, modules, elapsed, outcome, image, uploads>>

NoId == 0

Known == {m.id : m \in Range(modules)}
\* m_elapsed: never started, under 100 ms, under 10 s, more.
Elapsed == {"null", "fresh", "late", "expired"}

HostTypeOK ==
    /\ queue \in Seq(Message)
    /\ active \in BOOLEAN /\ timerOn \in BOOLEAN /\ orphan \in BOOLEAN
    /\ observing \in BOOLEAN /\ buttons \in BOOLEAN /\ dialog \in BOOLEAN
    /\ module \in Ids \cup {NoId} /\ combo \in Ids \cup {NoId}
    /\ modules \in Seq([id : Ids, state : Nat])
    /\ elapsed \in Elapsed
    /\ outcome \in {"none", "done", "error", "stopped"}
    /\ image \in Images \cup {NoImage}
    /\ uploads \in 0..MaxUploads

\* The viewer has discovered the module Target, which is selected, and the
\* HEX file is loaded.
HostInit(Target, state) ==
    /\ queue = <<>>
    /\ active = FALSE /\ timerOn = FALSE /\ orphan = FALSE /\ observing = FALSE
    /\ module = Target /\ combo = Target
    /\ buttons = TRUE /\ dialog = FALSE
    /\ modules = <<[id |-> Target, state |-> state]>>
    /\ elapsed = "null"
    /\ outcome = "none" /\ image = NoImage
    /\ uploads = 0

-----------------------------------------------------------------------------
(* generateMessageQueue                                                     *)
ShortDataMutant(id, words) ==
    [n \in 1..(Len(words) \div ChunkWords - 1) |->
        Boot("WRITE_INC", id,
             SubSeq(words, (n - 1) * ChunkWords + 1, n * ChunkWords))]

SendDataInc(id, words) ==
    [n \in 1..(Len(words) \div ChunkWords) |->
        Boot("WRITE_INC", id,
             SubSeq(words, (n - 1) * ChunkWords + 1, n * ChunkWords))]

NoAddressMutant(id) == Boot("SET_BASE_ADDR", id, <<>>)
SetBaseAddress(id) == Boot("SET_BASE_ADDR", id, <<0>>)

MessageQueue(id, words) ==
    <<Emergency(id), SetBaseAddress(id)>>
    \o SendDataInc(id, words)
    \o <<Boot("SET_STATE", id, <<BOOT_NORMAL>>),
         Boot("WRITE_BOOTCONFIG", id, <<>>),
         Boot("RESET", id, <<>>)>>

-----------------------------------------------------------------------------
\* stop(): the observer is unregistered only when m_interface is set; the
\* timer deleted is the one m_timer points to.
StillActiveMutant ==
    /\ timerOn' = FALSE
    /\ buttons' = TRUE
    /\ queue' = <<>>
    /\ module' = NoId
    /\ UNCHANGED <<active, observing>>

Stop ==
    /\ timerOn' = FALSE
    /\ active' = FALSE
    /\ observing' = IF active THEN FALSE ELSE observing
    /\ buttons' = TRUE
    /\ queue' = <<>>
    /\ module' = NoId

StopWith(result) ==
    /\ Stop
    /\ outcome' = IF buttons THEN outcome ELSE result
    /\ UNCHANGED <<orphan, combo, dialog, modules, elapsed, image, uploads>>

\* A QTimer is started and m_timer overwritten.
StartTimer == timerOn' = TRUE /\ orphan' = (orphan \/ timerOn)

Upload ==
    /\ buttons /\ ~dialog /\ uploads < MaxUploads
    /\ combo \in Known
    /\ \E words \in Images :
          /\ image' = words
          /\ queue' = MessageQueue(combo, words)
          /\ Push(Head(queue'))
    /\ module' = combo
    /\ active' = TRUE /\ observing' = TRUE /\ buttons' = FALSE
    /\ elapsed' = "fresh"
    /\ StartTimer
    /\ outcome' = "none"
    /\ uploads' = uploads + 1
    /\ UNCHANGED <<combo, dialog, modules, toHost>>

\* changeModuleID: m_module is tested, then exec() runs an event loop of its
\* own, in which answers, timers and modules discovered are handled as ever.
OpenDialog ==
    /\ buttons /\ ~dialog /\ module \in Known
    /\ dialog' = TRUE
    /\ UNCHANGED <<queue, active, timerOn, orphan, observing, module, combo, buttons,
                   modules, elapsed, outcome, image, uploads, linkVars>>

CancelDialog ==
    /\ dialog
    /\ dialog' = FALSE
    /\ UNCHANGED <<queue, active, timerOn, orphan, observing, module, combo, buttons,
                   modules, elapsed, outcome, image, uploads, linkVars>>

\* It has returned an id, which goes to the module m_module points to by now (a
\* null pointer ends the program).  Nothing registers the plugin with the
\* interface or starts m_elapsed.
ChangeModuleID(id) ==
    /\ dialog /\ module \in Known
    /\ dialog' = FALSE
    /\ queue' = <<Emergency(module), Boot("SET_MODULE_ADDR", module, <<id>>)>>
    /\ active' = TRUE
    /\ Room /\ Push(Head(queue'))
    /\ StartTimer
    /\ UNCHANGED <<observing, module, combo, buttons, modules, elapsed, outcome,
                   image, uploads, toHost>>

StopButton ==
    /\ ~buttons /\ ~dialog
    /\ StopWith("stopped")
    /\ UNCHANGED linkVars

-----------------------------------------------------------------------------
(* event(): an answer reaches the plugin.                                   *)
Got == Head(toHost)

\* operator==() of NETV_MESSAGE compares the data too; the mutant does not.
SameCommandMutant == Head(queue).cmd = Got.cmd
Expected == Head(queue) = Got

Accepted ==
    /\ queue' = Tail(queue)
    /\ elapsed' = "fresh"
    /\ Push(Head(queue'))
    /\ UNCHANGED <<active, timerOn, orphan, observing, module, combo, buttons,
                   dialog, modules, outcome, image, uploads>>

HandleAnswer ==
    /\ toHost # <<>> /\ Got.type = "BOOTLOADER"
    /\ toHost' = Tail(toHost)
    /\ \/ /\ ~(observing /\ active /\ Got.dest = combo)
          /\ UNCHANGED <<hostVars, toDev>>
       \/ /\ observing /\ active /\ Got.dest = combo
          /\ IF ~Expected
                THEN StopWith("error") /\ UNCHANGED toDev
             ELSE IF Len(queue) = 1
                THEN StopWith("done") /\ UNCHANGED toDev
                ELSE Accepted

-----------------------------------------------------------------------------
(* timeout(), every second while a timer runs.                              *)
\* A mutant that does not ask for the state.
AnyStateMutant == module \in Known
TargetInBoot == [id |-> module, state |-> BOOT_IDLE] \in Range(modules)

\* The emergency message is done with once the module is in its bootloader.
ToResend == IF Head(queue).type # "BOOTLOADER" THEN Tail(queue) ELSE queue

Resend ==
    /\ queue' = ToResend
    /\ Room /\ Push(Head(queue'))
    /\ UNCHANGED <<active, timerOn, orphan, observing, module, combo, buttons,
                   dialog, modules, elapsed, outcome, image, uploads, toHost>>

Timeout ==
    /\ timerOn \/ orphan
    /\ IF ~active \/ module = NoId
          THEN StopWith("stopped") /\ UNCHANGED linkVars
       ELSE IF TargetInBoot
          THEN elapsed \in {"late", "expired"} /\ Resend
          ELSE elapsed = "expired" /\ StopWith("stopped") /\ UNCHANGED linkVars

TimePasses ==
    /\ \/ elapsed = "fresh" /\ elapsed' = "late"
       \/ elapsed = "late" /\ elapsed' = "expired"
    /\ UNCHANGED <<queue, active, timerOn, orphan, observing, module, combo,
                   buttons, dialog, modules, outcome, image, uploads, linkVars>>

-----------------------------------------------------------------------------
(* The manager: the alive request of every second and its answers.          *)
PollAlive ==
    /\ ~\E n \in 1..Len(toDev) : IsAlive(toDev[n])
    /\ ~\E n \in 1..Len(toHost) : IsAlive(toHost[n])
    /\ Room /\ Push(AliveRequest)
    /\ UNCHANGED <<hostVars, toHost>>

\* rebuildCombo: the items are sorted, the current index stays with the first
\* one inserted, the module discovered first; m_module becomes the module of
\* index 0, the lowest id.  With no module left m_module keeps its value.
KeepModuleMutant(list, mod) ==
    IF list = <<>> THEN combo' = NoId /\ module' = module
    ELSE combo' = Head(list).id /\ module' = Min({m.id : m \in Range(list)})

RebuildCombo(list, mod) ==
    IF list = <<>> THEN combo' = NoId /\ module' = mod
    ELSE combo' = Head(list).id /\ module' = Min({m.id : m \in Range(list)})

\* A module answers; a new one is inserted and the combo box rebuilt.
Discover(id, state) ==
    /\ IF id \in Known
          THEN /\ modules' = [n \in DOMAIN modules |->
                                 IF modules[n].id = id
                                    THEN [modules[n] EXCEPT !.state = state]
                                    ELSE modules[n]]
               /\ UNCHANGED <<combo, module>>
          ELSE /\ modules' = Append(modules, [id |-> id, state |-> state])
               /\ RebuildCombo(modules', module)
    /\ UNCHANGED <<queue, active, timerOn, orphan, observing, buttons, dialog,
                   elapsed, outcome, image, uploads>>

HandleAlive ==
    /\ toHost # <<>> /\ IsAlive(Got)
    /\ toHost' = Tail(toHost)
    /\ UNCHANGED toDev
    /\ Discover(Got.data[2], Got.data[1])

\* A module of the bus that is not the one programmed.
OtherAlive(id, state) ==
    /\ Discover(id, state)
    /\ UNCHANGED linkVars

\* The user selects another module while the combo box is enabled.
ComboActivated(id) ==
    /\ buttons /\ ~dialog /\ id \in Known
    /\ combo' = id /\ module' = id
    /\ UNCHANGED <<queue, active, timerOn, orphan, observing, buttons, dialog,
                   modules, elapsed, outcome, image, uploads, linkVars>>

\* The user removes a module, or closes its interface.
ModuleRemoved(id) ==
    /\ ~dialog
    /\ \E n \in DOMAIN modules :
          modules[n].id = id /\ modules' = RemoveAt(modules, n)
    /\ IF module = id
          THEN /\ timerOn' = FALSE /\ active' = FALSE /\ buttons' = TRUE
               /\ observing' = (observing /\ ~active)
               /\ queue' = <<>>
               /\ outcome' = IF buttons THEN outcome ELSE "stopped"
               /\ RebuildCombo(modules', NoId)
          ELSE /\ RebuildCombo(modules', module)
               /\ UNCHANGED <<timerOn, active, buttons, observing, queue,
                              outcome>>
    /\ UNCHANGED <<orphan, dialog, elapsed, image, uploads, linkVars>>

=============================================================================
