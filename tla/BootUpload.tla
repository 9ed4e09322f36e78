----------------------------- MODULE BootUpload -----------------------------
(***************************************************************************)
(* A firmware upload: the bootloader plugin of the viewer and one module   *)
(* on the bus, over the two FIFO paths of BootLink.                        *)
(***************************************************************************)
EXTENDS BootDevice, BootHost

CONSTANTS
    App,        \* a word of the application in flash before any upload
    NewIds,     \* ids the user may give the module; the dialog stays shut without any
    Others      \* modules that answer alive requests besides the programmed one

ASSUME UploadAssumption ==
    /\ App \in Nat
    /\ DefaultId \in Ids /\ NewIds \cup Others \subseteq Ids
    /\ DefaultId \notin Others
    /\ PageSize % ChunkWords = 0
    /\ \A words \in Images :
          /\ Len(words) % PageSize = 0
          /\ Len(words) \div PageSize \in 1..BootPage
          /\ words[1] = ResetVector

VARIABLES
    answersLost,    \* history: an answer has been lost
    stored          \* history: the image of the upload that flash was last
                    \* erased for

vars == <<linkVars, devVars, hostVars, answersLost, stored>>

Init ==
    /\ LinkInit
    /\ DevInit(App)
    /\ HostInit(DefaultId, IF mode = "app" THEN eeprom.state ELSE BOOT_IDLE)
    /\ answersLost = FALSE /\ stored = NoImage

\* A page erased is a page of the upload in progress, or of the one before, when
\* the next has been started meanwhile.
Stores == stored' = IF ph = "erasePage" /\ ph' = "programPage" THEN image ELSE stored

HostStep ==
    \/ Upload \/ StopButton
    \/ NewIds # {} /\ (OpenDialog \/ CancelDialog)
    \/ \E id \in NewIds : ChangeModuleID(id)
    \/ HandleAnswer \/ HandleAlive \/ Timeout \/ TimePasses \/ PollAlive
    \/ \E id \in Ids : ComboActivated(id) \/ ModuleRemoved(id)
    \/ \E id \in Others, state \in {BOOT_NORMAL, BOOT_IDLE} :
          OtherAlive(id, state)

Next ==
    \/ DevNext /\ Stores /\ UNCHANGED <<hostVars, answersLost>>
    \/ HostStep /\ UNCHANGED <<devVars, answersLost, stored>>
    \/ LoseRequest /\ UNCHANGED <<devVars, hostVars, answersLost, stored>>
    \/ LoseAnswer /\ answersLost' = TRUE /\ UNCHANGED <<devVars, hostVars, stored>>

Spec == Init /\ [][Next]_vars

\* An upload is started, or started again, when nothing of the one before is on
\* the way: the answers of an aborted upload arrive within milliseconds, the
\* first timeout of the next one a second after its start.
LinkDrained == uploads' # uploads => linkVars = <<<<>>, <<>>>>

DrainedSpec == Init /\ [][Next /\ LinkDrained]_vars

\* The step of each party that its own scheduling guarantees: the module's main
\* loop, the GUI thread's events and timers, the manager's alive requests.  A
\* path that loses messages does not lose every one sent: strong fairness of
\* the steps that take commands, alive requests and answers off it, and of
\* the requests, which nothing but the bound Capacity keeps back.
Fairness ==
    /\ WF_vars(DevStep /\ Stores /\ UNCHANGED <<hostVars, answersLost>>)
    /\ SF_vars(BootCommand /\ Stores /\ UNCHANGED <<hostVars, answersLost>>)
    /\ SF_vars((BootAlive \/ AppAlive) /\ Stores /\ UNCHANGED <<hostVars, answersLost>>)
    /\ SF_vars(HandleAnswer /\ UNCHANGED <<devVars, answersLost, stored>>)
    /\ SF_vars(HandleAlive /\ UNCHANGED <<devVars, answersLost, stored>>)
    /\ WF_vars(Timeout /\ UNCHANGED <<devVars, answersLost, stored>>)
    /\ WF_vars(TimePasses /\ UNCHANGED <<devVars, answersLost, stored>>)
    /\ SF_vars(PollAlive /\ UNCHANGED <<devVars, answersLost, stored>>)

FairSpec == Spec /\ Fairness

-----------------------------------------------------------------------------
\* Every variable keeps its type.
TypeOK == ModuleTypeOK /\ HostTypeOK /\ stored \in Images \cup {NoImage}

\* What flash holds of an image: the old application untouched, every word of it
\* in its place, or at least nothing but words of it in its pages.
Pages(words)     == 0..Len(words) \div PageSize - 1
Word(words, p, w) == words[p * PageSize + w + 1]

Untouched == flash = InitialFlash(App)
Holds(words) ==
    \A p \in Pages(words), w \in 0..PageSize-1 : flash[p][w] = Word(words, p, w)
Rewritten(words) ==
    \A p \in Pages(words), w \in 0..PageSize-1 : flash[p][w] \in Range(words)

\* A module that runs, or after a reset would start, its application has the one
\* of the factory untouched, or every page rewritten of the image that flash was
\* last erased for: "Make sure we dont't boot in normal mode if data transfer
\* aborts" (main.c:462).
Whole == IF stored = NoImage THEN Untouched ELSE Rewritten(stored)
BootableMeansWhole == mode = "app" \/ eeprom.state = BOOT_NORMAL => Whole

\* "Done programming." (dsPICBootloader.cpp:468) is printed only when flash
\* holds the image.
DoneMeansProgrammed == outcome = "done" => Holds(image)

\* While the plugin talks to an interface its queue has a message at the front,
\* which event() and timeout() read without a test.
QueueNonEmpty == active => queue # <<>>

\* m_module never points to a module the manager has deleted.
NoDanglingModule == module \in Known \cup {NoId}

\* While an upload is in progress, the answers accepted are those of the module
\* the messages go to: "Feedback from the right module" (dsPICBootloader.cpp:445).
FeedbackFromTarget == ~buttons => Head(queue).dest = combo

\* The same unless an answer was lost: what was sent again is then taken for
\* what was sent first, and requests that are lost do no harm.
DoneUnlessAnswerLost == ~answersLost => DoneMeansProgrammed

\* An upload started ends, and the user can start another: it is done, or given
\* up after ten seconds when the module does not get to its bootloader, or leaves
\* it as it does when its EEPROM lets it.  The exception: a module that leaves on
\* the state set in RAM before the EEPROM has it still reports BOOT_IDLE, and
\* timeout() sends again for ever (dsPICBootloader.cpp:497).
UploadEnds ==
    ~buttons ~> (buttons \/ (mode = "app" /\ eeprom.state # BOOT_NORMAL))

-----------------------------------------------------------------------------
(* The upload implements FirmwareUpdate.                                    *)
Memory ==
    {words \in Images : Holds(words)} \cup (IF Untouched THEN {NoImage} ELSE {})

Update == INSTANCE FirmwareUpdate WITH
    Factory  <- NoImage,
    memory   <- Memory,
    wanted   <- image,
    bootable <- eeprom.state = BOOT_NORMAL,
    report   <- IF outcome \in {"error", "stopped"} THEN "failed" ELSE outcome

\* As long as no answer is lost, requests lost or not, the module is only made
\* bootable with the whole image in flash, and success only then reported.
ImplementsUpdate ==
    /\ Update!Init
    /\ [][answersLost' \/ [Update!Next]_(Update!vars)]_vars

=============================================================================
