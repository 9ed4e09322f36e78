----------------------------- MODULE BootClient -----------------------------
(***************************************************************************)
(* The bootloader under any client: every command, in any order, with the  *)
(* data of Requests, whatever was answered before, and power losses at any *)
(* step.  What depends on clients is named: base addresses inside a page,  *)
(* which the viewer never sends and the bootloader does not refuse.        *)
(***************************************************************************)
EXTENDS BootDevice

CONSTANTS
    Requests,   \* the messages clients send
    App         \* a word of the application in flash at the start

ASSUME ClientAssumption == Requests \subseteq Message /\ App \in Nat

VARIABLE strayed    \* history: a page was written at an address inside one

vars == <<linkVars, devVars, strayed>>

Init == LinkInit /\ DevInit(App) /\ strayed = FALSE

Send    == \E m \in Requests : Room /\ Push(m) /\ UNCHANGED <<devVars, toHost>>
Collect == toHost # <<>> /\ toHost' = Tail(toHost) /\ UNCHANGED <<devVars, toDev>>

Next ==
    /\ Send \/ Collect \/ DevNext
    /\ strayed' = (strayed \/ (flash' # flash /\ skew # 0))

Spec == Init /\ [][Next]_vars

-----------------------------------------------------------------------------
\* Every variable keeps its type.
TypeOK == ModuleTypeOK /\ strayed \in BOOLEAN

\* No sequence of commands or power failures changes a page of the bootloader
\* itself: "Make sure we don't overwrite the bootloader" (main.c:469).  The test
\* is of the first address: a page written at an address inside the last page
\* below the bootloader ends in its first page, and no further.
BootloaderIntact ==
    \A p \in BootPage..FlashPages-1 :
        flash[p] = InitialFlash(App)[p] \/ (p = BootPage /\ strayed)

\* Unless page 0 was left erased, by a power failure or by a page written at an
\* address inside it, the word at the reset vector starts the bootloader: "Watch
\* out for reset vector, must not overrite it" (main.c:456).  Only an address in
\* page 0 that is not 0 can put another word there.
ResetVectorKept ==
    flash[0] = BlankPage \/ flash[0][0] = ResetVector \/ strayed

\* While page 0 is written the EEPROM forbids a normal boot, so a power failure
\* there leaves the module in its bootloader: "Make sure we dont't boot in normal
\* mode if data transfer aborts" (main.c:462).  The test is of address 0: an
\* address inside page 0 is not guarded.
FirstPageGuarded ==
    Writing /\ base = 0 => eeprom.state = BOOT_IDLE \/ skew # 0

\* The id the module answers to is changed by nothing but a SET_MODULE_ADDR that
\* was acknowledged.  The exceptions: an id of 255 cannot be told from an erased
\* EEPROM, and a power failure while writeBootConfig rewrites the EEPROM row
\* forgets the new id before the row is erased, any id after.
IdKept ==
    [][ config'.id # config.id =>
          \/ /\ ph = "reply" /\ answer.cmd = "SET_MODULE_ADDR" /\ ~answer.nack
             /\ config'.id = answer.data[1]
          \/ config.id = 255 /\ config'.id = DefaultId
          \/ /\ ph = "eraseConfig" /\ answer.cmd = "SET_MODULE_ADDR"
             /\ config'.id \in {eeprom.id, DefaultId}
          \/ ph = "programConfig" /\ config'.id = DefaultId ]_vars

\* What the EEPROM holds of the id, for the proof of IdKept.
IdSaved ==
    /\ ~Saving => eeprom.id = config.id
    /\ ph = "eraseConfig" /\ answer.cmd # "SET_MODULE_ADDR"
          => eeprom.id = config.id \/ (eeprom.id = 255 /\ config.id = DefaultId)
    /\ ph = "programConfig" => eeprom.id = 255

\* A page write in progress was prepared for the address it goes to: it is below
\* the bootloader, and one for address 0 carries the reset vector and was begun
\* with the module made unbootable (main.c:457-470).
WritePrepared ==
    LET forPage == Writing \/ (Saving /\ answer.cmd = "WRITE_INC") IN
    /\ forPage => base < BootPage
    /\ forPage /\ base = 0 /\ skew = 0 => page[0] = ResetVector
    /\ forPage /\ Saving => base = 0 /\ skew = 0 /\ config.state = BOOT_IDLE

\* The answer to a page write is sent once flash holds the page: a positive
\* answer to the WRITE_INC that completed a page is never queued earlier.  A page
\* written at an address inside one is acknowledged, wherever it has gone.
PageWritten ==
    ph = "reply" /\ answer.cmd = "WRITE_INC" /\ ~answer.nack /\ off = 0
       => skew # 0 \/ (base > 0 /\ flash[base - 1] = page)

PageWrittenBeforeAck ==
    [][ /\ Len(toHost') > Len(toHost) /\ answer.cmd = "WRITE_INC"
        /\ ~answer.nack /\ ph = "reply" /\ off = 0
        => skew # 0 \/ (base > 0 /\ flash[base - 1] = page) ]_vars

\* What the proofs show to be inductive.
Safe == /\ BootloaderIntact /\ ResetVectorKept
        /\ FirstPageGuarded /\ WritePrepared
        /\ IdSaved /\ PageWritten

=============================================================================
