--------------------------- MODULE FirmwareUpdate ---------------------------
(***************************************************************************)
(* What updating the firmware of a module promises, whatever the protocol: *)
(* the application memory is rewritten only while the module cannot start  *)
(* it, the module is made bootable again only once a whole image is in     *)
(* memory, and success is reported only for a bootable module with the     *)
(* whole of the image the user asked for.                                  *)
(***************************************************************************)
CONSTANTS
    Images,     \* applications that can be asked for
    Factory     \* the one in memory before any update

VARIABLES
    memory,     \* the applications that memory holds the whole of
    wanted,     \* the image asked for last
    bootable,   \* the module starts its application after a reset
    report      \* what the user has been told: "none", "done", "failed"

vars == <<memory, wanted, bootable, report>>

Init ==
    /\ memory \subseteq Images \cup {Factory} /\ Factory \in memory
    /\ wanted = Factory
    /\ bootable \in BOOLEAN
    /\ report = "none"

\* Nothing is written while the module would boot from what is written.
Write ==
    /\ ~bootable
    /\ memory' \subseteq Images \cup {Factory}
    /\ UNCHANGED <<wanted, bootable, report>>

Disable == bootable' = FALSE /\ UNCHANGED <<memory, wanted, report>>

Enable ==
    /\ memory \cap Images # {}
    /\ bootable' = TRUE
    /\ UNCHANGED <<memory, wanted, report>>

Begin ==
    /\ wanted' \in Images
    /\ report' = "none"
    /\ UNCHANGED <<memory, bootable>>

Finish ==
    /\ report = "none"
    /\ \/ wanted \in memory /\ bootable /\ report' = "done"
       \/ report' = "failed"
    /\ UNCHANGED <<memory, wanted, bootable>>

Next == Write \/ Disable \/ Enable \/ Begin \/ Finish

Spec == Init /\ [][Next]_vars

=============================================================================
