------------------------- MODULE MCInterfaceManager -------------------------
(* TLC instances of InterfaceManager: a variable in the table of its        *)
(* module, one without an offset in it, one of a script.                    *)
EXTENDS InterfaceManager

CONSTANTS m1, m2, ram, unplaced, script

OneModule  == {m1}
TwoModules == {m1, m2}
InTable    == {ram}
InMemory   == {ram, unplaced}
AnyKind    == {ram, unplaced, script}

=============================================================================
