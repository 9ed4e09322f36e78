------------------------- MODULE MCInterfaceHandler -------------------------
(* TLC instances of InterfaceHandler.                                       *)
EXTENDS InterfaceHandler, TLC

CONSTANTS a, b, manager, plugin

TwoMessages  == {a, b}
TwoObservers == {manager, plugin}

=============================================================================
