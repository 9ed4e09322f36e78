-------------------------- MODULE MCVariableValues --------------------------
(* TLC instances of VariableValues: a variable in RAM, one in the cells of   *)
(* the bootloader and one beyond the table, at a local and a remote viewer.  *)
EXTENDS VariableValues

Local(interface, variables) ==
    [driver |-> interface, remote |-> FALSE, listed |-> variables]
Remote(interface, variables) ==
    [driver |-> interface, remote |-> TRUE, listed |-> variables]

Deployed ==
    {Local("bus", {"speed", "boot"}), Local("bus", {"wild"}),
     Local("loopback", {"speed", "wild"}),
     Remote("bus", {"speed"}), Remote("loopback", {"speed"})}

=============================================================================
