---------------------------- MODULE MCBootClient ----------------------------
(* TLC instance of BootClient: four pages of two words, the last two the    *)
(* bootloader's; a module id 2 that may become 3, or 255.                   *)
EXTENDS BootClient

MCRequests ==
    {Emergency(2), AliveRequest, Boot("RESET", 2, <<>>),
     Boot("WRITE_BOOTCONFIG", 2, <<>>), Boot("SET_MODULE_ADDR", 2, <<3>>),
     Boot("SET_MODULE_ADDR", 2, <<255>>), Boot("SET_MODULE_ADDR", 2, <<>>),
     Boot("READ_INC", 2, <<>>), Boot("SET_DELAY", 2, <<1>>),
     Boot("WRITE_INC", 2, <<>>), Boot("WRITE_INC", 2, <<5>>),
     Boot("WRITE_INC", 2, <<5, 5>>)}
    \cup {Boot(get, 2, <<>>) : get \in {"GET_BASE_ADDR", "GET_MODULE_ADDR",
                                        "GET_STATE", "GET_DELAY"}}
    \cup {Boot("SET_BASE_ADDR", 2, <<address>>) : address \in {0, 1}}
    \cup {[Boot("WRITE_INC", 2, <<5>>) EXCEPT !.half = <<BOOT_NORMAL>>]}
    \cup {Boot("SET_STATE", 2, <<s>>) : s \in {BOOT_NORMAL, BOOT_IDLE}}

\* Commands that leave the module as it is, but for the timer.
Unchanging == {"GET_BASE_ADDR", "GET_MODULE_ADDR", "GET_STATE", "GET_DELAY",
               "READ_INC"}

(* A request that waits while a handler runs, or its answer is still there,   *)
(* is the same as one sent later.  One that comes after a tick finds what it  *)
(* finds before: a command resets the timer and the rest do not look at it.   *)
(* One that changes nothing is not sent again once there is a base address.   *)
ClientWaits ==
    /\ ph # "loop" \/ toHost # <<>> => toDev = <<>>
    /\ mode = "boot" /\ timer > 0 => toDev = <<>> /\ toHost = <<>>
    /\ mode = "boot" /\ ready /\ toDev # <<>> => In.cmd \notin Unchanging

=============================================================================
