--------------------------- MODULE MCCoordinator ----------------------------
(* One entry's coordinator on a small instance: the poll, two platforms'   *)
(* service calls and one routing read; two devices that may answer at the  *)
(* host; two verified settings, one of them a route, and the reboot.       *)
EXTENDS Coordinator, TLC

CONSTANTS d1, d2, poll, switch, button, route, leds, stream, reboot

MCDevices  == {d1, d2}
MCCallers  == {switch, button}
OneCaller  == {switch}
MCReaders  == {route}
MCCommands == {leds, stream, reboot}
(* Nothing offered (or the stream busy); everything offered.               *)
MCProfiles == {{}, {leds, stream, reboot}}

Symmetry == Permutations(MCCallers)
=============================================================================
