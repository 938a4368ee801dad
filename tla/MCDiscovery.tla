----------------------------- MODULE MCDiscovery -----------------------------
(* Two interfaces i and j, whose networks share the neighbour h1, or none; *)
(* a remote target h3 and one that is this machine.  Two scans that may be *)
(* started again and again, room for two devices.                          *)
EXTENDS Discovery

CONSTANTS c1, c2, h1, h2, h3, i, j

MCScans    == {c1, c2}
MCHosts    == {h1, h2, h3, i, j}
MCAdapters == {{i, j}, {}}
MCNet      == [a \in {i, j} |-> IF a = i THEN {i, h1} ELSE {j, h1, h2, h3}]
MCBroadcasting == {i, j}
MCTargets  == {{h3}, {i}}
MCBacklogs == BOOLEAN
=============================================================================
