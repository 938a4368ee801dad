---------------------------- MODULE MCConfigFlow ----------------------------
(* x1 and x2 are two interfaces of one unit (one serial), y another        *)
(* endpoint.  Two repair flows, a dialog and the card of one address, and a*)
(* name that resolves to that address or to nothing.  Either the name is   *)
(* answered by y and comes to be answered by x2, or x1 answers both and y  *)
(* comes to answer the address: an entry may be set up with its own device,*)
(* with its other interface, and with a foreign unit.                      *)
(* Cards: a dialog and the cards of two addresses, without repair flows.   *)
EXTENDS ConfigFlow, TLC

CONSTANTS d1, r1, r2, a1, a2, n1, x1, x2, y, s1, s2

MCDialogs == {d1}
MCNames   == {n1}
MCResolve == [n \in MCNames |-> {a1}]
MCDevices == {x1, x2, y}
MCSerial  == [d \in MCDevices |-> IF d = y THEN s2 ELSE s1]

CardsRepairs == {}
CardsIPs     == {a1, a2}
CardsTimelines == {<<[h \in {a1, a2, n1} |-> IF h = a2 THEN x2 ELSE x1]>>}

MCRepairs == {r1, r2}
Symmetry  == Permutations(MCRepairs)
MCIPs     == {a1}
Answers(da, dn) == [h \in {a1, n1} |-> IF h = a1 THEN da ELSE dn]
MCTimelines ==
    {<<Answers(x1, y), Answers(x1, x2)>>, <<Answers(x1, x1), Answers(y, x1)>>}
=============================================================================
