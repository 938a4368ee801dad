----------------------------- MODULE MCRouting ------------------------------
(* Two entries that can each be a receiver or a transmitter with one of    *)
(* two locations; the device behind an address may become another one.     *)
EXTENDS Routing, TLC

CONSTANTS a, b, l1, l2

MCEntries   == {a, b}
Once        == [e \in MCEntries |-> 1]
SourceTwice == [e \in MCEntries |-> IF e = b THEN 2 ELSE 1]
MCUniqueId  == [e \in MCEntries |-> e]
Receiver(e)       == [id |-> e, loc |-> NoLocation, rx |-> TRUE]
Transmitter(e, l) == [id |-> e, loc |-> l, rx |-> FALSE]

(* One receiver and one transmitter; the transmitter may change its        *)
(* location, and either address may come to be answered by the other.      *)
OneWay == {Receiver(a), Transmitter(b, l1), Transmitter(b, l2)}
(* Either can be in either mode, so that each may route to the other.      *)
BothWays == {Receiver(a), Receiver(b), Transmitter(a, l1), Transmitter(b, l2)}
=============================================================================
