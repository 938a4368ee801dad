----------------------------- MODULE MCIdentity -----------------------------
(***************************************************************************)
(* A unit with two interfaces, another model with the same serial, and a   *)
(* unit without one.  b and e answer in turn at one host, so that either   *)
(* may be registered for the entry of the other; one host is an address.   *)
(***************************************************************************)
EXTENDS Identity

Interface(id, unit, serial, model, host) ==
    [id |-> id, unit |-> unit, serial |-> serial, model |-> model, host |-> host]

MCDevices ==
    {Interface("a", 1, "s", "350", "name1"), Interface("b", 1, "s", "350", "name2"),
     Interface("d", 2, "s", "360", "literal"), Interface("e", 3, "none", "350", "name2")}

MCAddresses == [name1 |-> {1, 2}, name2 |-> {3}, literal |-> {4}]
=============================================================================
