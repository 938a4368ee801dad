----------------------------- MODULE MCEntities -----------------------------
(***************************************************************************)
(* Two inputs, an output, a stream slot in each direction.  Label "A" is   *)
(* always the first input's; "B" is the second's until the first takes it; *)
(* "C" is given to both at once.                                           *)
(***************************************************************************)
EXTENDS Entities

In(id, name) == [direction |-> "input", id |-> id, name |-> name]
Out == [direction |-> "output", id |-> "out0", name |-> "X"]
Slots == {[direction |-> d, id |-> 0] : d \in {"receive", "transmit"}}

Shape(ports, streams, values, controls, primary, idle) ==
    [ports |-> ports, streams |-> streams, values |-> values,
     controls |-> controls, primary |-> primary, idle |-> idle]

MCShapes ==
    {Shape({In("in0", "A"), In("in1", "B"), Out}, Slots, {"device_mode", "leds_enabled"},
           {"leds", "routing", "video", "reboot"}, {"receive"}, {"receive"}),
     Shape({In("in0", "C"), In("in1", "C"), Out}, Slots, {"device_mode"},
           {"video", "audio"}, {"receive"}, {}),
     Shape({In("in0", "B")}, {}, {"device_ready"}, {}, {}, {})}

Left(domain, direction, metric, port, name, since) ==
    [domain |-> domain, direction |-> direction, metric |-> metric,
     port |-> port, name |-> name, created |-> since]

MCLegacy ==
    {Left("binary_sensor", "input", "sync", "in0", "A", 1),
     Left("binary_sensor", "input", "sync", "in0", "A", 2),
     Left("binary_sensor", "input", "sync", "in1", "B", 3),
     Left("binary_sensor", "input", "sync", "in1", "C", 4),
     Left("sensor", "output", "resolution", "out0", "X", 5)}
=============================================================================
