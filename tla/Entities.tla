------------------------------ MODULE Entities ------------------------------
(***************************************************************************)
(* The entities of one endpoint and the ids under which Home Assistant's   *)
(* entity registry keeps them: the migration of ids that earlier versions  *)
(* left (migration.py), the entities each platform makes at its own moment *)
(* of the setup (sensor.py, binary_sensor.py, switch.py, select.py,        *)
(* button.py), and what they show when the endpoint changes.  The image    *)
(* platform is PreviewImage.tla.                                           *)
(*                                                                         *)
(* A snapshot is reduced to what entities are made of: its ports, streams, *)
(* values that are not None, controls, and the primary streams that can be *)
(* controlled with those of them that are not busy.  "video" and "audio"   *)
(* are offered options, all of them known to select.py.  A unique id is    *)
(* <<domain, key>>; its prefix, the device id, is that of one device.      *)
(***************************************************************************)
EXTENDS Integers, Sequences

CONSTANTS
    Shapes,        \* the snapshots that the endpoint may give
    Legacy,        \* registry entries that earlier versions left
    NoData,        \* there is no coordinator: the entry is not set up
    MaxSetups, MaxChanges  \* bounds: setups of the entry, changes of the endpoint

Platforms == {"sensor", "binary_sensor", "switch", "select", "button"}

(* Fault: the resolution of an output is forgotten.                        *)
METRICSShort ==
    [input  |-> {<<"binary_sensor", "sync">>, <<"sensor", "resolution">>},
     output |-> {<<"binary_sensor", "connected">>, <<"binary_sensor", "transmitting">>}]

(* Metrics of a port in either direction, by platform.                     *)
METRICS ==
    [input  |-> {<<"binary_sensor", "sync">>, <<"sensor", "resolution">>},
     output |-> {<<"binary_sensor", "connected">>,
                 <<"binary_sensor", "transmitting">>,
                 <<"sensor", "resolution">>}]

SENSORS == {"device_mode", "firmware_version", "active_video_source",
            "active_audio_source", "video_source", "audio_source", "audio_mode",
            "nax_active_audio_source", "nax_audio_source", "reboot_reason"}

BINARY_SENSORS == {"device_ready", "auto_initiation_mode",
                   "auto_input_routing_enabled", "front_panel_lockout_enabled",
                   "leds_enabled", "show_setup_information_on_osd"}

IsSnapshot(s) ==
    /\ DOMAIN s = {"ports", "streams", "values", "controls", "primary", "idle"}
    /\ \A p \in s.ports :
          DOMAIN p = {"direction", "id", "name"} /\ p.direction \in {"input", "output"}
    /\ \A t \in s.streams :
          DOMAIN t = {"direction", "id"} /\ t.direction \in {"receive", "transmit"}
    /\ s.values \subseteq SENSORS \cup BINARY_SENSORS
    /\ s.controls \subseteq {"leds", "routing", "video", "audio", "reboot"}
    /\ s.idle \subseteq s.primary /\ s.primary \subseteq {"receive", "transmit"}

(* A legacy entry: the physical port it was made for, the label that port  *)
(* had, and when it was made (created_at, then entity_id).  Port ids are   *)
(* unique in a snapshot.                                                   *)
ASSUME EntitiesAssumption ==
    /\ \A s \in Shapes : IsSnapshot(s)
    /\ \A s \in Shapes : \A p, q \in s.ports :
          p.direction = q.direction /\ p.id = q.id => p = q
    /\ \A l \in Legacy :
          /\ DOMAIN l = {"domain", "direction", "metric", "port", "name", "created"}
          /\ l.direction \in {"input", "output"}
          /\ l.domain \in Platforms
          /\ l.created \in Nat
    /\ \A l, k \in Legacy : l.created = k.created => l = k
    /\ NoData \notin Shapes
    /\ MaxSetups \in Nat /\ MaxChanges \in Nat

VARIABLES
    endpoint,      \* what the endpoint is like now
    data, success, \* the coordinator's data and last_update_success
    pending,       \* platforms still to set up
    entities,      \* entity objects that were added
    unique,        \* legacy entries of the registry: unique id of each
    created,       \* unique ids for which the platforms made an entry
    saved,         \* <<unique, created>> on disk
    first,         \* the snapshot of the last migration (history)
    setups, changes

registry == <<unique, created>>
vars == <<endpoint, data, success, pending, entities, registry, saved,
          first, setups, changes>>

Loaded == data # NoData

-----------------------------------------------------------------------------
(* What an entity must find in the snapshot to be available.               *)
Always      == <<>>
Port(p)     == <<"port", p.direction, p.id>>
Stream(t)   == <<"stream", t.direction, t.id>>
Control(c)  == <<"control", c>>
Idle(d)     == <<"idle", d>>

Observed(s) ==
    {Always} \cup {Port(p) : p \in s.ports} \cup {Stream(t) : t \in s.streams}
    \cup {Control(c) : c \in s.controls} \cup {Idle(d) : d \in s.idle}

PortKey(p, metric)   == <<p.direction, p.id, metric>>

(* Fault: slots are numbered for each direction, and the id leaves it out. *)
StreamKeyUndirected(t, metric) == <<"stream", t.id, metric>>

StreamKey(t, metric) == <<t.direction, t.id, metric>>

Entity(domain, key, needs) == [domain |-> domain, key |-> key, needs |-> needs]
Uid(e) == <<e.domain, e.key>>

(* Fault: the port is found by comparing all that the entity remembers.    *)
AvPortSensorByLabel(p) ==
    Entity("sensor", PortKey(p, "resolution"), <<"port", p.direction, p.id, p.name>>)

AvPortSensor(p) == Entity("sensor", PortKey(p, "resolution"), Port(p))
StreamSensor(t, metric) == Entity("sensor", StreamKey(t, metric), Stream(t))
Sensors(s) ==
    {Entity("sensor", <<v>>, Always) : v \in s.values \cap SENSORS}
    \cup {AvPortSensor(p) : p \in s.ports}
    \cup {StreamSensor(t, m) : t \in s.streams, m \in {"status", "resolution", "bitrate"}}
    \cup {StreamSensor(t, "active_bitrate") :
                 t \in {u \in s.streams : u.direction = "transmit"}}

AvPortBinarySensor(p, metric) == Entity("binary_sensor", PortKey(p, metric), Port(p))
StreamCodecReady(t) == Entity("binary_sensor", StreamKey(t, "codec_ready"), Stream(t))
BinarySensors(s) ==
    {Entity("binary_sensor", <<v>>, Always) : v \in s.values \cap BINARY_SENSORS}
    \cup {AvPortBinarySensor(p, "sync") : p \in {q \in s.ports : q.direction = "input"}}
    \cup {AvPortBinarySensor(p, m) : p \in {q \in s.ports : q.direction = "output"},
                                      m \in {"connected", "transmitting"}}
    \cup {StreamCodecReady(t) : t \in s.streams}

LedSwitch == Entity("switch", <<"leds_control">>, Control("leds"))
Switches(s) == IF "leds" \in s.controls THEN {LedSwitch} ELSE {}

StreamSelect == Entity("select", <<"receiver_stream_control">>, Control("routing"))
VideoSelect  == Entity("select", <<"video_source_control">>, Control("video"))
AudioSelect  == Entity("select", <<"audio_source_control">>, Control("audio"))
Selects(s) ==
    {e \in {StreamSelect, VideoSelect, AudioSelect} : e.needs \in Observed(s)}

RebootButton == Entity("button", <<"reboot_control">>, Control("reboot"))
StreamButton(d, action) == Entity("button", <<d, "stream_0", action>>, Idle(d))
Buttons(s) ==
    {e \in {RebootButton} : e.needs \in Observed(s)}
    \cup {StreamButton(d, a) : d \in s.primary, a \in {"start", "stop"}}

PlatformEntities(d, s) ==
    CASE d = "sensor"        -> Sensors(s)
      [] d = "binary_sensor" -> BinarySensors(s)
      [] d = "switch"        -> Switches(s)
      [] d = "select"        -> Selects(s)
      [] d = "button"        -> Buttons(s)

(* CoordinatorEntity's availability and the object or capability of its    *)
(* own; the stream select needs a transmitter as well (Routing.tla).       *)
Available(e) == success /\ e.needs \in Observed(data)

-----------------------------------------------------------------------------
(* Migration                                                               *)

Registered(u, c) == {u[l] : l \in DOMAIN u} \cup c

Unmoved == <<"legacy">>   \* a UUID or a position, whichever it is

(* Fault: the first of two ports with one label is taken for the other.    *)
AnyLabel(s) == s.ports

(* Ports whose (direction, name) is counted once.                          *)
UniquelyLabelled(s) ==
    {p \in s.ports : \A q \in s.ports :
        q.direction = p.direction /\ q.name = p.name => q = p}

(* Fault: the pattern of legacy ids matches the stable ones too.           *)
CandidatesAnyKey(u, domain, p, metric) ==
    {l \in DOMAIN u :
        /\ l.domain = domain /\ l.metric = metric
        /\ l.direction = p.direction /\ l.name = p.name}

Candidates(u, domain, p, metric) ==
    {l \in DOMAIN u :
        /\ u[l] = Unmoved
        /\ l.domain = domain /\ l.metric = metric
        /\ l.direction = p.direction /\ l.name = p.name}

Oldest(ls) == CHOOSE l \in ls : \A k \in ls : l.created <= k.created

(* Fault: the check for an entity that has the unique id already is gone.  *)
TakesAlways(u, c, p, l) ==
    LET rivals == Candidates(u, l.domain, p, l.metric)
    IN  /\ <<l.domain, l.metric>> \in METRICS[p.direction]
        /\ l \in rivals /\ l = Oldest(rivals)

(* async_update_entity gives l the stable unique id of p.                  *)
Takes(u, c, p, l) ==
    LET rivals == Candidates(u, l.domain, p, l.metric)
    IN  /\ <<l.domain, l.metric>> \in METRICS[p.direction]
        /\ <<l.domain, PortKey(p, l.metric)>> \notin Registered(u, c)
        /\ l \in rivals /\ l = Oldest(rivals)

(* The whole pass.  Its loops visit labels that differ, so no entry is a   *)
(* candidate twice, and it does not matter that entries is read once.      *)
Migrated(u, c, s) ==
    [l \in DOMAIN u |->
        IF \E p \in UniquelyLabelled(s) : Takes(u, c, p, l)
        THEN <<l.domain, PortKey(CHOOSE p \in UniquelyLabelled(s) : Takes(u, c, p, l),
                                 l.metric)>>
        ELSE u[l]]

-----------------------------------------------------------------------------
Init ==
    /\ endpoint \in Shapes
    /\ data = NoData /\ first = NoData /\ success = FALSE
    /\ pending = {} /\ entities = {}
    /\ unique = [l \in Legacy |-> Unmoved] /\ created = {}
    /\ saved = registry
    /\ setups = 0 /\ changes = 0

(* async_setup_entry: first refresh, migration, catalog entry.             *)
Setup ==
    /\ ~Loaded /\ setups < MaxSetups
    /\ data' = endpoint /\ success' = TRUE
    /\ unique' = Migrated(unique, created, endpoint)
    /\ first' = endpoint
    /\ pending' = Platforms
    /\ setups' = setups + 1
    /\ UNCHANGED <<endpoint, entities, created, saved, changes>>

(* The async_setup_entry of a platform, with the data of its own moment.   *)
SetupPlatform(d) ==
    LET added == PlatformEntities(d, data)
    IN  /\ d \in pending
        /\ pending' = pending \ {d}
        /\ entities' = entities \cup added
        /\ created' = created \cup ({Uid(e) : e \in added} \ Registered(unique, created))
        /\ UNCHANGED <<endpoint, data, success, unique, saved, first, setups, changes>>

(* A poll, a command or another entry's routing read publishes.            *)
Update ==
    /\ Loaded
    /\ data' = endpoint /\ success' = TRUE
    /\ UNCHANGED <<endpoint, pending, entities, registry, saved, first, setups, changes>>

(* A poll fails; entities must have subscribed for one to run.             *)
UpdateFails ==
    /\ entities # {}
    /\ success' = FALSE
    /\ UNCHANGED <<endpoint, data, pending, entities, registry, saved, first, setups, changes>>

(* The coordinator and its entities are gone.                              *)
Gone == data' = NoData /\ first' = NoData /\ entities' = {} /\ success' = FALSE

(* Fault: an entry that is still being set up is unloaded.                 *)
UnloadEarly ==
    /\ Loaded /\ Gone
    /\ UNCHANGED <<endpoint, pending, registry, saved, setups, changes>>

(* async_unload_entry; the entry is not unloaded while it is set up.       *)
Unload ==
    /\ Loaded /\ pending = {} /\ Gone
    /\ UNCHANGED <<endpoint, pending, registry, saved, setups, changes>>

(* The registry is written some time after it was changed.                 *)
Save ==
    /\ saved # registry /\ saved' = registry
    /\ UNCHANGED <<endpoint, data, success, pending, entities, registry, first,
                   setups, changes>>

(* Home Assistant dies and starts again with the registry on disk.         *)
Crash ==
    /\ Loaded /\ Gone
    /\ pending' = {}
    /\ unique' = saved[1] /\ created' = saved[2]
    /\ UNCHANGED <<endpoint, saved, setups, changes>>

(* Cables, modes, labels and firmware of the endpoint.                     *)
EndpointChange ==
    /\ changes < MaxChanges /\ changes' = changes + 1
    /\ endpoint' \in Shapes \ {endpoint}
    /\ UNCHANGED <<data, success, pending, entities, registry, saved, first, setups>>

Next ==
    \/ Setup
    \/ \E d \in Platforms : SetupPlatform(d)
    \/ Update \/ UpdateFails
    \/ Unload \/ Save \/ Crash \/ EndpointChange

Spec == Init /\ [][Next]_vars

-----------------------------------------------------------------------------
(* Types; only a platform that is set up has entities, each with an entry  *)
(* in the registry, and nothing is left of an entry that is not set up.    *)
TypeOK ==
    /\ endpoint \in Shapes /\ success \in BOOLEAN
    /\ data \in Shapes \cup {NoData} /\ first \in Shapes \cup {NoData}
    /\ pending \subseteq Platforms
    /\ DOMAIN unique = Legacy
    /\ \A e \in entities :
          /\ e.domain \in Platforms \ pending
          /\ Uid(e) \in Registered(unique, created)
    /\ ~Loaded => pending = {} /\ entities = {} /\ first = NoData
    /\ Loaded => first # NoData
    /\ setups \in 0..MaxSetups /\ changes \in 0..MaxChanges

(* migration.py:67 changes unique ids one by one: no two entries of the    *)
(* registry ever get the same one, or the update raises and the entry      *)
(* cannot be set up.                                                       *)
UniqueIdsDistinct ==
    \A l \in DOMAIN unique : unique[l] # Unmoved =>
        /\ unique[l] \notin created
        /\ \A k \in DOMAIN unique : unique[k] = unique[l] => k = l

(* "This is idempotent" (migration.py:40): while the entry is set up,      *)
(* another pass over the same snapshot would move nothing, however many    *)
(* duplicates there are and whatever the platforms made since.             *)
MigrationIdempotent == Loaded => Migrated(unique, created, first) = unique

(* A migrated entity id shows the port it was made for, provided that its  *)
(* label, where it is unique, is that port's: two ports with one label are *)
(* not guessed at (migration.py:49).                                       *)
LabelTells(l) ==
    \A s \in Shapes : \A p \in s.ports :
        p.direction = l.direction /\ p.name = l.name /\ p.id # l.port =>
            \E q \in s.ports \ {p} : q.direction = p.direction /\ q.name = p.name
RightPort ==
    \A l \in DOMAIN unique : unique[l] # Unmoved /\ LabelTells(l) =>
        unique[l] = <<l.domain, <<l.direction, l.port, l.metric>>>>

(* No two entities share a unique id, so Home Assistant refuses none       *)
(* (entity.py:41).                                                         *)
OneEntityPerId == \A e, f \in entities : Uid(e) = Uid(f) => e = f

(* Neither migration nor platforms ever give one id to two (both above).   *)
IdsDistinct == UniqueIdsDistinct /\ OneEntityPerId

(* The entities of a port are available exactly while the last update      *)
(* succeeded and showed that port, whatever its label and position are now *)
(* (sensor.py:161, binary_sensor.py:160).                                  *)
AvailabilityFollows ==
    \A e \in entities : e.domain \in {"sensor", "binary_sensor"} =>
        \A s \in Shapes : \A p \in s.ports :
            e.key = PortKey(p, e.key[Len(e.key)]) =>
                (Available(e) <=> success /\ \E q \in data.ports :
                                    q.direction = p.direction /\ q.id = p.id)

(* Entity ids are for ever (migration.py:38): but for a crash that loses   *)
(* the change, none disappears and a stable unique id is never taken back. *)
IdsStay ==
    [][\/ registry' = saved
       \/ /\ created \subseteq created'
          /\ \A l \in DOMAIN unique : unique[l] # Unmoved => unique'[l] = unique[l]]_vars

(* A platform makes a new entry for a port, and thereby leaves the legacy  *)
(* ones behind for ever, only if the migration could not know the port: it *)
(* was not in the first snapshot under a unique label (__init__.py:33).    *)
NewOnlyIfLate ==
    [][Loaded => \A p \in UniquelyLabelled(first), l \in DOMAIN unique :
          /\ unique[l] = Unmoved
          /\ l.direction = p.direction /\ l.name = p.name
          => <<l.domain, PortKey(p, l.metric)>> \notin created' \ created]_vars
=============================================================================
