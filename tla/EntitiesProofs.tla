--------------------------- MODULE EntitiesProofs ---------------------------
(***************************************************************************)
(* Proofs about Entities, for all snapshots and all registries that earlier *)
(* versions may have left.  The migration decides by labels, and what it    *)
(* decided must agree with a registry that changes under it: the inductive  *)
(* invariant therefore speaks of the registry in memory and of the one on   *)
(* disk, to which a crash returns, alike.                                   *)
(***************************************************************************)
EXTENDS Entities, WellFoundedInduction, TLAPS

Distinct(u, c) ==
    \A l \in Legacy : u[l] # Unmoved =>
        /\ u[l] \notin c
        /\ \A k \in Legacy : u[k] = u[l] => k = l

Right(u) ==
    \A l \in Legacy : u[l] # Unmoved /\ LabelTells(l) =>
        u[l] = <<l.domain, <<l.direction, l.port, l.metric>>>>

(* No port of a snapshot would get an entity id in another pass.           *)
Settled(u, c, s) ==
    \A p \in UniquelyLabelled(s), l \in Legacy : ~Takes(u, c, p, l)

(* What an entity needs is determined by its domain and its key: a port    *)
(* and a stream by the direction and the number in the key, a button of a  *)
(* stream by the direction.                                                *)
IsPortKey(k) == Len(k) = 3 /\ k[1] \in {"input", "output"}

NeedsOf(d, k) ==
    IF IsPortKey(k) THEN <<"port", k[1], k[2]>>
    ELSE IF Len(k) = 3 THEN IF d = "button" THEN Idle(k[1]) ELSE <<"stream", k[1], k[2]>>
    ELSE IF d = "button" THEN Control("reboot")
    ELSE IF d = "switch" THEN Control("leds")
    ELSE IF d # "select" THEN Always
    ELSE IF k[1] = "receiver_stream_control" THEN Control("routing")
    ELSE IF k[1] = "video_source_control" THEN Control("video")
    ELSE Control("audio")

(* An entity with the key of a port shows a metric of its direction.       *)
EntityForm(e) ==
    /\ e = Entity(e.domain, e.key, NeedsOf(e.domain, e.key))
    /\ IsPortKey(e.key) => <<e.domain, e.key[3]>> \in METRICS[e.key[1]]

Sound(u, c) == u = [l \in Legacy |-> u[l]] /\ Distinct(u, c) /\ Right(u)

IInv ==
    /\ TypeOK
    /\ Sound(unique, created)
    /\ saved = <<saved[1], saved[2]>>
    /\ Sound(saved[1], saved[2]) /\ saved[2] \subseteq created
    /\ Loaded => Settled(unique, created, first)
    /\ \A e \in entities : EntityForm(e)

-----------------------------------------------------------------------------
(* The candidates of a port carry its label, and a label that is unique in *)
(* a snapshot determines the port.                                         *)
LEMMA TakesFacts ==
    ASSUME NEW u, NEW c, NEW s \in Shapes, DOMAIN u = Legacy,
           NEW p \in UniquelyLabelled(s), NEW l, Takes(u, c, p, l)
    PROVE  /\ l \in Legacy /\ u[l] = Unmoved
           /\ p \in s.ports
           /\ p.direction = l.direction /\ p.name = l.name
           /\ <<l.domain, PortKey(p, l.metric)>> \notin Registered(u, c)
           /\ l = Oldest(Candidates(u, l.domain, p, l.metric))
           /\ \A q \in UniquelyLabelled(s) : Takes(u, c, q, l) => q = p
  BY DEF Takes, Candidates, UniquelyLabelled

(* What a pass does to one entry: it takes the id of one port, or nothing. *)
LEMMA MigratedValue ==
    ASSUME NEW u, NEW c, NEW s \in Shapes, DOMAIN u = Legacy, NEW l \in Legacy
    PROVE  /\ \A p \in UniquelyLabelled(s) : Takes(u, c, p, l) =>
                 Migrated(u, c, s)[l] = <<l.domain, PortKey(p, l.metric)>>
           /\ (\A p \in UniquelyLabelled(s) : ~Takes(u, c, p, l)) =>
                 Migrated(u, c, s)[l] = u[l]
  <1>1. ASSUME NEW p \in UniquelyLabelled(s), Takes(u, c, p, l)
        PROVE  Migrated(u, c, s)[l] = <<l.domain, PortKey(p, l.metric)>>
    <2>1. \A q \in UniquelyLabelled(s) : Takes(u, c, q, l) => q = p
      BY <1>1, TakesFacts
    <2>2. (CHOOSE q \in UniquelyLabelled(s) : Takes(u, c, q, l)) = p
      BY <1>1, <2>1
    <2> QED BY <1>1, <2>2 DEF Migrated
  <1>2. (\A p \in UniquelyLabelled(s) : ~Takes(u, c, p, l)) =>
            Migrated(u, c, s)[l] = u[l]
    BY DEF Migrated
  <1> QED BY <1>1, <1>2

LEMMA StableIsMoved == \A a, b : <<a, b>> # Unmoved
  BY DEF Unmoved

(* Two entries never get one unique id.                                    *)
LEMMA MigratedDistinct ==
    ASSUME NEW u, NEW c, NEW s \in Shapes, Sound(u, c)
    PROVE  Distinct(Migrated(u, c, s), c)
  <1> DEFINE M == Migrated(u, c, s)
  <1>0. DOMAIN u = Legacy /\ Distinct(u, c)
    BY DEF Sound
  <1>1. ASSUME NEW l \in Legacy, NEW p \in UniquelyLabelled(s), Takes(u, c, p, l)
        PROVE  /\ M[l] = <<l.domain, PortKey(p, l.metric)>>
               /\ M[l] \notin c /\ \A k \in Legacy : u[k] # M[l]
    <2>1. M[l] = <<l.domain, PortKey(p, l.metric)>>
      <3>1. l \in Legacy
        OBVIOUS
      <3> QED BY <1>0, <1>1, <3>1, MigratedValue
    <2>2. <<l.domain, PortKey(p, l.metric)>> \notin Registered(u, c)
      BY <1>0, <1>1, TakesFacts
    <2> HIDE DEF M
    <2> QED BY <1>0, <2>1, <2>2 DEF Registered
  <1>2. ASSUME NEW l \in Legacy, M[l] # Unmoved,
               \A p \in UniquelyLabelled(s) : ~Takes(u, c, p, l)
        PROVE  M[l] = u[l] /\ u[l] # Unmoved /\ u[l] \notin c
    BY <1>0, <1>2, MigratedValue DEF Distinct
  <1>3. ASSUME NEW l \in Legacy, NEW k \in Legacy, M[l] # Unmoved, M[k] = M[l]
        PROVE  k = l
    <2>1. CASE \E p \in UniquelyLabelled(s) : Takes(u, c, p, l)
      <3>1. PICK p \in UniquelyLabelled(s) : Takes(u, c, p, l)
        BY <2>1
      <3>2. M[l] = <<l.domain, PortKey(p, l.metric)>> /\ \A j \in Legacy : u[j] # M[l]
        BY <1>1, <3>1
      <3>3. PICK q \in UniquelyLabelled(s) : Takes(u, c, q, k)
        BY <1>2, <1>3, <3>2
      <3>4. M[k] = <<k.domain, PortKey(q, k.metric)>>
        BY <1>1, <3>3
      <3>5. /\ k.domain = l.domain /\ k.metric = l.metric
            /\ q.direction = p.direction /\ q.id = p.id
        BY <1>3, <3>2, <3>4 DEF PortKey
      <3>6. q = p
        BY <3>5, EntitiesAssumption DEF UniquelyLabelled
      <3>7. l = Oldest(Candidates(u, l.domain, p, l.metric))
        BY <1>0, <3>1, TakesFacts
      <3>8. k = Oldest(Candidates(u, k.domain, p, k.metric))
        BY <1>0, <3>3, <3>6, TakesFacts
      <3> QED BY <3>5, <3>7, <3>8
    <2>2. CASE \A p \in UniquelyLabelled(s) : ~Takes(u, c, p, l)
      <3>1. M[l] = u[l] /\ u[l] # Unmoved
        BY <1>2, <1>3, <2>2
      <3>2. \A q \in UniquelyLabelled(s) : ~Takes(u, c, q, k)
        BY <1>1, <1>3, <3>1
      <3>3. M[k] = u[k]
        BY <1>2, <1>3, <3>2
      <3> QED BY <1>0, <1>3, <3>1, <3>3 DEF Distinct
    <2> QED BY <2>1, <2>2
  <1>4. ASSUME NEW l \in Legacy, M[l] # Unmoved
        PROVE  M[l] \notin c
    BY <1>1, <1>2, <1>4
  <1> QED BY <1>3, <1>4 DEF Distinct

(* A label that tells its port gives the entity id to that port.           *)
LEMMA MigratedRight ==
    ASSUME NEW u, NEW c, NEW s \in Shapes, Sound(u, c)
    PROVE  Right(Migrated(u, c, s))
  <1> DEFINE M == Migrated(u, c, s)
  <1>0. DOMAIN u = Legacy /\ Right(u)
    BY DEF Sound
  <1>1. SUFFICES ASSUME NEW l \in Legacy, M[l] # Unmoved, LabelTells(l)
                 PROVE  M[l] = <<l.domain, <<l.direction, l.port, l.metric>>>>
    BY DEF Right
  <1>2. CASE \E p \in UniquelyLabelled(s) : Takes(u, c, p, l)
    <2>1. PICK p \in UniquelyLabelled(s) : Takes(u, c, p, l)
      BY <1>2
    <2>2. M[l] = <<l.domain, PortKey(p, l.metric)>>
      BY <1>0, <2>1, MigratedValue
    <2>3. p.direction = l.direction /\ p.name = l.name
      BY <1>0, <2>1, TakesFacts
    <2>4. p.id = l.port
      BY <1>1, <2>3 DEF LabelTells, UniquelyLabelled
    <2> QED BY <2>2, <2>3, <2>4 DEF PortKey
  <1>3. CASE \A p \in UniquelyLabelled(s) : ~Takes(u, c, p, l)
    BY <1>0, <1>1, <1>3, MigratedValue DEF Right
  <1> QED BY <1>2, <1>3

(* Any set of legacy entries has an oldest one.                            *)
LEMMA OldestExists ==
    ASSUME NEW ls \in SUBSET Legacy, ls # {}
    PROVE  Oldest(ls) \in ls
  <1> DEFINE Times == {l.created : l \in ls}
             Less  == OpToRel(<, Nat)
  <1>1. Times \subseteq Nat /\ Times # {}
    BY EntitiesAssumption
  <1>2. IsWellFoundedOn(Less, Nat)
    BY NatLessThanWellFounded
  <1>3. PICK m \in Times : \A n \in Times : <<n, m>> \notin Less
    <2> HIDE DEF Times, Less
    <2> QED BY <1>1, <1>2, WFMin
  <1>4. \A n \in Times : m <= n
    <2>1. \A a, b \in Nat : a < b => <<a, b>> \in Less
      BY DEF OpToRel
    <2>2. SUFFICES ASSUME NEW n \in Times, ~(m <= n) PROVE FALSE
      OBVIOUS
    <2> HIDE DEF Times, Less
    <2>3. m \in Nat /\ n \in Nat
      BY <1>1
    <2>4. n < m
      BY <2>2, <2>3
    <2> QED BY <1>3, <2>1, <2>3, <2>4
  <1>5. PICK l \in ls : l.created = m
    OBVIOUS
  <1>6. \A k \in ls : l.created <= k.created
    BY <1>4, <1>5
  <1> QED BY <1>6 DEF Oldest

(* Another pass over the same snapshot moves nothing.  An entry that could *)
(* still take the id of a port was already a candidate before, so the      *)
(* oldest candidate of that port took the id, and it is registered.        *)
LEMMA PassSettles ==
    ASSUME NEW u, NEW c, NEW s \in Shapes, DOMAIN u = Legacy
    PROVE  Settled(Migrated(u, c, s), c, s)
  <1> DEFINE M == Migrated(u, c, s)
  <1>1. SUFFICES ASSUME NEW p \in UniquelyLabelled(s), NEW l \in Legacy,
                        Takes(M, c, p, l)
                 PROVE  FALSE
    BY DEF Settled
  <1> DEFINE uid    == <<l.domain, PortKey(p, l.metric)>>
             rivals == Candidates(u, l.domain, p, l.metric)
  <1>2. DOMAIN M = Legacy
    BY DEF Migrated
  <1>3. /\ M[l] = Unmoved /\ uid \notin Registered(M, c)
        /\ <<l.domain, l.metric>> \in METRICS[p.direction]
        /\ p.direction = l.direction /\ p.name = l.name
    <2> HIDE DEF M
    <2>1. l \in Candidates(M, l.domain, p, l.metric)
      BY <1>1 DEF Takes
    <2> QED BY <1>1, <2>1 DEF Takes, Candidates
  <1>4. \A q \in UniquelyLabelled(s) : ~Takes(u, c, q, l)
    BY <1>3, MigratedValue, StableIsMoved
  <1>5. u[l] = Unmoved
    BY <1>3, <1>4, MigratedValue
  <1>6. l \in rivals
    BY <1>3, <1>5 DEF Candidates
  <1>7. uid \notin Registered(u, c)
    <2>1. SUFFICES ASSUME NEW k \in Legacy, u[k] = uid PROVE FALSE
      BY <1>2, <1>3 DEF Registered
    <2>2. u[k] # Unmoved
      BY <2>1, StableIsMoved
    <2>3. \A q \in UniquelyLabelled(s) : ~Takes(u, c, q, k)
      BY <2>2, TakesFacts
    <2>4. M[k] = uid
      BY <2>1, <2>3, MigratedValue
    <2> HIDE DEF M, uid
    <2> QED BY <1>2, <1>3, <2>4 DEF Registered
  <1>8. PICK o \in rivals : o = Oldest(rivals)
    BY <1>6, OldestExists DEF Candidates
  <1>9. o \in Legacy /\ o.domain = l.domain /\ o.metric = l.metric
    BY <1>8 DEF Candidates
  <1>10. Takes(u, c, p, o)
    BY <1>3, <1>7, <1>8, <1>9 DEF Takes
  <1>11. M[o] = uid
    BY <1>9, <1>10, MigratedValue
  <1> HIDE DEF M, uid, rivals
  <1> QED BY <1>2, <1>3, <1>9, <1>11 DEF Registered

(* What the platforms add to the registry unsettles nothing.               *)
LEMMA SettledStays ==
    ASSUME NEW u, NEW c, NEW more, NEW s, Settled(u, c, s)
    PROVE  Settled(u, c \cup more, s)
  BY DEF Settled, Takes, Registered

LEMMA SettledIsIdempotent ==
    ASSUME NEW u, NEW c, NEW s, u = [l \in Legacy |-> u[l]], Settled(u, c, s)
    PROVE  Migrated(u, c, s) = u
  BY DEF Settled, Migrated

-----------------------------------------------------------------------------
(* Forms of entities                                                       *)

LEMMA ValueForm ==
    ASSUME NEW d \in {"sensor", "binary_sensor"}, NEW v, NEW e,
           e = Entity(d, <<v>>, Always)
    PROVE  EntityForm(e) /\ e.domain = d
  <1>1. Len(<<v>>) = 1
    OBVIOUS
  <1>2. e.domain = d /\ e.key = <<v>> /\ e.needs = Always
    BY DEF Entity
  <1> QED BY <1>1, <1>2 DEF EntityForm, NeedsOf, IsPortKey, Entity

LEMMA PortEntityForm ==
    ASSUME NEW d \in {"sensor", "binary_sensor"}, NEW s \in Shapes, NEW p \in s.ports,
           NEW m, <<d, m>> \in METRICS[p.direction], NEW e,
           e = Entity(d, PortKey(p, m), Port(p))
    PROVE  EntityForm(e) /\ e.domain = d
  <1>1. p.direction \in {"input", "output"}
    BY EntitiesAssumption DEF IsSnapshot
  <1> DEFINE k == PortKey(p, m)
  <1>2. Len(k) = 3 /\ k[1] = p.direction /\ k[2] = p.id /\ k[3] = m
    BY DEF PortKey
  <1>3. e.domain = d /\ e.key = k /\ e = Entity(d, k, Port(p))
    BY DEF Entity
  <1>4. NeedsOf(d, k) = Port(p) /\ IsPortKey(k)
    <2> HIDE DEF k
    <2> QED BY <1>1, <1>2 DEF NeedsOf, IsPortKey, Port
  <1> HIDE DEF k
  <1> QED BY <1>2, <1>3, <1>4 DEF EntityForm

LEMMA StreamEntityForm ==
    ASSUME NEW d \in {"sensor", "binary_sensor"}, NEW s \in Shapes, NEW t \in s.streams,
           NEW m, NEW e, e = Entity(d, StreamKey(t, m), Stream(t))
    PROVE  EntityForm(e) /\ e.domain = d
  <1>1. t.direction \in {"receive", "transmit"}
    BY EntitiesAssumption DEF IsSnapshot
  <1> DEFINE k == StreamKey(t, m)
  <1>2. Len(k) = 3 /\ k[1] = t.direction /\ k[2] = t.id
    BY DEF StreamKey
  <1>3. e.domain = d /\ e.key = k /\ e = Entity(d, k, Stream(t))
    BY DEF Entity
  <1>4. NeedsOf(d, k) = Stream(t) /\ ~IsPortKey(k)
    <2> HIDE DEF k
    <2> QED BY <1>1, <1>2 DEF NeedsOf, IsPortKey, Stream
  <1> HIDE DEF k
  <1> QED BY <1>3, <1>4 DEF EntityForm

LEMMA SensorForms ==
    ASSUME NEW s \in Shapes, NEW e \in Sensors(s)
    PROVE  EntityForm(e) /\ e.domain = "sensor"
  <1>1. CASE \E v \in s.values \cap SENSORS : e = Entity("sensor", <<v>>, Always)
    BY <1>1, ValueForm
  <1>2. CASE \E p \in s.ports : e = AvPortSensor(p)
    <2>1. PICK p \in s.ports : e = AvPortSensor(p)
      BY <1>2
    <2>2. p.direction \in {"input", "output"}
      BY EntitiesAssumption DEF IsSnapshot
    <2>3. <<"sensor", "resolution">> \in METRICS[p.direction]
      BY <2>2 DEF METRICS
    <2> QED BY <2>1, <2>3, PortEntityForm DEF AvPortSensor
  <1>3. CASE \E t \in s.streams, m \in {"status", "resolution", "bitrate", "active_bitrate"} :
                e = StreamSensor(t, m)
    BY <1>3, StreamEntityForm DEF StreamSensor
  <1>4. \/ \E v \in s.values \cap SENSORS : e = Entity("sensor", <<v>>, Always)
        \/ \E p \in s.ports : e = AvPortSensor(p)
        \/ \E t \in s.streams, m \in {"status", "resolution", "bitrate", "active_bitrate"} :
                e = StreamSensor(t, m)
    BY SMTT(30) DEF Sensors
  <1> QED BY <1>1, <1>2, <1>3, <1>4

LEMMA BinarySensorForms ==
    ASSUME NEW s \in Shapes, NEW e \in BinarySensors(s)
    PROVE  EntityForm(e) /\ e.domain = "binary_sensor"
  <1>1. CASE \E v \in s.values \cap BINARY_SENSORS : e = Entity("binary_sensor", <<v>>, Always)
    BY <1>1, ValueForm
  <1>2. ASSUME NEW p \in s.ports, NEW m, <<"binary_sensor", m>> \in METRICS[p.direction],
               e = AvPortBinarySensor(p, m)
        PROVE  EntityForm(e) /\ e.domain = "binary_sensor"
    BY <1>2, PortEntityForm DEF AvPortBinarySensor
  <1>3. CASE \E t \in s.streams : e = StreamCodecReady(t)
    BY <1>3, StreamEntityForm DEF StreamCodecReady
  <1>4. CASE \E p \in s.ports : p.direction = "input" /\ e = AvPortBinarySensor(p, "sync")
    <2>1. PICK p \in s.ports : p.direction = "input" /\ e = AvPortBinarySensor(p, "sync")
      BY <1>4
    <2>2. <<"binary_sensor", "sync">> \in METRICS[p.direction]
      BY <2>1 DEF METRICS
    <2> QED BY <1>2, <2>1, <2>2
  <1>5. CASE \E p \in s.ports, m \in {"connected", "transmitting"} :
               p.direction = "output" /\ e = AvPortBinarySensor(p, m)
    <2>1. PICK p \in s.ports, m \in {"connected", "transmitting"} :
             p.direction = "output" /\ e = AvPortBinarySensor(p, m)
      BY <1>5
    <2>2. <<"binary_sensor", m>> \in METRICS[p.direction]
      BY <2>1 DEF METRICS
    <2> QED BY <1>2, <2>1, <2>2
  <1>6. \/ \E v \in s.values \cap BINARY_SENSORS : e = Entity("binary_sensor", <<v>>, Always)
        \/ \E p \in s.ports : p.direction = "input" /\ e = AvPortBinarySensor(p, "sync")
        \/ \E p \in s.ports, m \in {"connected", "transmitting"} :
               p.direction = "output" /\ e = AvPortBinarySensor(p, m)
        \/ \E t \in s.streams : e = StreamCodecReady(t)
    BY SMTT(30) DEF BinarySensors
  <1> QED BY <1>1, <1>3, <1>4, <1>5, <1>6

(* The controls: one of each, and two buttons for each primary stream.     *)
LEMMA ControlForms ==
    /\ EntityForm(LedSwitch) /\ LedSwitch.domain = "switch"
    /\ \A e \in {StreamSelect, VideoSelect, AudioSelect} :
          EntityForm(e) /\ e.domain = "select"
    /\ EntityForm(RebootButton) /\ RebootButton.domain = "button"
    /\ \A dir \in {"receive", "transmit"}, a \in {"start", "stop"} :
          EntityForm(StreamButton(dir, a)) /\ StreamButton(dir, a).domain = "button"
  <1>1. \A v : Len(<<v>>) = 1 /\ <<v>>[1] = v
    OBVIOUS
  <1>2. \A a, b, c : Len(<<a, b, c>>) = 3 /\ <<a, b, c>>[1] = a
    OBVIOUS
  <1>3. EntityForm(LedSwitch) /\ LedSwitch.domain = "switch"
    BY <1>1 DEF EntityForm, NeedsOf, IsPortKey, LedSwitch, Entity
  <1>4. EntityForm(RebootButton) /\ RebootButton.domain = "button"
    BY <1>1 DEF EntityForm, NeedsOf, IsPortKey, RebootButton, Entity
  <1>5. EntityForm(StreamSelect) /\ StreamSelect.domain = "select"
    BY <1>1 DEF EntityForm, NeedsOf, IsPortKey, StreamSelect, Entity
  <1>6. EntityForm(VideoSelect) /\ VideoSelect.domain = "select"
    BY <1>1 DEF EntityForm, NeedsOf, IsPortKey, VideoSelect, Entity
  <1>7. EntityForm(AudioSelect) /\ AudioSelect.domain = "select"
    BY <1>1 DEF EntityForm, NeedsOf, IsPortKey, AudioSelect, Entity
  <1>8. ASSUME NEW dir \in {"receive", "transmit"}, NEW a \in {"start", "stop"}
        PROVE  EntityForm(StreamButton(dir, a)) /\ StreamButton(dir, a).domain = "button"
    <2> DEFINE k == <<dir, "stream_0", a>>
    <2>1. Len(k) = 3 /\ k[1] = dir
      BY <1>2
    <2>2. StreamButton(dir, a) = Entity("button", k, Idle(dir))
      BY DEF StreamButton
    <2> HIDE DEF k
    <2> QED BY <2>1, <2>2 DEF EntityForm, NeedsOf, IsPortKey, Entity
  <1> QED BY <1>3, <1>4, <1>5, <1>6, <1>7, <1>8

LEMMA PlatformForms ==
    ASSUME NEW s \in Shapes, NEW d \in Platforms, NEW e \in PlatformEntities(d, s)
    PROVE  EntityForm(e) /\ e.domain = d
  <1>1. CASE d = "sensor"
    BY <1>1, SensorForms DEF PlatformEntities
  <1>2. CASE d = "binary_sensor"
    BY <1>2, BinarySensorForms DEF PlatformEntities
  <1>3. CASE d = "switch"
    BY <1>3, ControlForms DEF PlatformEntities, Switches
  <1>4. CASE d = "select"
    BY <1>4, ControlForms DEF PlatformEntities, Selects
  <1>5. CASE d = "button"
    <2>1. s.primary \subseteq {"receive", "transmit"}
      BY EntitiesAssumption DEF IsSnapshot
    <2>2. e = RebootButton \/ \E dir \in s.primary, a \in {"start", "stop"} : e = StreamButton(dir, a)
      BY <1>5 DEF PlatformEntities, Buttons
    <2> QED BY <1>5, <2>1, <2>2, ControlForms
  <1> QED BY <1>1, <1>2, <1>3, <1>4, <1>5 DEF Platforms

LEMMA FormsDiffer ==
    ASSUME NEW e, NEW f, EntityForm(e), EntityForm(f), Uid(e) = Uid(f)
    PROVE  e = f
  BY DEF EntityForm, Uid

(* An entity whose key is that of a port is the entity of that port.       *)
LEMMA PortForm ==
    ASSUME NEW e, EntityForm(e), NEW s \in Shapes, NEW p \in s.ports, NEW m,
           e.key = PortKey(p, m)
    PROVE  /\ e.needs = Port(p)
           /\ <<e.domain, m>> \in METRICS[p.direction]
  <1>1. p.direction \in {"input", "output"}
    BY EntitiesAssumption DEF IsSnapshot
  <1>2. Len(e.key) = 3 /\ e.key[1] = p.direction /\ e.key[2] = p.id /\ e.key[3] = m
    BY DEF PortKey
  <1>3. e.needs = NeedsOf(e.domain, e.key)
    BY DEF EntityForm, Entity
  <1> QED BY <1>1, <1>2, <1>3 DEF EntityForm, IsPortKey, NeedsOf, Port

-----------------------------------------------------------------------------
(* The invariant                                                           *)

LEMMA InitIInv == Init => IInv
  <1> SUFFICES ASSUME Init PROVE IInv
    OBVIOUS
  <1> USE DEF Init
  <1>1. TypeOK
    <2>1. setups \in 0 .. MaxSetups /\ changes \in 0 .. MaxChanges
      BY EntitiesAssumption
    <2>2. DOMAIN unique = Legacy
      OBVIOUS
    <2>3. endpoint \in Shapes /\ data = NoData /\ first = NoData /\ success = FALSE
          /\ pending = {} /\ entities = {}
      OBVIOUS
    <2> QED BY ONLY <2>1, <2>2, <2>3 DEF TypeOK, Loaded
  <1>2. Sound(unique, created)
    BY DEF Sound, Distinct, Right
  <1>3. saved = <<unique, created>> /\ saved[1] = unique /\ saved[2] = created
    BY DEF registry
  <1>4. ~Loaded /\ entities = {}
    BY DEF Loaded
  <1> QED BY <1>1, <1>2, <1>3, <1>4 DEF IInv

LEMMA SetupStep ==
    ASSUME IInv, Setup
    PROVE  IInv'
  <1> USE DEF IInv, Setup
  <1>1. endpoint \in Shapes /\ endpoint # NoData /\ ~Loaded
    BY EntitiesAssumption DEF TypeOK
  <1>2. entities = {}
    BY <1>1 DEF TypeOK
  <1>3. DOMAIN unique = Legacy
    BY DEF TypeOK
  <1>4. unique' = Migrated(unique, created, endpoint) /\ created' = created
    OBVIOUS
  <1>5. Sound(unique, created)'
    <2>1. Distinct(unique', created')
      BY <1>1, <1>4, MigratedDistinct
    <2>2. Right(unique')
      BY <1>1, <1>4, MigratedRight
    <2>3. unique' = [l \in Legacy |-> unique'[l]]
      BY <1>3, <1>4 DEF Migrated
    <2> QED BY <2>1, <2>2, <2>3 DEF Sound
  <1>6. Settled(unique', created', first')
    BY <1>1, <1>3, <1>4, PassSettles
  <1>7. TypeOK'
    <2>1. DOMAIN unique' = Legacy
      BY <1>5 DEF Sound
    <2>2. setups' \in 0 .. MaxSetups
      BY EntitiesAssumption DEF TypeOK
    <2> QED BY <1>1, <1>2, <2>1, <2>2, EntitiesAssumption DEF TypeOK, Loaded
  <1>8. Sound(saved[1], saved[2])' /\ (saved[2] \subseteq created)'
    OBVIOUS
  <1> QED BY <1>2, <1>5, <1>6, <1>7, <1>8

LEMMA PlatformStep ==
    ASSUME IInv, NEW d \in Platforms, SetupPlatform(d)
    PROVE  IInv'
  <1> DEFINE added == PlatformEntities(d, data)
             new   == {Uid(e) : e \in added} \ Registered(unique, created)
  <1>1. d \in pending /\ data \in Shapes /\ Loaded
    BY DEF IInv, SetupPlatform, TypeOK, Loaded
  <1>2. /\ entities' = entities \cup added /\ created' = created \cup new
        /\ pending' = pending \ {d}
        /\ UNCHANGED <<endpoint, data, success, unique, saved, first, setups, changes>>
    BY DEF SetupPlatform
  <1>3. \A e \in added : EntityForm(e) /\ e.domain = d
    BY <1>1, PlatformForms
  <1>4. \A l \in Legacy : unique[l] \notin new
    BY DEF Registered, IInv, TypeOK
  <1>5. \A e \in added : Uid(e) \in Registered(unique, created')
    BY <1>2 DEF Registered
  <1> HIDE DEF added, new
  <1>6. TypeOK'
    <2>1. \A e \in entities : Uid(e) \in Registered(unique, created')
      BY <1>2 DEF IInv, TypeOK, Registered
    <2>2. \A e \in entities' : e.domain \in Platforms \ pending' /\ Uid(e) \in Registered(unique, created')
      BY <1>1, <1>2, <1>3, <1>5, <2>1 DEF IInv, TypeOK
    <2> QED BY <1>1, <1>2, <2>2 DEF IInv, TypeOK, Loaded
  <1>7. Sound(unique, created)'
    BY <1>2, <1>4 DEF IInv, Sound, Distinct
  <1>8. Loaded' => Settled(unique', created', first')
    BY <1>1, <1>2, SettledStays DEF IInv
  <1>9. \A e \in entities' : EntityForm(e)
    BY <1>2, <1>3 DEF IInv
  <1> QED BY <1>2, <1>6, <1>7, <1>8, <1>9 DEF IInv

LEMMA GoneStep ==
    ASSUME IInv, Unload \/ Crash
    PROVE  IInv'
  <1>1. data' = NoData /\ first' = NoData /\ entities' = {} /\ success' = FALSE /\ pending' = {}
    BY DEF Unload, Crash, Gone
  <1>2. /\ Sound(unique, created)'
        /\ saved' = saved /\ (saved[2] \subseteq created)'
        /\ endpoint' = endpoint /\ setups' = setups /\ changes' = changes
    <2>1. CASE Unload
      BY <2>1 DEF IInv, Unload, registry
    <2>2. CASE Crash
      BY <2>2 DEF IInv, Crash
    <2> QED BY <2>1, <2>2
  <1>3. TypeOK'
    BY <1>1, <1>2 DEF IInv, TypeOK, Loaded, Sound
  <1> QED BY <1>1, <1>2, <1>3 DEF IInv, Loaded

LEMMA Inductive == IInv /\ [Next]_vars => IInv'
  <1> SUFFICES ASSUME IInv, [Next]_vars PROVE IInv'
    OBVIOUS
  <1>1. CASE Setup
    BY <1>1, SetupStep
  <1>2. ASSUME NEW d \in Platforms, SetupPlatform(d) PROVE IInv'
    BY <1>2, PlatformStep
  <1>3. CASE Unload \/ Crash
    BY <1>3, GoneStep
  <1>4. CASE Update
    <2>1. Loaded' /\ data' \in Shapes /\ success' \in BOOLEAN
      BY <1>4, EntitiesAssumption DEF Update, IInv, TypeOK, Loaded
    <2> QED BY <1>4, <2>1 DEF Update, IInv, TypeOK, registry, Loaded
  <1>5. CASE UpdateFails
    BY <1>5 DEF UpdateFails, IInv, TypeOK, registry, Loaded
  <1>6. CASE Save
    <2>1. saved' = <<unique', created'>> /\ saved'[1] = unique' /\ saved'[2] = created'
      BY <1>6 DEF Save, registry
    <2>2. TypeOK'
      BY <1>6 DEF Save, IInv, TypeOK, registry, Loaded
    <2> QED BY <1>6, <2>1, <2>2 DEF Save, IInv, registry, Loaded
  <1>7. CASE EndpointChange
    <2>1. endpoint' \in Shapes /\ changes' \in 0 .. MaxChanges
      BY <1>7, EntitiesAssumption DEF EndpointChange, IInv, TypeOK
    <2> QED BY <1>7, <2>1 DEF EndpointChange, IInv, TypeOK, registry, Loaded
  <1>8. CASE UNCHANGED vars
    BY <1>8 DEF vars, IInv, TypeOK, registry, Loaded
  <1> QED BY <1>1, <1>2, <1>3, <1>4, <1>5, <1>6, <1>7, <1>8 DEF Next

LEMMA Invariance == Spec => []IInv
  BY InitIInv, Inductive, PTL DEF Spec

-----------------------------------------------------------------------------
(* Types, for every set of snapshots and every legacy registry.            *)
THEOREM TypeCorrect == Spec => []TypeOK
  <1>1. IInv => TypeOK
    BY DEF IInv
  <1> QED BY <1>1, Invariance, PTL

(* No two registry entries ever have one unique id: migration.py:67 never  *)
(* raises, whatever duplicates there are and whenever Home Assistant dies. *)
THEOREM UniqueIdsStayDistinct == Spec => []UniqueIdsDistinct
  <1>1. IInv => UniqueIdsDistinct
    BY DEF IInv, TypeOK, Sound, Distinct, UniqueIdsDistinct
  <1> QED BY <1>1, Invariance, PTL

(* Another pass of the migration over the same snapshot moves nothing      *)
(* (migration.py:40).                                                      *)
THEOREM MigrationIsIdempotent == Spec => []MigrationIdempotent
  <1>1. IInv => MigrationIdempotent
    BY SettledIsIdempotent DEF IInv, Sound, MigrationIdempotent
  <1> QED BY <1>1, Invariance, PTL

(* An entity id is given to the port for which it was made, wherever the   *)
(* labels tell the ports apart (migration.py:45).                          *)
THEOREM IdsGoToTheRightPort == Spec => []RightPort
  <1>1. IInv => RightPort
    BY DEF IInv, TypeOK, Sound, Right, RightPort
  <1> QED BY <1>1, Invariance, PTL

(* The platforms never add two entities with one unique id (entity.py:41). *)
THEOREM EntitiesHaveIdsOfTheirOwn == Spec => []OneEntityPerId
  <1>1. IInv => OneEntityPerId
    BY FormsDiffer DEF IInv, OneEntityPerId
  <1> QED BY <1>1, Invariance, PTL

(* Both: no id is ever given twice (migration.py:67, entity.py:41).        *)
THEOREM IdsStayDistinct == Spec => []IdsDistinct
  <1>1. UniqueIdsDistinct /\ OneEntityPerId => IdsDistinct
    BY DEF IdsDistinct
  <1> QED BY <1>1, UniqueIdsStayDistinct, EntitiesHaveIdsOfTheirOwn, PTL

(* A port's entities are available when the port is, however labels and    *)
(* positions change (sensor.py:161).                                       *)
LEMMA PortObserved ==
    ASSUME NEW s, NEW p, Port(p) \in Observed(s)
    PROVE  \E q \in s.ports : q.direction = p.direction /\ q.id = p.id
  <1>1. \A a, b : <<"port", a, b>> # Always
    BY DEF Always
  <1>2. \A a, b, c, d : <<"port", a, b>> # <<"stream", c, d>>
    OBVIOUS
  <1>3. \A a, b, c, d : <<"port", a, b>> = <<"port", c, d>> => a = c /\ b = d
    OBVIOUS
  <1>4. \A a, b, c : <<"port", a, b>> # <<"control", c>> /\ <<"port", a, b>> # <<"idle", c>>
    OBVIOUS
  <1>5. Port(p) = <<"port", p.direction, p.id>>
    BY DEF Port
  <1>6. \E q \in s.ports : <<"port", p.direction, p.id>> = <<"port", q.direction, q.id>>
    BY <1>1, <1>2, <1>4, <1>5 DEF Observed, Port, Stream, Control, Idle
  <1> QED BY <1>3, <1>6

THEOREM AvailabilityIsRight == Spec => []AvailabilityFollows
  <1>1. ASSUME IInv, NEW e \in entities, NEW s \in Shapes, NEW p \in s.ports,
               e.key = PortKey(p, e.key[Len(e.key)])
        PROVE  Available(e) <=> success /\ \E q \in data.ports :
                                   q.direction = p.direction /\ q.id = p.id
    <2>1. e.needs = Port(p)
      <3>1. EntityForm(e)
        BY <1>1 DEF IInv
      <3> DEFINE m == e.key[Len(e.key)]
      <3>2. e.key = PortKey(p, m)
        BY <1>1
      <3> HIDE DEF m
      <3> QED BY <3>1, <3>2, PortForm
    <2>2. ASSUME NEW q \in data.ports, q.direction = p.direction, q.id = p.id
          PROVE  Port(p) \in Observed(data)
      BY <2>2 DEF Observed, Port
    <2> QED BY <2>1, <2>2, PortObserved DEF Available
  <1>2. IInv => AvailabilityFollows
    BY <1>1 DEF AvailabilityFollows
  <1> QED BY <1>2, Invariance, PTL

(* An entity id that was migrated is not taken back, and no entry of the   *)
(* registry disappears, but in a crash (migration.py:38).                  *)
THEOREM IdsAreForEver == Spec => IdsStay
  <1> DEFINE Kept == /\ created \subseteq created'
                     /\ \A l \in DOMAIN unique : unique[l] # Unmoved => unique'[l] = unique[l]
  <1>1. ASSUME IInv, [Next]_vars
        PROVE  registry' = saved \/ Kept \/ UNCHANGED vars
    <2>1. CASE Setup
      <3>1. DOMAIN unique = Legacy /\ endpoint \in Shapes
        BY <1>1 DEF IInv, TypeOK
      <3>2. created' = created /\ unique' = Migrated(unique, created, endpoint)
        BY <2>1 DEF Setup
      <3>3. ASSUME NEW l \in Legacy, unique[l] # Unmoved
            PROVE  Migrated(unique, created, endpoint)[l] = unique[l]
        <4>1. \A p \in UniquelyLabelled(endpoint) : ~Takes(unique, created, p, l)
          BY <3>1, <3>3, TakesFacts
        <4> QED BY <3>1, <4>1, MigratedValue
      <3> QED BY <3>1, <3>2, <3>3
    <2>2. ASSUME NEW d \in Platforms, SetupPlatform(d) PROVE Kept
      BY <2>2 DEF SetupPlatform
    <2>3. CASE Update \/ UpdateFails \/ Unload \/ Save \/ EndpointChange
      BY <2>3 DEF Update, UpdateFails, Unload, Save, EndpointChange, registry
    <2>4. CASE Crash
      <3>1. saved = <<saved[1], saved[2]>>
        BY <1>1 DEF IInv
      <3> QED BY <2>4, <3>1 DEF Crash, registry
    <2>5. CASE UNCHANGED vars
      BY <2>5
    <2> QED BY <1>1, <2>1, <2>2, <2>3, <2>4, <2>5 DEF Next
  <1> QED BY <1>1, Invariance, PTL DEF Spec, IdsStay

(* A platform makes an entry for a port that was in the first snapshot     *)
(* under a unique label only if no legacy entry still waits for that port: *)
(* otherwise the migration would have moved the oldest (__init__.py:33).   *)
THEOREM NewEntriesAreLate == Spec => NewOnlyIfLate
  <1> DEFINE Late == Loaded => \A p \in UniquelyLabelled(first), l \in DOMAIN unique :
          /\ unique[l] = Unmoved
          /\ l.direction = p.direction /\ l.name = p.name
          => <<l.domain, PortKey(p, l.metric)>> \notin created' \ created
  <1>1. ASSUME IInv, NEW d \in Platforms, SetupPlatform(d) PROVE Late
    <2>1. /\ data \in Shapes /\ first \in Shapes /\ DOMAIN unique = Legacy
          /\ Settled(unique, created, first)
      BY <1>1 DEF IInv, TypeOK, Loaded, SetupPlatform
    <2>2. SUFFICES ASSUME NEW p \in UniquelyLabelled(first), NEW l \in Legacy,
                          unique[l] = Unmoved,
                          l.direction = p.direction, l.name = p.name,
                          <<l.domain, PortKey(p, l.metric)>> \in created' \ created
                   PROVE  FALSE
      BY <2>1
    <2>3. PICK e \in PlatformEntities(d, data) :
             /\ Uid(e) = <<l.domain, PortKey(p, l.metric)>>
             /\ Uid(e) \notin Registered(unique, created)
      BY <1>1, <2>2 DEF SetupPlatform
    <2>4. EntityForm(e) /\ e.domain = l.domain /\ e.key = PortKey(p, l.metric)
      BY <2>1, <2>3, PlatformForms DEF Uid
    <2>5. p \in first.ports
      BY DEF UniquelyLabelled
    <2>6. <<l.domain, l.metric>> \in METRICS[p.direction]
      BY <2>1, <2>4, <2>5, PortForm
    <2> DEFINE rivals == Candidates(unique, l.domain, p, l.metric)
    <2>7. l \in rivals
      BY <2>1, <2>2 DEF Candidates
    <2>8. PICK o \in rivals : o = Oldest(rivals)
      BY <2>1, <2>7, OldestExists DEF Candidates
    <2>9. o \in Legacy /\ o.domain = l.domain /\ o.metric = l.metric
      BY <2>1, <2>8 DEF Candidates
    <2>10. Takes(unique, created, p, o)
      BY <2>3, <2>6, <2>8, <2>9 DEF Takes
    <2> QED BY <2>1, <2>9, <2>10 DEF Settled
  <1>2. ASSUME IInv, [Next]_vars, ~\E d \in Platforms : SetupPlatform(d)
        PROVE  created' \subseteq created
    BY <1>2 DEF Next, Setup, Update, UpdateFails, Unload, Save, Crash, EndpointChange,
                vars, registry, IInv
  <1>3. IInv /\ [Next]_vars => Late
    BY <1>1, <1>2
  <1> QED BY <1>3, Invariance, PTL DEF Spec, NewOnlyIfLate
=============================================================================
