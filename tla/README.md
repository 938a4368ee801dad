# Verification of the Crestron DM NVX integration

TLA+ models of the Home Assistant integration in
`custom_components/crestron_nvx`, model-checked with TLC on small instances. The
safety properties of every module, and the two refinements, are proved with
TLAPS for all instances too; liveness is model-checked.
Paths below are relative to that directory unless they start at the
repository's root.

## 1. The system

One **config entry** is one DM NVX endpoint (an encoder or decoder of video over
a network). Everything runs on Home Assistant's single asyncio event loop: code
between two awaits is atomic, and every await is a point where any other task
may run, the task may be cancelled, or the request may fail.

| Part | State | Operations | Talks to |
|---|---|---|---|
| Coordinator (`coordinator.py`) | `data`, `last_update_success`, refresh timer (base class); `preview_info`, `_operation_lock` | poll, five verified commands, reboot, routing read | endpoint (client library), listeners, dispatcher |
| Entry lifecycle (`__init__.py`) | `hass.data[DOMAIN]`: the catalog of coordinators | setup, unload | coordinator, platforms, dispatcher |
| Receiver routing (`routing.py`) | options shown | select call over two coordinators | catalog, own and foreign coordinator, dispatcher |
| Controls (`switch.py`, `select.py`, `button.py`) | none of their own | service calls | coordinator, reauthentication |
| Sensors (`sensor.py`, `binary_sensor.py`, `entity.py`) | entity set captured at setup | none | coordinator |
| Preview (`image.py`) | frame, throttle, own lock | fetch, coordinator update | coordinator, endpoint |
| Config flow (`config_flow.py`) | one object for each flow in progress: scan results, selection | scan, select, connect, manual, reauth, reconfigure | discovery, identity, entry registry, other flows |
| Discovery (`discovery.py`) | session lock, sockets, replies | one scan | network |
| Identity (`identity.py`) | lookup semaphore | address resolution, matching of device id and serial | entry and device registry, DNS |
| Migration (`migration.py`) | entity registry | one pass at setup | registry |
| Diagnostics, constants | none | none | |

### How the parts interact

* Entities read `coordinator.data` and `last_update_success` and never write
  them. They are told of a change by `async_update_listeners`, which
  `coordinator.py` overrides to send the routing signal to all entries too.
* All requests of one coordinator queue on `_operation_lock`, an
  `asyncio.Lock` (FIFO, released on every exit of the `async with`).
* A stream select of one entry reads another entry's endpoint through that
  entry's coordinator, under that coordinator's lock, and then writes its own.
* Setup puts the coordinator into the catalog, unload takes it out; a call that
  is suspended in between keeps its reference.

### What is hard, and what correct means

* Coordinator: a poll, commands and reads interleave at every await. What is
  published must never go back in time, a command that returned must stay
  visible, the lock must survive every failure and cancellation, and polling
  must not stop unless the user was asked for credentials.
* Lifecycle and routing: the catalog, the selects' options and the calls under
  way change independently. No unloaded or failed entry may be selectable, no
  shown option may be stale, no route may be written that the transmitter no
  longer publishes, and calls between two entries must not block each other.
* Preview: a frame may outlive the signal it shows; the throttle is set and
  cleared by different tasks.
* Config flow, discovery: several flows race for one device and for one UDP
  port; addresses are hints and only the authenticated identity counts.
* Identity: lookups share four permits and each has two seconds, its wait
  included; a match must be unambiguous or none.
* Entities and migration: registry entries outlive everything else. Repeated
  renumbering leaves duplicates, labels move between ports, platforms look at
  the endpoint later than the migration did, and the registry is saved later
  still. No entry may go to the wrong port or share its id with another.

`PROJECT.json` lists the hazards one by one, each at its line, with the
property that covers it or the reason why none does.

## 2. Modules

```
EndpointView            what a coordinator promises (abstract)
     ^ refined by
Coordinator             one entry: poll, commands, routing reads, lock
     ^ extended by          ^ extended by
MCCoordinator (TLC)     CoordinatorProofs (TLAPS)

Routing                 several entries: lifecycle, catalog, stream selects
     ^ extended by          ^ extended by
MCRouting (TLC)         RoutingProofs (TLAPS)

PreviewImage            preview of one endpoint: cache, throttle, lock
     ^ extended by          ^ extended by
MCPreviewImage (TLC)    PreviewImageProofs (TLAPS)

EntryRegistry           what the flows promise about the entries (abstract)
     ^ refined by
ConfigFlow              flows in progress over the registry of entries
     ^ extended by          ^ extended by
MCConfigFlow (TLC)      ConfigFlowProofs (TLAPS)

Discovery               UDP scans: session lock, sockets, replies
     ^ extended by          ^ extended by
MCDiscovery (TLC)       DiscoveryProofs (TLAPS)

Entities                entity sets of the platforms, entity registry, migration
     ^ extended by          ^ extended by
MCEntities (TLC)        EntitiesProofs (TLAPS)

Identity                address lookups under a semaphore, match of a device
     ^ extended by          ^ extended by
MCIdentity (TLC)        IdentityProofs (TLAPS)
```

### Coordinator

| Model | Code |
|---|---|
| `dev` | the endpoint: the device that answers, a version counting its changes, the controls it offers now |
| `data`, `lastUpdateSuccess`, `timer` | `DataUpdateCoordinator` |
| `shown` | the availability the entities last wrote to the state machine |
| `reauth` | a reauthentication flow was started |
| `holder`, `waiters` | `_operation_lock` |
| `pc`, `cmd`, `got`, `previous`, `wrote` | the frames of the suspended tasks |
| `acked` | history: newest change made by a command that returned |
| `StartPoll`, `PollSnapshot`, `PollFinish`, `PollFails`, `PollAuthFails`, `PollCrashes` | `_async_update_data`, `_async_read_data`, and the base class around them |
| `StartCommand` ... `CommandDone`, `RebootDone`, `CommandFails` | `async_set_*`, `async_reboot`, and the guards and handlers of the control entities |
| `StartRead`, `ReadSnapshot`, `ReadDone`, `ReadRefused`, `ReadFails` | `async_read_routing_source` and its caller's handlers |
| `CancelWaiting`, `CancelHolding` | cancellation of a service call's task at an await |
| `DeviceChange` | the endpoint's web UI, another controller, a device swap |

The client library is not part of the repository. Its commands are modelled
from how they are used and documented: identity and capability preflight, at
most one POST, readback, nothing written when the value is already set. A
snapshot is what the endpoint was when the request was served, and the step
that publishes it comes later. The write of a stream select (`Route`) queues for
the lock without looking at its own availability again. The base class
serializes scheduled refreshes, so one `Poller` stands for them; it reads
`last_update_success` before the poll waits for the lock and notifies listeners
of a failure only if it was TRUE.

### Routing

A coordinator is `<<e, g>>`, the g-th one of entry `e`, because a reload makes
a new object with a new lock while calls under way keep the old one. A snapshot
is reduced to what routing reads of it: identity, advertised location, whether
the receive route can be written. `Dispatch` is the conjunct of every action
that sends the signal; the actions that do not send it in the code do not have
it. A poll is one step here, and the lock has no queue: `Coordinator` has both.
A failed poll may tell nobody, which over-approximates when that happens in
`Coordinator`. A coordinator polls and dispatches until its last listener goes,
also between the unload of its platforms and that of its entry (`Polling`).
Reauthentication is left to `Coordinator`.

### PreviewImage

| Model | Code |
|---|---|
| `success`, `info` | `last_update_success`, `preview_info` of the coordinator, changed by its updates at any moment |
| `adds` | `added` of the platform's `discover` listener |
| `frame`, `nextFetch`, `holder` | `_frame`, `_next_fetch`, `_lock` |
| `pc`, `answer` | the suspended `async_image` calls and what they returned |
| `known` | history: some update showed the capability |
| `lastEnd`, `abandoned`, `lifted` | history: when the last fetch ended, whether it was abandoned, and whether the entity heard of an update without a preview since the last one that was not |

A frame is the time at which it was stored, so its age is visible. A failed
update may reach the entity or not, as in `Coordinator`. A fetch ends with a
frame, with an error, or abandoned: the view's timeout cancels it, or it raises
something else than `NvxApiError`. The first two set the throttle; the third
releases the lock and sets nothing, so the next request fetches at once.
`FetchesThrottled` names this exception and that of an update without a preview.

### ConfigFlow

| Model | Code |
|---|---|
| `flow` | the flow objects in progress: step, unique id, `_selected`, `_devices`, host being checked, hosts being resolved |
| `entries`, `registered`, `ignored` | config entries; which devices are registered for each in the device registry; ignored cards |
| `owners`, `Move` | which device answers at which host, now (`owner`) and later |
| `seen`, `linked` | history: logins that were accepted; what was ever registered |
| `SetupEntry` | `CrestronNvxEntity.__init__`: the device that answers at the entry's host is registered for it, whichever it is |
| `Open` ... `Manual` | `async_step_user`, `async_step_scan`, `async_step_select_device` |
| `CardStart`, `CardChecked` | `async_step_integration_discovery` |
| `Submit` ... `Finish` | `async_step_manual`, `async_step_connect` |
| `StartRepair` ... `LoggedIn` | `async_step_reauth*`, `async_step_reconfigure` |
| `Addresses`, `AuthenticatedEntry` | `async_ipv4_addresses`, `authenticated_entry` of `identity.py` |
| `RemoveEntry` | the user removes an entry, at any moment; its repair flows go with it |

A lookup that has nothing to wait for does not suspend its flow (`Running`):
the model gives it no interleaving the event loop does not have. The card of
an address is one flow named by the address. A lookup may fail, which covers
the limit of four concurrent lookups and their two seconds. A login that
matched an entry looks up its own host first (`matched`) and then the host the
entry has by then, or had when it was removed.

What a set-up entry registers comes from `coordinator.data`, and neither the
first refresh nor a poll checks the identity (finding 2). So `SetupEntry` adds
`<<unique id, owner of the host>>`, and an entry may have registered devices of
several units. `AuthenticatedEntry` then matches a foreign unit with it. A
device *passes for* an identity if it is that device or has the serial of one
that ever answered for an entry of it (`PassesFor`, over `linked`); this is as
much as an entry added after a match can promise of its host.

A flow that is aborted at an await goes on to the end of its step in the code,
and the manager drops its result. The model closes a dialog or a card at its
forms (`Close`) and ends a retired card at once. What is left of such a step
surfaces and retires cards, or updates the entry of a repair, as `Filter`,
`Finish` and `LoggedIn` do; it creates no entry and is not in progress for
`InProgress`. These orphans are not modelled (section 6).

`ConfigFlow` implements `EntryRegistry`, which knows entries, accepted logins,
what answered for each entry and what each repair logs in for, and no dialogs,
cards, scans or lookups: an identity has at most one entry, an entry is added
for a host at which a device passing for it accepted a login, and from then on
only its own repair, at its own device, changes it. A repair is for credentials
at the host the entry had when they were submitted, or for new settings; that
is how the host and the credentials of an entry may come from two logins. The
mapping takes `seen` for `verified` and `Repairing` for `repairing`.

### Discovery

| Model | Code |
|---|---|
| `lock` | the `asyncio.Lock` in `hass.data` |
| `pc`, `target`, `adapters`, `plans`, `devices` | the locals of a suspended `async_discover` |
| `sockets`, `closed` | open transports; sockets of closed ones that still keep the port |
| `heard` | history: valid replies a scan's sockets received |

asyncio releases the socket of a closed datagram transport in a callback
scheduled by `close()`, unless datagrams are still unsent: then only after
they are written. `Backlogs` chooses between both, and a socket with a backlog
may keep the port for ever. A reply is its sender; `Reply` is one that parses.

### Entities

| Model | Code |
|---|---|
| `endpoint`, `data`, `success` | the endpoint; `coordinator.data`, `last_update_success` |
| `unique`, `created`, `saved` | the entity registry: unique id of each legacy entry, entries the platforms made, the file |
| `pending`, `entities` | platforms that `async_forward_entry_setups` has still to set up, entities they added |
| `first` | history: the snapshot the last migration used |
| `METRICS`, `SENSORS`, `BINARY_SENSORS` | the tables of that name |
| `Sensors` ... `Buttons` | what the `async_setup_entry` of each platform makes of a snapshot |
| `Available` | the `available` properties: `super().available` and the port, stream or capability still found |
| `UniquelyLabelled`, `Candidates`, `Oldest`, `Takes`, `Migrated` | the pass of `async_migrate_port_entities` |
| `Setup`, `SetupPlatform`, `Unload` | `async_setup_entry`, of the entry and of a platform; `async_unload_entry` |
| `Update`, `UpdateFails`, `EndpointChange` | any publication, a failed poll; cables, labels, ports, modes |
| `Save`, `Crash` | the registry's delayed save; Home Assistant dies and starts with the file |

An entity is its domain, its key and what it looks for in a snapshot (`needs`).
Whether a legacy id was a UUID or a position is one value, `Unmoved`: the pass
treats both alike. A label is compared, never composed, and a stable id, whose
port id is named for its slot, never has a legacy one's form. The loops of the
pass visit labels that differ, so `Migrated` states the whole pass at once;
`EntitiesProofs` proves what that relies on (`MigratedDistinct`).

### Identity

| Model | Code |
|---|---|
| `entries`, `registered` | config entries; the devices registered for each, with serial and model |
| `Register` | an entry is set up: whichever device answers at its host is registered for it |
| `asked`, `found` | the suspended `async_configured_addresses` of a caller: its hosts, what its lookups returned |
| `active`, `waiting` | holders and queue of the `asyncio.Semaphore` |
| `left`, `age` | ticks until a lookup's `asyncio.timeout`; history: ticks since a call began |
| `Ask`, `Return`, `Cancel` | the call up to its `gather`, after it, and its cancellation |
| `Answer`, `Raise`, `TimeOut` | `getaddrinfo` returns or raises; the timeout expires, with or without a permit |
| `AuthenticatedEntry` | `authenticated_entry` |

`Serve` hands permits to the queue in order in the same step that frees them:
`asyncio.Semaphore` wakes its waiters first in, first out, and lets nobody
overtake. A tick passes only when no timer is due and no call has
all its results, because the loop then runs those first.

`ConfigFlow` lets a lookup of several hosts give `Addresses(hosts)`: the literals
and the addresses of any subset of the names. That is `Answers(hosts)` of
`Identity`, and `AnswersWhole` says that a call finds nothing else, whatever the
semaphore, the timeouts and the name servers do.

Each definition named `...Holding...`, `...Silently`, `...Early`, `...Always`
and so on with a comment that starts with "Fault" is a plausible bug, not a
part of the specification; it is there to show that a property notices it.

## 3. Runs

| Run | Shows | Instance |
|---|---|---|
| `coordinator` | safety of one coordinator and its refinement of `EndpointView` | poll, two platforms' service calls (symmetric), one routing read; two devices; two verified commands, one of them the stream select's write, and the reboot; at most 3 changes of the endpoint |
| `coordinator_live` | `OperationsFinish`, `Converges` | one caller, at most 2 changes |
| `coordinator_shown` | finding: an unavailable endpoint shown as available | as above |
| `coordinator_identity` | finding: another device's state is published | as above |
| `routing` | safety of catalog, options, locks and routes | one receiver and one transmitter with two locations; the transmitter's entry is set up twice; one change of an endpoint (location, mode or device) |
| `routing_live` | every select call ends | two endpoints that may each be in either mode and route to each other |
| `preview` | coalescing, throttling and freshness of the preview | two viewers (symmetric), a cache of 2 ticks, 6 ticks |
| `config_flow` | one entry for each identity, verified settings, surviving cards, refinement of `EntryRegistry` | a dialog, a card, two repair flows; an address and a name; two interfaces of one unit and a foreign endpoint; two timelines of who answers where, each with one change; one removal of an entry; a flow opens while at most one other is in progress |
| `config_flow_cards` | finding: a card for a configured address | a dialog and two cards, no repair flow |
| `discovery` | ownership of the port, right results, every scan ends | two scans again and again, two overlapping interfaces or none, two targets, room for two devices among three neighbours |
| `entities` | ids, migration and availability of the entities of one endpoint | two setups, one change between three snapshots, five legacy entries: two for one port, one whose label moves to another port, one whose label two ports share |
| `identity` | permits, deadlines and results of lookups, matches, every call ends | two callers, two permits, a timeout of one tick; two names and a literal address; a unit with two interfaces, one of another model with its serial, one without a serial that shares a host; at most two entries and two registered devices at a time |

**Why the bounds suffice.** Three changes let a foreign change, a command and
another change surround one read; two callers are needed for one to queue
behind, or be cancelled behind, the other. With one receiver and one
transmitter every pair of roles occurs; two setups are a reload. `MaxVersion`,
`MaxSetups` and `MaxChanges` bound the counters and nothing else. Six ticks hold
two cache periods and an outage between them. A dialog, a card and two repair
flows let any two kinds of flow work on one entry, and the card a scan
surfaces beside them; the two timelines let an entry be set up with its own
device, with its other interface and with a foreign unit, before and after;
three eligible neighbours exceed the room for two devices by one. Two setups
are needed for a migration to find what an earlier one, a platform or a crash
left, with one change of the endpoint before, between or after; three
snapshots tell a shared label, a moved one and a missing port apart. Two
callers that look up two names each compete for two permits; two entries, or
two devices of one entry, are the least that make a match ambiguous. `MaxOpen`
limits the flows a user has open, not those a scan adds; the proofs do without
all of these bounds. Where a model stops once it has used
up its bound, and a coordinator once its authentication failed and until the
user acts, the run does not check for deadlock; the others, where nothing may
stop, do.

**Fairness.** Weak fairness of lock acquisition and of each suspended task: the
event loop runs every ready task and the client bounds every request with a
timeout. Weak fairness of `StartPoll`: the timer fires while armed. `Converges`
also assumes that an endpoint polled for ever answers some polls
(`ReachableSpec`: strong fairness of the poll's reads); commands and reads may
fail for ever. In `Routing`, strong fairness of the lock steps stands for the
FIFO queue, whose freedom from starvation is `OperationsFinish` of `Coordinator`.

In `Discovery`, weak fairness of each scan's own steps (its awaits are two
timers, Home Assistant's lookups and binding) and of the callbacks that close
scheduled; none of the sockets that wait for unsent datagrams.

In `Identity`, strong fairness of `Tick`: a tick is disabled while a call has
all its results, again and again, but no succession of calls stops the clock.
Weak fairness of `Return` and `TimeOut`, which the loop runs when they are due.
None of `Answer`: nothing makes a name server answer.

## 4. Findings

1. `FailureShown` (`coordinator_shown`). The repository's README says a failed
   update makes entities unavailable. A poll that fails after a routing read
   or command recovered the endpoint while that poll was waiting for the lock
   notifies nobody: entities, and the options of other entries' selects, keep
   showing the endpoint as available until the next notification.
2. `OwnEndpoint` (`coordinator_identity`). `tests/test_routing.py:165` states
   that a wrong endpoint never becomes the configured device's state.
   Routing reads and commands check the identity; the poll does not.
3. `ConfiguredHaveNoCard` (`config_flow_cards`). The repository's README says
   successful setup removes the matching card. A card that is still looking up
   addresses is not in the list setup goes through, and stays.

Observed, and not findings, because no statement of the repository is
contradicted or because the code knowingly settles for it:

* Two interfaces of one unit that are both added before the serial of the first
  is in the device registry become two entries; `identity.py` promises a match
  only where it is unambiguous (`MatchRight`).
* A scan's `sleep(0)` does not wait for a transport with unsent probes: the next
  scan on that interface may fail (`PortFreeWithLock` says exactly this much),
  but it does not hang (`ScansEnd`).
* The lock belongs to a coordinator and not to an endpoint. A select call that
  outlives its coordinator's unload may overlap the first refresh of the reload.
* A preview fetch that was under way when the preview went away stores its
  frame after the update that cleared the cache. What holds is
  `NoFrameAcrossOutage`, `AnswersAreRecent`, and that the next request clears it.
* A preview fetch that is abandoned leaves no throttle (`image.py:75-84`): a
  viewer that gives up too early makes the next one ask the endpoint at once.
  The changelog's failure throttling speaks of failures, and these are throttled.
* An entry may be removed after a flow matched it (`config_flow.py:317`) and
  before the flow ends (`config_flow.py:333`), while addresses are looked up. A
  new entry then gets the unique id of the removed one with the host of the
  device that matched: another interface of that unit or, if a foreign unit
  once answered at the removed entry's host (finding 2), a foreign host. Without
  the removal the foreign unit's login ends as already configured, although it
  is not. `identity.py:65` speaks of serials from authenticated snapshots,
  which these are. `EntriesVerified`, `EntryRegistry` and `MatchRight` therefore
  say which device passes for an identity, and not that it is the entry's own.
* A reauthentication that is overtaken by a reconfiguration stores credentials
  accepted at the old host beside the new one. The second conjunct of
  `EntriesVerified` says that the entry's own device accepted both logins.
* A port that appears between the migration and a platform's setup gets a new
  registry entry, and its legacy entry stays behind for good. `NewOnlyIfLate`
  says that this is the only way.
* A label that is unique only because the other port of that name is absent
  counts as unique, so a legacy entry may go to the port that is left
  (`LabelTells` in `RightPort` leaves this case out).
* A thread in `getaddrinfo` outlives the timeout of its lookup while its permit
  is given back, so more than four may run. The limit is one on lookups awaited.

## 5. Proofs

`CoordinatorProofs` proves, for every value of the constants that satisfies
`CoordinatorAssumption` (distinct task names and null values, nothing else):

* `TypeCorrect`: `Spec => []TypeOK`
* `LockIsDisciplined`: `Spec => []LockDiscipline`
* `CommandsStayVisible`: `Spec => []ReadYourWrites`
* `ViewIsMonotone`: `Spec => NoStalePublish`
* `Refinement`: `Spec => ImplementsEndpointView`
* `SnapshotsStayInOrder`, `WritesStayInOrder`: `SnapshotsInOrder`, `WritesInOrder`
* `NobodyOvertakes`: `Spec => NoOvertaking`
* `PollingNeverStops`: `Spec => []PollingContinues`
* `RecoveryIsShown`: `Spec => []RecoveryShown`

**Argument.** Few of these are inductive alone. That the view does
not go back needs that every snapshot in hand is at least as new as the view
(`SnapshotsInOrder`); that holds because nobody publishes while another task
has a snapshot in hand, hence needs mutual exclusion (`LockDiscipline`), which
in turn needs to know that a task appears in the queue exactly when it waits.
That a command stays visible needs that its readback is at least as new as its
POST (`WritesInOrder`). `IInv` is the conjunction of these parts and of
`TypeOK`, and the lemmas `InitIInv`, `StepIInv` and `Inductive` prove it. The
proof has a part for each conjunct and in it one step for each action. `PollingContinues` and
`RecoveryShown` are kept by each step on their own, given the types. So is
`NoOvertaking`, the safe half of the lock's fairness: joining appends, acquiring
shifts the queue by one, and a cancelled waiter anywhere in it leaves the others
in their order (`RemoveAtFacts`).

`RoutingProofs`, from `RoutingAssumption`: `TypeCorrect`, `CatalogIsRight`
(`CatalogMatchesLifecycle`), `LocksAreHeldByCalls` (`LocksHeldByCalls`),
`OptionsAreFresh` (`ShownOptionsFresh`), `WritesArePublished`
(`RoutesToPublished`). A coordinator that enters the catalog must have no
select, no lock and no reader yet, although calls of the ones before it may be
under way: that is `GenerationsGrow`, which bounds what a catalog and a platform
may name by the number of coordinators that were registered. `IInv` joins it
with the four invariants. `RoutesToPublished` then follows for the one step that
goes on to write: the source it chose is still offered, hence in the catalog.

`ConfigFlowProofs`, from `ConfigFlowAssumption`: `TypeCorrect`,
`EndpointsAreConfiguredOnce` (`OneEntryPerIdentity`), `SettingsAreVerified`
(`EntriesVerified`), `CardsAreKept` (`CardsSurvive`), `Refinement`
(`ImplementsRegistry`). A flow creates its entry after an await, so that what it will
store is verified (`ResolvingVerified`), that it is the only one with its
identity, and what each kind of flow may be (`FlowsWellFormed`) belong to
`IInv`. Most actions only move one flow (`Moves`, `Stepped`), and one lemma
serves them all; a login that is accepted, an entry that is created, changed or
removed have lemmas of their own.

That a matched flow's host is verified rests on the match itself (`MatchFacts`):
the entry has a registered device with the serial of the one that accepted the
login, and what is registered is in `linked`, which only grows (`PassesOn`), so
it outlives the entry.

`Refinement` goes through the same kinds of step. A flow that moves without
logging in leaves `Repairing` alone (`OthersLeaveRepairs`) and stutters, or
starts a repair (`Begin`); a login that fails is `Fail`, one that is accepted
`Login` or, at the device of the entry, `Repair`; `Finish` is `Add`, whose two
conditions, a new identity and a verified host, are those of `IInv`;
`SetupEntry` is `Answer`.

`EntitiesProofs`, from `EntitiesAssumption`: one theorem for each property of
the run `entities`, types and action properties included (`IdsDistinct` joins
the registry's `UniqueIdsDistinct` and the platforms' `OneEntityPerId`). The
migration must agree with a registry that changes under it and is lost in a
crash, so `IInv` says of the registry in memory and of the one on disk alike
that its ids are distinct and given to the right ports (`Sound`), and of the
snapshot of the setup that another pass would take nothing (`Settled`). That a
pass settles (`PassSettles`) needs that the oldest of several candidates
exists, because their times are natural numbers. Ids and availability need
that the key of an entity determines its domain and what it looks for
(`EntityForm`).

`IdentityProofs`, from `IdentityAssumption`: `TypeCorrect`, `PermitsAreKept`
(`PermitsKept`), `CallsEndInTime` (`CallsInTime`), `AnswersAreWhole`
(`AnswersWhole`), `MatchesAreRight` (`MatchRight`), for any limit, timeout and
number of callers and hosts. A lookup that ends anywhere in the queue is taken
out by position (`Without`): the ranks of the places that stay are a bijection
(`RankIsBijective`), so the others keep their permit, place and timer
(`WithoutKeeps`). `Serve` then gives out exactly the free permits (`ServeKeeps`),
and `ServeSome` sums both up for every action that ends lookups. That a call ends
in time needs that a lookup's timer and its call's age add up to the timeout at
all times; that its answers are whole, that every host it asked about is found,
open or failed (`CallsOK`). `IInv` joins this with the queue's `QueueOK` and the
registry's `RegistryOK`, which alone implies `MatchRight`.

`PreviewImageProofs`, from `PreviewAssumption`: `TypeCorrect`, `AddedOnce`
(`AddedWhenSupported`), `FetchesCoalesce`
(`OneFetch`), `FramesEndWithOutage` (`NoFrameAcrossOutage`), `Throttle`
(`FetchesThrottled`), `Recent` (`AnswersAreRecent`). The last two need the
relation between the throttle, the frame and the end of the last fetch that
every step keeps (`CacheFollowsFetch`): the throttle ends one cache time after
the last fetch ended unless that was abandoned or the throttle lifted, and no
later than one cache time after the frame that is kept was stored.
`AddedWhenSupported` says both that the entity is there from the first update
that showed the capability and that nothing is added before.

`DiscoveryProofs`, from `DiscoveryAssumption`: `TypeCorrect`, `PortIsOwned`
(`PortOwned`), `PortIsFree` (`PortFreeWithLock`), `ResultsRight` (`FoundRight`).
`PortFreeWithLock` needs that a socket without a backlog that lingers belongs to
a scan suspended in its `finally` block (`Releasing`). `FoundRight` is proved
step by step over `IInv`, because a scan that has not looked at its interfaces
has received nothing (`Fresh`), and the cardinality of what it found is that of
a finite set.

**Only proved.** What a run would repeat is left to the proofs:
`NoStalePublish`, which the refinement of `EndpointView` implies, the
auxiliary `SnapshotsInOrder` and `WritesInOrder`, `NoOvertaking`, `RecoveryShown`
and `AddedWhenSupported`.

**Only model-checked.** Liveness (`OperationsFinish`, `Converges`,
`SelectsFinish`, `ScansEnd`, `CallsReturn`), which depends on fairness and
ENABLED, beyond the provers used here. Its safe parts are proved: the lock's
order (`NobodyOvertakes`), a poll that stays scheduled (`PollingNeverStops`),
calls that never hold one lock while they wait for another
(`LocksAreHeldByCalls`), and the time a call's lookups take (`CallsEndInTime`).

## 6. Not modelled, and why

* The bytes of a discovery reply and of the REST API, the spelling of hosts,
  targets and serials: parsing of external data, with tests of its own.
* Values, names, units and translations of entities, form schemas and
  placeholders, logging: they are read from state and change none.
* `diagnostics.py`: a redacted copy of a snapshot, no state.
* `scripts/`: development tools run by hand, without concurrency.
* What is left of a step whose flow was aborted at an await (`ConfigFlow` in
  section 2). Invalid forms and invalid discovery data, which change nothing.
  (`Config flow` is therefore listed as partly modelled.)
* The composition of `Routing` with `Coordinator`. `Routing` has several
  coordinators with a poll in one step and a lock without a queue; two of
  `Coordinator` in one module are beyond TLC, and what `Routing` assumes of each
  (mutual exclusion, publication in order) is proved for one.

## 7. Running

```
tlc -config MCCoordinator.cfg MCCoordinator     # likewise the other .cfg files
tlapm CoordinatorProofs.tla                     # likewise the other ...Proofs modules
```
