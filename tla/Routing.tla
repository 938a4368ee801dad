------------------------------ MODULE Routing -------------------------------
(***************************************************************************)
(* Several config entries, each with its coordinator, and what joins them: *)
(* the catalog hass.data[DOMAIN] kept by setup and unload (__init__.py),   *)
(* the receiver stream selects that offer other entries' transmitters      *)
(* (routing.py), and the dispatcher signal that refreshes their options.   *)
(*                                                                         *)
(* A reload makes a new coordinator with a new lock, while calls already   *)
(* under way keep the old one: a coordinator is <<e, g>>, the g-th one     *)
(* registered for entry e.  A snapshot is reduced to what routing reads:   *)
(* the identity, the location a transmitter advertises and whether its     *)
(* receive route can be written.                                           *)
(*                                                                         *)
(* A coordinator's poll is one step here; Coordinator.tla has its awaits.  *)
(* External parts, modelled from how src uses them: Home Assistant's       *)
(* config entries, platforms and dispatcher, and the client library.       *)
(***************************************************************************)
EXTENDS Integers, FiniteSets

CONSTANTS
    Entries,      \* config entries
    Ids,          \* device identities
    UniqueId,     \* each entry's unique_id
    Locations,    \* stream locations a transmitter may advertise
    NoLocation,   \* primary_transmit_location is None
    NoSnapshot,   \* nothing read yet
    Snapshots,    \* what may answer at a host
    Free,         \* nobody holds a lock
    MaxSetups,    \* bound: coordinators registered for each entry
    MaxChanges    \* bound: changes of the endpoints

Gens == UNION {1 .. MaxSetups[e] : e \in Entries}
Coordinators == Entries \X Gens

ASSUME RoutingAssumption ==
    /\ UniqueId \in [Entries -> Ids]
    /\ \A e, f \in Entries : UniqueId[e] = UniqueId[f] => e = f
    /\ NoLocation \notin Locations
    /\ Snapshots \subseteq [id : Ids, loc : Locations \cup {NoLocation}, rx : BOOLEAN]
    /\ NoSnapshot \notin Snapshots
    /\ Free \notin Coordinators
    /\ MaxSetups \in [Entries -> Nat]
    /\ MaxChanges \in Nat

VARIABLES
    \* the endpoints
    dev,        \* what a request to an entry's host would read now
    changes,    \* number of changes so far
    \* Home Assistant
    state,      \* where an entry is in its setup and unload
    gen,        \* number of coordinators registered for an entry so far
    catalog,    \* hass.data[DOMAIN]: the generation registered, or 0
    platform,   \* generation whose select platform is set up, or 0
    entity,     \* entries whose receiver stream select exists
    shown,      \* options that select last wrote to the state machine
    \* the coordinators
    data,       \* published snapshot
    success,    \* last_update_success
    holder,     \* the select call that holds _operation_lock, or Free
    \* the select calls: PARALLEL_UPDATES = 1, one for each coordinator's entity
    pc,         \* where async_select_option is suspended
    source,     \* the transmitter's coordinator
    fresh       \* the snapshot read from it

endpoints == <<dev, changes>>
lifecycle == <<state, gen, catalog, platform, entity>>
published == <<data, success, shown>>
calls     == <<pc, source, fresh>>
vars      == <<endpoints, lifecycle, published, holder, calls>>

States == {"not_loaded", "refreshing", "forwarding", "forwarded", "loaded",
           "unloading", "unloaded_platforms", "failed_unload"}

(* The coordinator whose entity an entry's select is.                      *)
SelectOf(e) == <<e, platform[e]>>

-----------------------------------------------------------------------------
(* NvxReceiverStreamSelect._sources: the other registered coordinators, of *)
(* another device, that published a location and ...                       *)
Transmitters(c) ==
    {s \in Coordinators :
        /\ catalog[s[1]] = s[2]
        /\ s # c
        /\ data[s].id # data[c].id
        /\ data[s].loc # NoLocation}

(* ... whose last update succeeded.  Labels carry the device id, so a label *)
(* stands for its coordinator unless two entries publish the same device.   *)
Sources(c) == {s \in Transmitters(c) : success[s]}

(* async_dispatcher_send(SIGNAL_ROUTING_UPDATED), and the listeners' own   *)
(* refresh: every select that exists writes its options.  An action that   *)
(* dispatches says so last, of the state it leaves.                        *)
Dispatch ==
    shown' = [e \in Entries |-> IF e \in entity' THEN Sources(SelectOf(e))' ELSE {}]

Init ==
    /\ dev \in [Entries -> Snapshots]
    /\ \A e \in Entries : dev[e].id = UniqueId[e]
    /\ changes = 0
    /\ state = [e \in Entries |-> "not_loaded"]
    /\ gen = [e \in Entries |-> 0]
    /\ catalog = [e \in Entries |-> 0]
    /\ platform = [e \in Entries |-> 0]
    /\ entity = {}
    /\ shown = [e \in Entries |-> {}]
    /\ data = [c \in Coordinators |-> NoSnapshot]
    /\ success = [c \in Coordinators |-> FALSE]
    /\ holder = [c \in Coordinators |-> Free]
    /\ pc = [c \in Coordinators |-> "idle"]
    /\ source = [c \in Coordinators |-> c]
    /\ fresh = [c \in Coordinators |-> NoSnapshot]

-----------------------------------------------------------------------------
(* async_setup_entry: a new coordinator, whose first refresh is awaited.   *)
StartSetup(e) ==
    /\ state[e] = "not_loaded"
    /\ gen[e] < MaxSetups[e]
    /\ state' = [state EXCEPT ![e] = "refreshing"]
    /\ UNCHANGED <<endpoints, gen, catalog, platform, entity, published, holder, calls>>

(* ConfigEntryNotReady or ConfigEntryAuthFailed: nothing was registered.   *)
FirstRefreshFails(e) ==
    /\ state[e] = "refreshing"
    /\ state' = [state EXCEPT ![e] = "not_loaded"]
    /\ UNCHANGED <<endpoints, gen, catalog, platform, entity, published, holder, calls>>

(* The coordinator enters the catalog; the platforms' setup is awaited and *)
(* the signal sent only after it.                                          *)
FirstRefresh(e) ==
    /\ state[e] = "refreshing"
    /\ gen' = [gen EXCEPT ![e] = @ + 1]
    /\ data' = [data EXCEPT ![<<e, gen[e] + 1>>] = dev[e]]
    /\ success' = [success EXCEPT ![<<e, gen[e] + 1>>] = TRUE]
    /\ catalog' = [catalog EXCEPT ![e] = gen[e] + 1]
    /\ state' = [state EXCEPT ![e] = "forwarding"]
    /\ UNCHANGED <<endpoints, platform, entity, shown, holder, calls>>

(* select.async_setup_entry: the receiver select exists only if the        *)
(* endpoint is a receiver now.  A platform set up twice raises instead.    *)
SetupSelect(e) ==
    /\ state[e] = "forwarding"
    /\ platform[e] = 0
    /\ platform' = [platform EXCEPT ![e] = gen[e]]
    /\ entity' = IF data[<<e, gen[e]>>].rx THEN entity \cup {e} ELSE entity
    /\ state' = [state EXCEPT ![e] = "forwarded"]
    /\ UNCHANGED <<endpoints, gen, catalog, data, success, holder, calls>>
    /\ shown' = [shown EXCEPT ![e] = IF e \in entity' THEN Sources(SelectOf(e))' ELSE {}]

ForwardDone(e) ==
    /\ state[e] = "forwarded"
    /\ state' = [state EXCEPT ![e] = "loaded"]
    /\ UNCHANGED <<endpoints, gen, catalog, platform, entity, data, success, holder, calls>>
    /\ Dispatch

(* Fault: a setup that fails leaves its transmitter selectable.            *)
ForwardFailsKeepsCatalog(e) ==
    /\ state[e] \in {"forwarding", "forwarded"}
    /\ state' = [state EXCEPT ![e] = "not_loaded"]
    /\ UNCHANGED <<endpoints, gen, catalog, platform, entity, data, success, holder, calls>>
    /\ Dispatch

(* An exception or a cancellation while the platforms are set up takes the *)
(* coordinator out of the catalog; platforms already set up stay.          *)
ForwardFails(e) ==
    /\ state[e] \in {"forwarding", "forwarded"}
    /\ state' = [state EXCEPT ![e] = "not_loaded"]
    /\ catalog' = [catalog EXCEPT ![e] = 0]
    /\ UNCHANGED <<endpoints, gen, platform, entity, data, success, holder, calls>>
    /\ Dispatch

(* async_unload_entry: the platforms' unload is awaited, ...               *)
StartUnload(e) ==
    /\ state[e] = "loaded"
    /\ state' = [state EXCEPT ![e] = "unloading"]
    /\ UNCHANGED <<endpoints, gen, catalog, platform, entity, published, holder, calls>>

(* Fault: the platform is unloaded and its select is not.                  *)
UnloadSelectKeepsEntity(e) ==
    /\ state[e] = "unloading"
    /\ platform' = [platform EXCEPT ![e] = 0]
    /\ state' = [state EXCEPT ![e] = "unloaded_platforms"]
    /\ UNCHANGED <<endpoints, gen, catalog, entity, published, holder, calls>>

(* ... which removes the select, ...                                       *)
UnloadSelect(e) ==
    /\ state[e] = "unloading"
    /\ platform' = [platform EXCEPT ![e] = 0]
    /\ entity' = entity \ {e}
    /\ shown' = [shown EXCEPT ![e] = {}]
    /\ state' = [state EXCEPT ![e] = "unloaded_platforms"]
    /\ UNCHANGED <<endpoints, gen, catalog, data, success, holder, calls>>

(* Fault: the signal is not sent when a transmitter goes.                  *)
UnloadDoneSilently(e) ==
    /\ state[e] = "unloaded_platforms"
    /\ state' = [state EXCEPT ![e] = "not_loaded"]
    /\ catalog' = [catalog EXCEPT ![e] = 0]
    /\ UNCHANGED <<endpoints, gen, platform, entity, published, holder, calls>>

(* ... and the coordinator leaves the catalog only if all were unloaded.   *)
UnloadDone(e) ==
    /\ state[e] = "unloaded_platforms"
    /\ state' = [state EXCEPT ![e] = "not_loaded"]
    /\ catalog' = [catalog EXCEPT ![e] = 0]
    /\ UNCHANGED <<endpoints, gen, platform, entity, data, success, holder, calls>>
    /\ Dispatch

UnloadFails(e) ==
    /\ state[e] \in {"unloading", "unloaded_platforms"}
    /\ state' = [state EXCEPT ![e] = "failed_unload"]
    /\ UNCHANGED <<endpoints, gen, catalog, platform, entity, published, holder, calls>>

-----------------------------------------------------------------------------
(* A coordinator polls while something listens to it: from the entry's     *)
(* entities of any platform to, last, the preview's discover(), which goes *)
(* only when the entry has been unloaded (image.py:36).  The base class    *)
(* and async_update_listeners notify.                                      *)
Polling(c) ==
    \/ platform[c[1]] = c[2]
    \/ /\ gen[c[1]] = c[2]
       /\ state[c[1]] \in {"forwarding", "unloaded_platforms", "failed_unload"}

PollSucceeds(c) ==
    /\ Polling(c)
    /\ holder[c] = Free
    /\ data' = [data EXCEPT ![c] = dev[c[1]]]
    /\ success' = [success EXCEPT ![c] = TRUE]
    /\ UNCHANGED <<endpoints, lifecycle, holder, calls>>
    /\ Dispatch

(* The base class notifies of a failure unless the update before the poll  *)
(* started had failed too; with a routing read in between, nobody is told  *)
(* (PollEndsUnsuccessfully of Coordinator.tla).                            *)
PollFails(c) ==
    /\ Polling(c)
    /\ holder[c] = Free
    /\ success[c]
    /\ success' = [success EXCEPT ![c] = FALSE]
    /\ UNCHANGED <<endpoints, lifecycle, data, holder, calls>>
    /\ Dispatch \/ UNCHANGED shown

(* Mode, location or the device behind an address changes.                 *)
DeviceChange(e) ==
    /\ changes < MaxChanges
    /\ changes' = changes + 1
    /\ \E s \in Snapshots \ {dev[e]} : dev' = [dev EXCEPT ![e] = s]
    /\ UNCHANGED <<lifecycle, published, holder, calls>>

-----------------------------------------------------------------------------
(* NvxReceiverStreamSelect.async_select_option on coordinator c's entity.  *)

Goto(c, step) ==
    /\ pc' = [pc EXCEPT ![c] = step]
    /\ UNCHANGED source

(* The call is over: its local variables go with its frame.                *)
Return(c) ==
    /\ pc' = [pc EXCEPT ![c] = "idle"]
    /\ source' = [source EXCEPT ![c] = c]
    /\ fresh' = [fresh EXCEPT ![c] = NoSnapshot]

(* The option names a source that is offered now.                          *)
Select(c) ==
    /\ c[1] \in entity
    /\ c = SelectOf(c[1])
    /\ pc[c] = "idle"
    /\ success[c]
    /\ data[c].rx
    /\ \E s \in Sources(c) : source' = [source EXCEPT ![c] = s]
    /\ pc' = [pc EXCEPT ![c] = "read_wait"]
    /\ UNCHANGED <<endpoints, lifecycle, published, holder, fresh>>

(* source.async_read_routing_source: under the source's lock, ...          *)
LockSource(c) ==
    /\ pc[c] = "read_wait"
    /\ holder[source[c]] = Free
    /\ holder' = [holder EXCEPT ![source[c]] = c]
    /\ Goto(c, "reading")
    /\ UNCHANGED <<endpoints, lifecycle, published, fresh>>

(* ... a snapshot is read ...                                              *)
ServeRead(c) ==
    /\ pc[c] = "reading"
    /\ fresh' = [fresh EXCEPT ![c] = dev[source[c][1]]]
    /\ Goto(c, "read")
    /\ UNCHANGED <<endpoints, lifecycle, published, holder>>

(* ... and refused if another device answered.                             *)
ReadRefused(c) ==
    /\ pc[c] = "read"
    /\ fresh[c].id # UniqueId[source[c][1]]
    /\ holder' = [holder EXCEPT ![source[c]] = Free]
    /\ Return(c)
    /\ UNCHANGED <<endpoints, lifecycle, published>>

(* Fault: any coordinator of the chosen entry will do.                     *)
StillOfferedByEntry(c) == \E s \in Sources(c)' : s[1] = source[c][1]

(* `source not in self._sources().values()', of the state the read leaves: *)
(* the very coordinator that was chosen, not another one of its entry.     *)
StillOffered(c) == source[c] \in Sources(c)'

(* Fault: the source stays locked until its receiver is written.           *)
ReadDoneKeepsLock(c) ==
    /\ pc[c] = "read"
    /\ fresh[c].id = UniqueId[source[c][1]]
    /\ data' = [data EXCEPT ![source[c]] = fresh[c]]
    /\ success' = [success EXCEPT ![source[c]] = TRUE]
    /\ UNCHANGED <<endpoints, lifecycle, holder>>
    /\ IF fresh[c].loc # NoLocation /\ StillOffered(c)
         THEN Goto(c, "write_wait") /\ UNCHANGED fresh
         ELSE Return(c)
    /\ Dispatch

(* Otherwise it is published, the lock released and the choice checked     *)
(* again, without an await: the call goes on to the receiver or stops.     *)
ReadDone(c) ==
    /\ pc[c] = "read"
    /\ fresh[c].id = UniqueId[source[c][1]]
    /\ data' = [data EXCEPT ![source[c]] = fresh[c]]
    /\ success' = [success EXCEPT ![source[c]] = TRUE]
    /\ holder' = [holder EXCEPT ![source[c]] = Free]
    /\ UNCHANGED <<endpoints, lifecycle>>
    /\ IF fresh[c].loc # NoLocation /\ StillOffered(c)
         THEN Goto(c, "write_wait") /\ UNCHANGED fresh
         ELSE Return(c)
    /\ Dispatch

(* self.coordinator.async_set_receive_stream_location: the receiver's lock. *)
LockReceiver(c) ==
    /\ pc[c] = "write_wait"
    /\ holder[c] = Free
    /\ holder' = [holder EXCEPT ![c] = c]
    /\ Goto(c, "writing")
    /\ UNCHANGED <<endpoints, lifecycle, published, fresh>>

(* Written to the entry's own receiver, read back and published.           *)
WriteDone(c) ==
    /\ pc[c] = "writing"
    /\ dev[c[1]].id = UniqueId[c[1]]
    /\ dev[c[1]].rx
    /\ data' = [data EXCEPT ![c] = dev[c[1]]]
    /\ success' = [success EXCEPT ![c] = TRUE]
    /\ holder' = [holder EXCEPT ![c] = Free]
    /\ Return(c)
    /\ UNCHANGED <<endpoints, lifecycle>>
    /\ Dispatch

(* Fault: a call that ends early keeps its lock.                           *)
AbortHoldingLock(c) ==
    /\ Return(c)
    /\ UNCHANGED <<endpoints, lifecycle, published, holder>>

(* A call ends early: the lock it holds, if any, is released.              *)
Abort(c) ==
    /\ holder' = [l \in Coordinators |-> IF holder[l] = c THEN Free ELSE holder[l]]
    /\ Return(c)
    /\ UNCHANGED <<endpoints, lifecycle, published>>

(* A library error of the read or of the write: the lock is released and   *)
(* the call raises.                                                        *)
RequestFails(c) ==
    /\ pc[c] \in {"reading", "writing"}
    /\ Abort(c)

(* The call's task is cancelled at one of its awaits.                      *)
Cancel(c) ==
    /\ pc[c] # "idle"
    /\ Abort(c)

-----------------------------------------------------------------------------
Lifecycle(e) ==
    \/ StartSetup(e) \/ FirstRefreshFails(e) \/ FirstRefresh(e) \/ SetupSelect(e)
    \/ ForwardDone(e) \/ ForwardFails(e)
    \/ StartUnload(e) \/ UnloadSelect(e) \/ UnloadDone(e) \/ UnloadFails(e)

(* What a call does once a lock was granted or a request ended.            *)
Advance(c) ==
    ServeRead(c) \/ ReadRefused(c) \/ ReadDone(c) \/ WriteDone(c) \/ RequestFails(c)

Operate ==
    \/ \E e \in Entries : DeviceChange(e)
    \/ \E c \in Coordinators :
          \/ PollSucceeds(c) \/ PollFails(c)
          \/ Select(c) \/ LockSource(c) \/ LockReceiver(c) \/ Advance(c) \/ Cancel(c)

Next == (\E e \in Entries : Lifecycle(e)) \/ Operate

Spec == Init /\ [][Next]_vars

(* Fairness.  Every request ends, with an answer or an error, and a lock    *)
(* that is released again and again is granted: asyncio.Lock is FIFO        *)
(* (Coordinator.tla has the queue, and its OperationsFinish).               *)
CallFairness ==
    \A c \in Coordinators :
       SF_vars(LockSource(c)) /\ SF_vars(LockReceiver(c)) /\ WF_vars(Advance(c))

(* Liveness is a matter of the calls: every entry is loaded, was a receiver *)
(* when its platforms were set up, and has changed mode or not since.       *)
Loaded ==
    /\ dev \in [Entries -> Snapshots]
    /\ \A e \in Entries : dev[e].id = UniqueId[e]
    /\ changes = 0
    /\ state = [e \in Entries |-> "loaded"]
    /\ gen = [e \in Entries |-> 1]
    /\ catalog = gen
    /\ platform = gen
    /\ entity = Entries
    /\ data = [c \in Coordinators |-> IF c[2] = 1 THEN dev[c[1]] ELSE NoSnapshot]
    /\ success = [c \in Coordinators |-> c[2] = 1]
    /\ shown = [e \in Entries |-> Sources(SelectOf(e))]
    /\ holder = [c \in Coordinators |-> Free]
    /\ pc = [c \in Coordinators |-> "idle"]
    /\ source = [c \in Coordinators |-> c]
    /\ fresh = [c \in Coordinators |-> NoSnapshot]

LoadedSpec == Loaded /\ [][Operate]_vars /\ CallFairness

-----------------------------------------------------------------------------
(* Every variable has its type, and options are only shown by selects that *)
(* exist, those of a platform that is set up.                              *)
TypeOK ==
    /\ dev \in [Entries -> Snapshots]
    /\ changes \in 0 .. MaxChanges
    /\ state \in [Entries -> States]
    /\ gen \in [Entries -> Gens \cup {0}]
    /\ catalog \in [Entries -> Gens \cup {0}]
    /\ platform \in [Entries -> Gens \cup {0}]
    /\ entity \subseteq {e \in Entries : platform[e] # 0}
    /\ shown \in [Entries -> SUBSET Coordinators]
    /\ \A e \in Entries \ entity : shown[e] = {}
    /\ data \in [Coordinators -> Snapshots \cup {NoSnapshot}]
    /\ success \in [Coordinators -> BOOLEAN]
    /\ holder \in [Coordinators -> Coordinators \cup {Free}]
    /\ pc \in [Coordinators -> {"idle", "read_wait", "reading", "read", "write_wait", "writing"}]
    /\ source \in [Coordinators -> Coordinators]
    /\ fresh \in [Coordinators -> Snapshots \cup {NoSnapshot}]

(* hass.data[DOMAIN] holds exactly the newest coordinator of each entry    *)
(* that is being forwarded, loaded or not completely unloaded: no failed   *)
(* or cancelled setup leaves a selectable transmitter behind, and a failed *)
(* unload keeps it (__init__.py:35-43 and 52-56).                          *)
CatalogMatchesLifecycle ==
    \A e \in Entries :
       catalog[e] = IF state[e] \in {"not_loaded", "refreshing"} THEN 0 ELSE gen[e]

(* A lock is held exactly by the call that reads its source or writes its  *)
(* receiver: a call never waits for one lock while it holds another, and   *)
(* nothing it can end by leaks one (routing.py:116-146).                   *)
LocksHeldByCalls ==
    \A l, c \in Coordinators :
       holder[l] = c <=>
          \/ pc[c] \in {"reading", "read"} /\ l = source[c]
          \/ pc[c] = "writing" /\ l = c

(* The options a receiver shows are the transmitters it could be routed to *)
(* now, except that one whose platforms are still being set up may be      *)
(* missing and one whose last update failed may linger: every other change *)
(* of catalog or data reaches every select, and no option outlives the     *)
(* coordinator, identity or location it stands for (CHANGELOG.md:28,       *)
(* `Choices track setup, unload and telemetry changes').                   *)
ShownOptionsFresh ==
    \A e \in entity :
       /\ shown[e] \subseteq Transmitters(SelectOf(e))
       /\ \A s \in Sources(SelectOf(e)) \ shown[e] :
             state[s[1]] \in {"forwarding", "forwarded"}

(* When a call goes on to write, the location it read is the one that the  *)
(* registered coordinator of that transmitter publishes, although setup,   *)
(* unload and reload may have run while the read was awaited               *)
(* (routing.py:127-135).                                                   *)
RoutesToPublished ==
    [][\A c \in Coordinators :
          pc[c] = "read" /\ pc'[c] = "write_wait" =>
             LET e == source[c][1] IN
             /\ catalog[e] # 0
             /\ data'[<<e, catalog[e]>>].id = UniqueId[e]
             /\ data'[<<e, catalog[e]>>].loc = fresh[c].loc]_vars

(* Every select call ends, two receivers that route to each other included.*)
SelectsFinish == \A c \in Coordinators : pc[c] # "idle" ~> pc[c] = "idle"
=============================================================================
