---------------------------- MODULE Coordinator -----------------------------
(***************************************************************************)
(* CrestronNvxCoordinator (coordinator.py): one endpoint, one snapshot     *)
(* shown to Home Assistant, and every task that talks to the endpoint      *)
(* queueing on one asyncio.Lock: the 30 s poll, the service calls of the   *)
(* switch, select and button platforms, and the routing reads made by the  *)
(* stream selects of other entries.                                        *)
(*                                                                         *)
(* A step of the model is what runs between two awaits.  The endpoint is   *)
(* a record [id, ver, caps]: the device that answers at the host, the      *)
(* number of changes its state went through, and the controls it offers.   *)
(* A snapshot is the record as it was when the request was served; the     *)
(* step that uses it comes later.                                          *)
(*                                                                         *)
(* External parts, modelled from how coordinator.py uses them: the client  *)
(* library's commands (preflight, one POST, readback), asyncio.Lock, and   *)
(* Home Assistant's DataUpdateCoordinator.                                 *)
(***************************************************************************)
EXTENDS Integers, Sequences, SequencesExt

CONSTANTS
    Devices,      \* device identities that may answer at the entry's host
    UniqueId,     \* the entry's unique_id
    Poller,       \* the task of the scheduled poll
    Callers,      \* one slot per platform: PARALLEL_UPDATES = 1 in each
    Readers,      \* select calls of other entries reading this one's stream
    Commands,     \* the controls of switch.py, select.py and button.py
    Reboot,       \* the one command that reads nothing back
    Route,        \* the write of the stream select
    Profiles,     \* sets of controls an endpoint may offer, busy or not
    NoTask, NoCommand, NoSnapshot,
    MaxVersion    \* bound: changes of the endpoint

ASSUME CoordinatorAssumption ==
    /\ UniqueId \in Devices
    /\ Poller \notin Callers \cup Readers
    /\ Callers \cap Readers = {}
    /\ NoTask \notin {Poller} \cup Callers \cup Readers
    /\ {Reboot, Route} \subseteq Commands
    /\ NoCommand \notin Commands
    /\ Profiles \subseteq SUBSET Commands
    /\ NoSnapshot \notin [id : Devices, ver : Nat, caps : Profiles]
    /\ MaxVersion \in Nat

Tasks == {Poller} \cup Callers \cup Readers

Snapshots == [id : Devices, ver : Nat, caps : Profiles]

VARIABLES
    \* the endpoint
    dev,                \* Snapshots: what a request served now would read
    \* DataUpdateCoordinator
    data,               \* the published snapshot
    lastUpdateSuccess,  \* last_update_success
    shown,              \* availability the entities last wrote to the state machine
    timer,              \* a refresh is scheduled
    reauth,             \* a reauthentication flow was started
    \* CrestronNvxCoordinator
    previewInfo,        \* preview_info is that of a successful read
    holder,             \* who holds _operation_lock
    waiters,            \* its FIFO queue
    \* the tasks
    pc,                 \* where each task is suspended
    cmd,                \* the command of a service call
    got,                \* the snapshot a task has read and not yet used
    previous,           \* previous_update_success of the poll in flight
    wrote,              \* number of the change a service call's POST made, or 0
    acked               \* newest change of a command that returned (history)

hass  == <<data, lastUpdateSuccess, shown, timer>>
lock  == <<holder, waiters>>
local == <<pc, cmd, got, previous, wrote>>
vars  == <<dev, hass, reauth, previewInfo, lock, local, acked>>

(* The awaits at which a task holds the lock.                              *)
PollSteps    == {"snapshot", "preview"}
ReadSteps    == {"snapshot", "publish"}
CommandSteps == {"preflight", "post", "readback", "publish"}
Critical     == PollSteps \cup ReadSteps \cup CommandSteps

-----------------------------------------------------------------------------
(* Coordinator set up and first refresh done; lock free, nobody waiting.   *)
Init ==
    /\ \E caps \in Profiles : dev = [id |-> UniqueId, ver |-> 0, caps |-> caps]
    /\ data = dev
    /\ lastUpdateSuccess = TRUE
    /\ shown = TRUE
    /\ timer = TRUE
    /\ reauth = FALSE
    /\ previewInfo \in BOOLEAN
    /\ holder = NoTask
    /\ waiters = <<>>
    /\ pc = [t \in Tasks |-> "idle"]
    /\ cmd = [t \in Callers |-> NoCommand]
    /\ got = [t \in Tasks |-> NoSnapshot]
    /\ previous = TRUE
    /\ wrote = [t \in Callers |-> 0]
    /\ acked = 0

(* `async with self._operation_lock': join the queue, ...                  *)
Enqueue(t) ==
    /\ waiters' = Append(waiters, t)
    /\ pc' = [pc EXCEPT ![t] = "waiting"]
    /\ UNCHANGED holder

(* Fault: the lock is entered without being free.                          *)
AcquireBusy(t) ==
    /\ waiters # <<>>
    /\ t = Head(waiters)
    /\ holder' = t
    /\ waiters' = Tail(waiters)
    /\ pc' = [pc EXCEPT ![t] = IF t \in Callers THEN "preflight" ELSE "snapshot"]
    /\ UNCHANGED <<dev, hass, reauth, previewInfo, cmd, got, previous, wrote, acked>>

(* ... get the lock in order of arrival, ...                               *)
Acquire(t) ==
    /\ holder = NoTask
    /\ waiters # <<>>
    /\ t = Head(waiters)
    /\ holder' = t
    /\ waiters' = Tail(waiters)
    /\ pc' = [pc EXCEPT ![t] = IF t \in Callers THEN "preflight" ELSE "snapshot"]
    /\ UNCHANGED <<dev, hass, reauth, previewInfo, cmd, got, previous, wrote, acked>>

(* ... and leave the block, by return or by exception, releasing it.       *)
Release(t) ==
    /\ holder' = NoTask
    /\ pc' = [pc EXCEPT ![t] = "idle"]
    /\ got' = [got EXCEPT ![t] = NoSnapshot]
    /\ UNCHANGED waiters

(* DataUpdateCoordinator.async_set_updated_data: the data is replaced, the *)
(* refresh timer restarted and every listener notified, without an await.  *)
SetUpdatedData(snapshot) ==
    /\ data' = snapshot
    /\ lastUpdateSuccess' = TRUE
    /\ shown' = TRUE
    /\ timer' = TRUE

(* A request is served: the task holds what the endpoint is at that moment *)
(* and is suspended at its next await.                                     *)
Serve(t, from, to) ==
    /\ pc[t] = from
    /\ got' = [got EXCEPT ![t] = dev]
    /\ pc' = [pc EXCEPT ![t] = to]

-----------------------------------------------------------------------------
(* The poll.                                                               *)

(* The refresh timer fires.  last_update_success is read here, before the  *)
(* lock is waited for, and compared with its value when the poll ends.     *)
StartPoll ==
    /\ timer
    /\ pc[Poller] = "idle"
    /\ timer' = FALSE
    /\ previous' = lastUpdateSuccess
    /\ Enqueue(Poller)
    /\ UNCHANGED <<dev, data, lastUpdateSuccess, shown, reauth, previewInfo,
                   cmd, got, wrote, acked>>

PollSnapshot ==
    /\ Serve(Poller, "snapshot", "preview")
    /\ UNCHANGED <<dev, hass, reauth, previewInfo, lock, cmd, previous, wrote, acked>>

(* The optional preview is read, or fails with a library error that is     *)
(* swallowed; the snapshot read before it is published either way.         *)
PollFinish ==
    /\ pc[Poller] = "preview"
    /\ previewInfo' \in BOOLEAN
    /\ SetUpdatedData(got[Poller])
    /\ Release(Poller)
    /\ UNCHANGED <<dev, reauth, cmd, previous, wrote, acked>>

(* A failed poll notifies the listeners only if the availability it saw    *)
(* when it started or the one it leaves is TRUE.                           *)
PollEndsUnsuccessfully ==
    /\ lastUpdateSuccess' = FALSE
    /\ shown' = IF previous THEN FALSE ELSE shown
    /\ Release(Poller)
    /\ UNCHANGED <<dev, data, cmd, previous, wrote, acked>>

(* Fault: an error of the snapshot is swallowed as that of the preview is. *)
PollFailsSwallowed ==
    /\ pc[Poller] = "snapshot"
    /\ pc' = [pc EXCEPT ![Poller] = "preview"]
    /\ UNCHANGED <<dev, hass, reauth, previewInfo, lock, cmd, got, previous, wrote, acked>>

(* Fault: a failed poll does not reschedule.                               *)
PollFailsUnscheduled ==
    /\ pc[Poller] = "snapshot"
    /\ PollEndsUnsuccessfully
    /\ UNCHANGED <<timer, reauth, previewInfo>>

(* NvxConnectionError or NvxResponseError becomes UpdateFailed: try again  *)
(* at the next interval.                                                   *)
PollFails ==
    /\ pc[Poller] = "snapshot"
    /\ PollEndsUnsuccessfully
    /\ timer' = TRUE
    /\ UNCHANGED <<reauth, previewInfo>>

(* NvxAuthenticationError becomes ConfigEntryAuthFailed: a                 *)
(* reauthentication flow is started and the timer is not rescheduled.      *)
PollAuthFails ==
    /\ pc[Poller] = "snapshot"
    /\ PollEndsUnsuccessfully
    /\ reauth' = TRUE
    /\ UNCHANGED <<timer, previewInfo>>

(* Any other exception of either read leaves the block and is logged by    *)
(* the base class.                                                         *)
PollCrashes ==
    /\ pc[Poller] \in PollSteps
    /\ PollEndsUnsuccessfully
    /\ timer' = TRUE
    /\ UNCHANGED <<reauth, previewInfo>>

-----------------------------------------------------------------------------
(* Service calls: NvxLedSwitch, NvxVideoSourceSelect, NvxAudioSourceSelect,*)
(* NvxReceiverStreamSelect's write, NvxRebootButton, NvxStreamButton.      *)

(* Availability of the control's entity.                                   *)
Available(c) == lastUpdateSuccess /\ c \in data.caps

(* A control checks that it is available and queues for the lock.  The     *)
(* stream select has read its transmitter in between, and does not check   *)
(* its own availability again (routing.py:92-137).                         *)
StartCommand(t) ==
    /\ pc[t] = "idle"
    /\ \E c \in Commands :
          /\ c # Route => Available(c)
          /\ cmd' = [cmd EXCEPT ![t] = c]
    /\ Enqueue(t)
    /\ UNCHANGED <<dev, hass, reauth, previewInfo, got, previous, wrote, acked>>

(* The client checks identity and capability before it writes.             *)
Preflight(t) ==
    /\ pc[t] = "preflight"
    /\ dev.id = UniqueId
    /\ cmd[t] \in dev.caps
    /\ pc' = [pc EXCEPT ![t] = "post"]
    /\ UNCHANGED <<dev, hass, reauth, previewInfo, lock, cmd, got, previous, wrote, acked>>

(* A value the endpoint already has is not written: the snapshot of the    *)
(* preflight is what the command returns.                                  *)
PreflightNoOp(t) ==
    /\ Serve(t, "preflight", "publish")
    /\ dev.id = UniqueId
    /\ cmd[t] \in dev.caps \ {Reboot}
    /\ UNCHANGED <<dev, hass, reauth, previewInfo, lock, cmd, previous, wrote, acked>>

(* The one POST.  A reboot request changes no setting and reads none back. *)
Post(t) ==
    /\ pc[t] = "post"
    /\ cmd[t] # Reboot
    /\ dev.ver < MaxVersion
    /\ dev' = [dev EXCEPT !.ver = @ + 1]
    /\ wrote' = [wrote EXCEPT ![t] = dev.ver + 1]
    /\ pc' = [pc EXCEPT ![t] = "readback"]
    /\ UNCHANGED <<hass, reauth, previewInfo, lock, cmd, got, previous, acked>>

Readback(t) ==
    /\ Serve(t, "readback", "publish")
    /\ UNCHANGED <<dev, hass, reauth, previewInfo, lock, cmd, previous, wrote, acked>>

(* A call is over: its local variables go with its frame.                  *)
Forget(t) ==
    /\ cmd' = [cmd EXCEPT ![t] = NoCommand]
    /\ wrote' = [wrote EXCEPT ![t] = 0]

(* Fault: a command returns without publishing what it read back.          *)
CommandDoneUnpublished(t) ==
    /\ pc[t] = "publish"
    /\ acked' = IF wrote[t] > acked THEN wrote[t] ELSE acked
    /\ Release(t)
    /\ Forget(t)
    /\ UNCHANGED <<dev, hass, reauth, previewInfo, previous>>

(* async_set_*: publish what was read back and release, without an await.  *)
CommandDone(t) ==
    /\ pc[t] = "publish"
    /\ SetUpdatedData(got[t])
    /\ acked' = IF wrote[t] > acked THEN wrote[t] ELSE acked
    /\ Release(t)
    /\ Forget(t)
    /\ UNCHANGED <<dev, reauth, previewInfo, previous>>

(* async_reboot: the request was accepted; nothing is published.           *)
RebootDone(t) ==
    /\ pc[t] = "post"
    /\ cmd[t] = Reboot
    /\ Release(t)
    /\ Forget(t)
    /\ UNCHANGED <<dev, hass, reauth, previewInfo, previous, acked>>

(* Fault: an exception leaves the block with the lock held.                *)
CommandFailsHoldingLock(t) ==
    /\ pc[t] \in CommandSteps
    /\ reauth' \in {reauth, TRUE}
    /\ pc' = [pc EXCEPT ![t] = "idle"]
    /\ got' = [got EXCEPT ![t] = NoSnapshot]
    /\ Forget(t)
    /\ UNCHANGED <<dev, hass, previewInfo, lock, previous, acked>>

(* A library error at any await of the client: the entity raises, and      *)
(* starts a reauthentication flow if it was an authentication error.  A    *)
(* POST before it may have been applied: the outcome is then unknown.      *)
CommandFails(t) ==
    /\ pc[t] \in CommandSteps
    /\ reauth' \in {reauth, TRUE}
    /\ Release(t)
    /\ Forget(t)
    /\ UNCHANGED <<dev, hass, previewInfo, previous, acked>>

-----------------------------------------------------------------------------
(* async_read_routing_source, called by another entry's stream select.     *)

StartRead(t) ==
    /\ pc[t] = "idle"
    /\ lastUpdateSuccess
    /\ Enqueue(t)
    /\ UNCHANGED <<dev, hass, reauth, previewInfo, cmd, got, previous, wrote, acked>>

ReadSnapshot(t) ==
    /\ Serve(t, "snapshot", "publish")
    /\ UNCHANGED <<dev, hass, reauth, previewInfo, lock, cmd, previous, wrote, acked>>

ReadDone(t) ==
    /\ pc[t] = "publish"
    /\ got[t].id = UniqueId
    /\ SetUpdatedData(got[t])
    /\ Release(t)
    /\ UNCHANGED <<dev, reauth, previewInfo, cmd, previous, wrote, acked>>

(* Another device answered: NvxControlError, nothing is published.         *)
ReadRefused(t) ==
    /\ pc[t] = "publish"
    /\ got[t].id # UniqueId
    /\ Release(t)
    /\ UNCHANGED <<dev, hass, reauth, previewInfo, cmd, previous, wrote, acked>>

(* A library error; routing.py starts this entry's reauthentication if it  *)
(* was an authentication error.                                            *)
ReadFails(t) ==
    /\ pc[t] = "snapshot"
    /\ reauth' \in {reauth, TRUE}
    /\ Release(t)
    /\ UNCHANGED <<dev, hass, previewInfo, cmd, previous, wrote, acked>>

-----------------------------------------------------------------------------
(* A service call's task is cancelled at an await: while it waits for the  *)
(* lock it leaves the queue, ...                                           *)
CancelWaiting(t) ==
    /\ pc[t] = "waiting"
    /\ \E i \in 1 .. Len(waiters) :
          /\ waiters[i] = t
          /\ waiters' = RemoveAt(waiters, i)
    /\ pc' = [pc EXCEPT ![t] = "idle"]
    /\ cmd' = IF t \in Callers THEN [cmd EXCEPT ![t] = NoCommand] ELSE cmd
    /\ UNCHANGED <<dev, hass, reauth, previewInfo, holder, got, previous, wrote, acked>>

(* ... while it talks to the endpoint it releases the lock; a POST already *)
(* sent is not undone.                                                     *)
CancelHolding(t) ==
    /\ pc[t] \in Critical
    /\ Release(t)
    /\ IF t \in Callers THEN Forget(t) ELSE UNCHANGED <<cmd, wrote>>
    /\ UNCHANGED <<dev, hass, reauth, previewInfo, previous, acked>>

(* The endpoint changes without us: its web UI, another controller, a      *)
(* stream that starts processing, an address handed to another device.     *)
DeviceChange ==
    /\ dev.ver < MaxVersion
    /\ \E id \in Devices, caps \in Profiles :
          dev' = [id |-> id, ver |-> dev.ver + 1, caps |-> caps]
    /\ UNCHANGED <<hass, reauth, previewInfo, lock, local, acked>>

-----------------------------------------------------------------------------
Poll == StartPoll \/ PollSnapshot \/ PollFinish \/ PollFails \/ PollAuthFails \/ PollCrashes

Command(t) ==
    \/ StartCommand(t) \/ Preflight(t) \/ PreflightNoOp(t) \/ Post(t) \/ Readback(t)
    \/ CommandDone(t) \/ RebootDone(t) \/ CommandFails(t)

RoutingRead(t) ==
    StartRead(t) \/ ReadSnapshot(t) \/ ReadDone(t) \/ ReadRefused(t) \/ ReadFails(t)

Next ==
    \/ Poll
    \/ \E t \in Tasks : Acquire(t)
    \/ \E t \in Callers : Command(t)
    \/ \E t \in Readers : RoutingRead(t)
    \/ \E t \in Callers \cup Readers : CancelWaiting(t) \/ CancelHolding(t)
    \/ DeviceChange

Spec == Init /\ [][Next]_vars

-----------------------------------------------------------------------------
(* Fairness.  The event loop runs every task that can run, the timer fires *)
(* while it is armed, and the client ends every request, with an answer or *)
(* a timeout.                                                              *)
Progress(t) ==
    \/ t = Poller /\ (PollSnapshot \/ PollFinish \/ PollFails \/ PollAuthFails \/ PollCrashes)
    \/ t \in Callers /\ ( \/ Preflight(t) \/ PreflightNoOp(t) \/ Post(t) \/ Readback(t)
                          \/ CommandDone(t) \/ RebootDone(t) \/ CommandFails(t) )
    \/ t \in Readers /\ (ReadSnapshot(t) \/ ReadDone(t) \/ ReadRefused(t) \/ ReadFails(t))

SchedulerFairness ==
    /\ WF_vars(StartPoll)
    /\ \A t \in Tasks : WF_vars(Acquire(t)) /\ WF_vars(Progress(t))

FairSpec == Spec /\ SchedulerFairness

(* An endpoint that is polled for ever answers some of the polls.          *)
ReachableSpec == FairSpec /\ SF_vars(PollSnapshot) /\ SF_vars(PollFinish)
-----------------------------------------------------------------------------
(* Every variable has its type, and a suspended task is at one of the      *)
(* awaits of its own method, with the values it needs there (coordinator.py*)
(* 56-140: each method binds its snapshot before it publishes it).         *)
StepsOf(t) ==
    IF t = Poller THEN PollSteps ELSE IF t \in Callers THEN CommandSteps ELSE ReadSteps

TypeOK ==
    /\ dev \in Snapshots
    /\ data \in Snapshots
    /\ lastUpdateSuccess \in BOOLEAN
    /\ shown \in BOOLEAN
    /\ timer \in BOOLEAN
    /\ reauth \in BOOLEAN
    /\ previewInfo \in BOOLEAN
    /\ holder \in Tasks \cup {NoTask}
    /\ waiters \in Seq(Tasks)
    /\ pc \in [Tasks -> Critical \cup {"idle", "waiting"}]
    /\ \A t \in Tasks : pc[t] \in StepsOf(t) \cup {"idle", "waiting"}
    /\ cmd \in [Callers -> Commands \cup {NoCommand}]
    /\ got \in [Tasks -> Snapshots \cup {NoSnapshot}]
    /\ \A t \in Tasks : pc[t] \in {"preview", "publish"} => got[t] \in Snapshots
    /\ previous \in BOOLEAN
    /\ wrote \in [Callers -> Nat]
    /\ acked \in Nat

(* The operation lock is held exactly while one task is inside a locked    *)
(* block, and the queue holds exactly the tasks waiting for it, once each: *)
(* no return, exception or cancellation leaks the lock or a place in the   *)
(* queue (coordinator.py: every `async with self._operation_lock').        *)
LockDiscipline ==
    /\ \A t \in Tasks : pc[t] \in Critical <=> holder = t
    /\ \A t \in Tasks : pc[t] = "waiting" <=> \E i \in 1 .. Len(waiters) : waiters[i] = t
    /\ \A i, j \in 1 .. Len(waiters) : waiters[i] = waiters[j] => i = j

(* Nobody overtakes in the queue: of two tasks that wait, the one that came *)
(* later gets the lock later, whoever finishes, fails or is cancelled      *)
(* before, between or after them (the asyncio.Lock of coordinator.py:54).  *)
Before(t, u) == \E i, j \in 1 .. Len(waiters) : i < j /\ waiters[i] = t /\ waiters[j] = u

NoOvertaking ==
    [][\A t, u \in Tasks :
          Before(t, u) /\ pc'[t] = "waiting" => Before(t, u)' \/ pc'[u] = "idle"]_vars

(* What is published is never older than what was published before: a poll *)
(* or routing read that was under way when a command completed cannot      *)
(* bring the state before the command back (tests/test_switch.py,          *)
(* test_poll_cannot_overwrite_later_command).                              *)
NoStalePublish == [][data'.ver >= data.ver]_vars

(* A command that returned is visible: the published snapshot is never     *)
(* older than the last change a returned command made, whatever polls and  *)
(* routing reads publish afterwards.                                       *)
ReadYourWrites == acked <= data.ver

(* The integration never goes silently deaf: a poll is scheduled, under    *)
(* way, or the user was asked for new credentials -- although the timer is *)
(* consumed by one task and rearmed by others.                             *)
PollingContinues == timer \/ pc[Poller] # "idle" \/ reauth

(* When the coordinator considers the endpoint available, so do its        *)
(* entities, whoever recovered it: a poll, a command or a routing read.    *)
RecoveryShown == lastUpdateSuccess => shown

(* README.md:288, `A failed update makes normal entities unavailable': when*)
(* no poll is under way and the last update failed, entities show it.      *)
FailureShown == ~lastUpdateSuccess /\ pc[Poller] = "idle" => ~shown

(* tests/test_routing.py:165, `Wrong endpoint never becomes the configured *)
(* device state': what is published comes from the entry's own endpoint.   *)
OwnEndpoint == data.id = UniqueId

(* Every poll, service call and routing read that was started ends: the    *)
(* FIFO lock starves nobody, whoever fails or is cancelled before it.      *)
OperationsFinish == \A t \in Tasks : pc[t] # "idle" ~> pc[t] = "idle"

(* Once the endpoint stops changing, what Home Assistant shows becomes and *)
(* stays what the endpoint is, whatever failed on the way, unless new      *)
(* credentials were asked for.                                             *)
Converges == <>reauth \/ <>[](data = dev)

(* The coordinator keeps the promise of EndpointView.                      *)
EV == INSTANCE EndpointView WITH truth <- dev.ver, view <- data.ver, acked <- acked
ImplementsEndpointView == EV!Spec

-----------------------------------------------------------------------------
(* The inductive invariant behind NoStalePublish and ReadYourWrites.       *)

(* The view is not ahead of the endpoint, and a snapshot in hand lies      *)
(* between the two.                                                        *)
SnapshotsInOrder ==
    /\ data.ver <= dev.ver
    /\ \A t \in Tasks : pc[t] \in {"preview", "publish"} =>
           data.ver <= got[t].ver /\ got[t].ver <= dev.ver

(* A write is in the endpoint once posted, and in the snapshot once read   *)
(* back.                                                                   *)
WritesInOrder ==
    \A t \in Callers :
       /\ wrote[t] <= dev.ver
       /\ pc[t] = "publish" => wrote[t] <= got[t].ver

IInv == TypeOK /\ LockDiscipline /\ SnapshotsInOrder /\ WritesInOrder /\ ReadYourWrites
=============================================================================
