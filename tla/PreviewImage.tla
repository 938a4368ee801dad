---------------------------- MODULE PreviewImage ----------------------------
(***************************************************************************)
(* The preview of one endpoint (image.py): an entity added when the        *)
(* capability first becomes known, which fetches a JPEG on demand, keeps   *)
(* it for _CACHE_SECONDS and throws it away when an update says that there *)
(* is no preview.  Viewers queue on the entity's own lock; updates of the  *)
(* coordinator come at any moment, also while a fetch is awaited.          *)
(*                                                                         *)
(* A frame is the time it was stored.  preview_info is one of              *)
(* "unsupported", "off" (no path: disabled or no signal) and "on".         *)
(***************************************************************************)
EXTENDS Integers, FiniteSets

CONSTANTS
    Viewers,       \* requests of the image view
    NoFrame, Free,
    CacheSeconds,  \* _CACHE_SECONDS
    MaxTime        \* bound: the clock

ASSUME PreviewAssumption ==
    /\ NoFrame \notin Nat
    /\ Free \notin Viewers
    /\ CacheSeconds \in Nat \ {0}
    /\ MaxTime \in Nat

Infos == {"unsupported", "off", "on"}

VARIABLES
    now,           \* monotonic()
    success, info, \* the coordinator's last_update_success and preview_info
    adds,          \* number of times async_add_entities was called
    removed,       \* async_will_remove_from_hass ran
    frame,         \* _frame
    nextFetch,     \* _next_fetch
    holder,        \* the viewer that holds _lock
    pc,            \* where each viewer's async_image is suspended
    answer,        \* what a viewer's last async_image returned
    known,         \* some update showed the capability (history)
    lastEnd,       \* when the last fetch ended, however, or -CacheSeconds (history)
    abandoned,     \* that fetch was abandoned (history)
    lifted         \* the entity heard that there is no preview since the last
                   \* fetch that was not abandoned (history)

cache == <<frame, nextFetch>>
added == <<adds, known>>
fetch == <<lastEnd, abandoned, lifted>>
vars  == <<now, success, info, added, removed, cache, holder, pc, answer, fetch>>

Available == success /\ info = "on"

Init ==
    /\ now = 0
    /\ success = TRUE
    /\ info \in Infos
    /\ adds = IF info # "unsupported" THEN 1 ELSE 0
    /\ removed = FALSE
    /\ frame = NoFrame
    /\ nextFetch = 0
    /\ holder = Free
    /\ pc = [v \in Viewers |-> "idle"]
    /\ answer = [v \in Viewers |-> NoFrame]
    /\ known = (info # "unsupported")
    /\ lastEnd = -CacheSeconds
    /\ abandoned = FALSE
    /\ lifted = FALSE

-----------------------------------------------------------------------------
(* Fault: every update that sees the capability adds an entity.            *)
DiscoverAgain == adds' = IF info' # "unsupported" THEN adds + 1 ELSE adds

(* discover(): the listener of the platform.                               *)
Discover == adds' = IF adds = 0 /\ info' # "unsupported" THEN 1 ELSE adds

(* Fault: the frame stays, and only the throttle is lifted.                *)
HandleUpdateKeepsFrame ==
    /\ UNCHANGED frame
    /\ nextFetch' = IF Available' THEN nextFetch ELSE 0
    /\ lifted' = (lifted \/ ~Available')

(* _handle_coordinator_update: the entity's own listener.                  *)
HandleUpdate ==
    /\ frame' = IF Available' THEN frame ELSE NoFrame
    /\ nextFetch' = IF Available' THEN nextFetch ELSE 0
    /\ lifted' = (lifted \/ ~Available')

(* A poll, a command or a routing read publishes: both listeners run.      *)
UpdateSucceeds ==
    /\ success' = TRUE
    /\ info' \in Infos
    /\ Discover
    /\ known' = (known \/ info' # "unsupported")
    /\ IF adds = 1 /\ ~removed THEN HandleUpdate ELSE UNCHANGED <<cache, lifted>>
    /\ UNCHANGED <<now, removed, holder, pc, answer, lastEnd, abandoned>>

(* A poll fails, which may be announced or not (Coordinator.tla).          *)
UpdateFails ==
    /\ success' = FALSE
    /\ \/ adds = 1 /\ ~removed /\ HandleUpdate
       \/ UNCHANGED <<cache, lifted>>
    /\ UNCHANGED <<now, info, added, removed, holder, pc, answer, lastEnd, abandoned>>

(* The platform is unloaded.                                               *)
Remove ==
    /\ adds = 1 /\ ~removed
    /\ removed' = TRUE
    /\ frame' = NoFrame
    /\ UNCHANGED <<now, success, info, added, nextFetch, holder, pc, answer, fetch>>

-----------------------------------------------------------------------------
(* async_image.                                                            *)

Request(v) ==
    /\ adds = 1 /\ ~removed
    /\ pc[v] = "idle"
    /\ pc' = [pc EXCEPT ![v] = "waiting"]
    /\ answer' = [answer EXCEPT ![v] = NoFrame]
    /\ UNCHANGED <<now, success, info, added, removed, cache, holder, fetch>>

Return(v, image) ==
    /\ answer' = [answer EXCEPT ![v] = image]
    /\ pc' = [pc EXCEPT ![v] = "idle"]

(* With the lock: no preview, ...                                          *)
AnswerNothing(v) ==
    /\ pc[v] = "waiting" /\ holder = Free
    /\ ~Available
    /\ frame' = NoFrame
    /\ Return(v, NoFrame)
    /\ UNCHANGED <<now, success, info, added, removed, nextFetch, holder, fetch>>

(* Fault: any frame will do, however old.                                  *)
AnswerAnyFrame(v) ==
    /\ pc[v] = "waiting" /\ holder = Free
    /\ Available
    /\ now < nextFetch \/ frame # NoFrame
    /\ Return(v, frame)
    /\ UNCHANGED <<now, success, info, added, removed, cache, holder, fetch>>

(* ... what the last fetch left, a frame or its failure, ...               *)
AnswerCached(v) ==
    /\ pc[v] = "waiting" /\ holder = Free
    /\ Available
    /\ now < nextFetch
    /\ Return(v, frame)
    /\ UNCHANGED <<now, success, info, added, removed, cache, holder, fetch>>

(* Fault: fetches are not serialized.                                      *)
StartFetchUnlocked(v) ==
    /\ pc[v] = "waiting"
    /\ Available
    /\ now >= nextFetch
    /\ holder' = v
    /\ pc' = [pc EXCEPT ![v] = "fetching"]
    /\ UNCHANGED <<now, success, info, added, removed, cache, answer, fetch>>

(* ... or a new fetch.                                                     *)
StartFetch(v) ==
    /\ pc[v] = "waiting" /\ holder = Free
    /\ Available
    /\ now >= nextFetch
    /\ holder' = v
    /\ pc' = [pc EXCEPT ![v] = "fetching"]
    /\ UNCHANGED <<now, success, info, added, removed, cache, answer, fetch>>

(* The end of a fetch that sets the throttle.                              *)
EndFetch(v) ==
    /\ pc[v] = "fetching"
    /\ nextFetch' = now + CacheSeconds
    /\ holder' = Free
    /\ lastEnd' = now
    /\ abandoned' = FALSE
    /\ lifted' = FALSE
    /\ UNCHANGED <<now, success, info, added, removed>>

FetchDone(v) ==
    /\ EndFetch(v)
    /\ frame' = now
    /\ Return(v, frame')

(* Fault: a failed fetch is retried at once.                               *)
FetchFailsUnthrottled(v) ==
    /\ pc[v] = "fetching"
    /\ frame' = NoFrame
    /\ holder' = Free
    /\ lastEnd' = now
    /\ abandoned' = FALSE
    /\ lifted' = FALSE
    /\ Return(v, NoFrame)
    /\ UNCHANGED <<now, success, info, added, removed, nextFetch>>

FetchFails(v) ==
    /\ EndFetch(v)
    /\ frame' = NoFrame
    /\ Return(v, NoFrame)

(* Cancelled by the view's timeout, or an exception that is no NvxApiError:*)
(* the lock is released, and neither the frame nor the throttle is set.    *)
Abandon(v) ==
    /\ pc[v] # "idle"
    /\ holder' = IF holder = v THEN Free ELSE holder
    /\ Return(v, NoFrame)
    /\ IF pc[v] = "fetching" THEN lastEnd' = now /\ abandoned' = TRUE
                             ELSE UNCHANGED <<lastEnd, abandoned>>
    /\ UNCHANGED <<now, success, info, added, removed, cache, lifted>>

Tick ==
    /\ now < MaxTime
    /\ now' = now + 1
    /\ UNCHANGED <<success, info, added, removed, cache, holder, pc, answer, fetch>>

View(v) ==
    \/ Request(v) \/ AnswerNothing(v) \/ AnswerCached(v)
    \/ StartFetch(v) \/ FetchDone(v) \/ FetchFails(v) \/ Abandon(v)

Next ==
    \/ UpdateSucceeds \/ UpdateFails \/ Remove \/ Tick
    \/ \E v \in Viewers : View(v)

Spec == Init /\ [][Next]_vars
-----------------------------------------------------------------------------
(* Every variable has its type.                                            *)
TypeOK ==
    /\ now \in 0 .. MaxTime
    /\ success \in BOOLEAN
    /\ info \in Infos
    /\ adds \in 0 .. 1
    /\ removed \in BOOLEAN
    /\ frame \in 0 .. MaxTime \cup {NoFrame}
    /\ nextFetch \in 0 .. MaxTime + CacheSeconds
    /\ holder \in Viewers \cup {Free}
    /\ pc \in [Viewers -> {"idle", "waiting", "fetching"}]
    /\ answer \in [Viewers -> 0 .. MaxTime \cup {NoFrame}]
    /\ known \in BOOLEAN
    /\ lastEnd \in {-CacheSeconds} \cup 0 .. MaxTime
    /\ abandoned \in BOOLEAN
    /\ lifted \in BOOLEAN

(* The entity is added once when some update showed the capability,        *)
(* however often it comes and goes since, and not at all before            *)
(* (image.py:29-37).                                                       *)
AddedWhenSupported ==
    /\ info # "unsupported" => known
    /\ adds = IF known THEN 1 ELSE 0

(* Simultaneous requests are coalesced: at most one fetch is under way, by *)
(* the viewer that holds the lock, and no way out of it leaks the lock     *)
(* (image.py:68, `coalesce repeated or simultaneous requests').            *)
OneFetch == \A v \in Viewers : pc[v] = "fetching" <=> holder = v

(* A frame that is kept was stored after the last update that said there   *)
(* was no preview (image.py:60-65).                                        *)
NoFrameAcrossOutage == frame # NoFrame => ~lifted

(* No viewer is ever answered with a frame stored _CACHE_SECONDS ago or    *)
(* earlier (CHANGELOG.md:140, `30-second caching').                        *)
AnswersAreRecent ==
    [][\A v \in Viewers :
          answer'[v] # answer[v] /\ answer'[v] # NoFrame => now < answer'[v] + CacheSeconds]_vars

(* Once a request was answered, well or badly, the endpoint is asked again *)
(* only _CACHE_SECONDS after the end of the last request, or after an      *)
(* update that said there was no preview (CHANGELOG.md:140, `failure       *)
(* throttling').  The exception is a request that was abandoned: cancelled *)
(* by the view's timeout, or ended by an exception that is no NvxApiError, *)
(* it leaves no throttle, and the next request follows at once             *)
(* (image.py:75-84).                                                       *)
FetchesThrottled ==
    [][\A v \in Viewers :
          pc[v] # "fetching" /\ pc'[v] = "fetching" =>
             now >= lastEnd + CacheSeconds \/ lifted \/ abandoned]_vars
=============================================================================
