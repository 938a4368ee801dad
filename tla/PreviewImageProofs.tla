------------------------- MODULE PreviewImageProofs -------------------------
(***************************************************************************)
(* The preview's cache and throttle, for any number of viewers, any cache  *)
(* time and any length of the run.                                         *)
(***************************************************************************)
EXTENDS PreviewImage, TLAPS

(* What ties the frame and the throttle to the last fetch.                 *)
CacheFollowsFetch ==
    /\ frame # NoFrame => nextFetch <= frame + CacheSeconds
    /\ ~lifted /\ ~abandoned => nextFetch = lastEnd + CacheSeconds

IInv ==
    TypeOK /\ AddedWhenSupported /\ OneFetch /\ NoFrameAcrossOutage /\ CacheFollowsFetch

(* The first fetch waits for nothing and the cache is empty.               *)
LEMMA InitIInv == Init => IInv
  <1> SUFFICES ASSUME Init PROVE IInv
    OBVIOUS
  <1> USE PreviewAssumption
  <1>1. TypeOK
    <2>1. /\ success \in BOOLEAN /\ removed \in BOOLEAN
          /\ known \in BOOLEAN /\ abandoned \in BOOLEAN /\ lifted \in BOOLEAN
      BY DEF Init
    <2>2. /\ now \in 0 .. MaxTime
          /\ nextFetch \in 0 .. MaxTime + CacheSeconds
          /\ adds \in 0 .. 1
          /\ lastEnd \in {-CacheSeconds} \cup 0 .. MaxTime
      BY DEF Init
    <2>3. /\ frame \in 0 .. MaxTime \cup {NoFrame}
          /\ holder \in Viewers \cup {Free}
          /\ pc \in [Viewers -> {"idle", "waiting", "fetching"}]
          /\ answer \in [Viewers -> 0 .. MaxTime \cup {NoFrame}]
      BY DEF Init
    <2> QED
      BY <2>1, <2>2, <2>3 DEF Init, TypeOK
  <1>2. AddedWhenSupported /\ OneFetch /\ NoFrameAcrossOutage /\ CacheFollowsFetch
    <2>1. CASE info = "unsupported"
      <3>1. ~known /\ adds = 0
        BY <2>1 DEF Init
      <3> QED
        BY <2>1, <3>1
        DEF Init, AddedWhenSupported, OneFetch, NoFrameAcrossOutage, CacheFollowsFetch
    <2>2. CASE info # "unsupported"
      <3>1. known /\ adds = 1
        BY <2>2 DEF Init
      <3> QED
        BY <3>1
        DEF Init, AddedWhenSupported, OneFetch, NoFrameAcrossOutage, CacheFollowsFetch
    <2> QED
      BY <2>1, <2>2
  <1> QED
    BY <1>1, <1>2 DEF IInv

(* The entity's listener, whatever the update says.                        *)
LEMMA HandleUpdateIInv ==
  ASSUME IInv, HandleUpdate
  PROVE  /\ frame' \in 0 .. MaxTime \cup {NoFrame}
         /\ nextFetch' \in 0 .. MaxTime + CacheSeconds
         /\ lifted' \in BOOLEAN
         /\ frame' # NoFrame => ~lifted'
         /\ frame' # NoFrame => nextFetch' <= frame' + CacheSeconds
         /\ ~lifted' /\ ~abandoned => nextFetch' = lastEnd + CacheSeconds
  <1> USE PreviewAssumption
  <1>1. CASE Available'
    BY <1>1 DEF IInv, TypeOK, NoFrameAcrossOutage, CacheFollowsFetch, HandleUpdate
  <1>2. CASE ~Available'
    <2>1. frame' = NoFrame /\ nextFetch' = 0
      BY <1>2 DEF HandleUpdate
    <2>2. lifted' /\ lifted' \in BOOLEAN
      BY <1>2 DEF HandleUpdate
    <2> QED
      BY <2>1, <2>2
  <1> QED
    BY <1>1, <1>2

(* An update of the coordinator, heard by the entity or not.               *)
LEMMA UpdateIInv == ASSUME IInv, UpdateSucceeds \/ UpdateFails PROVE IInv'
  <1> USE PreviewAssumption
  <1>1. /\ frame' \in 0 .. MaxTime \cup {NoFrame}
        /\ nextFetch' \in 0 .. MaxTime + CacheSeconds
        /\ lifted' \in BOOLEAN
        /\ frame' # NoFrame => ~lifted'
        /\ frame' # NoFrame => nextFetch' <= frame' + CacheSeconds
        /\ ~lifted' /\ ~abandoned => nextFetch' = lastEnd + CacheSeconds
    <2>1. CASE HandleUpdate
      BY <2>1, HandleUpdateIInv
    <2>2. CASE UNCHANGED <<cache, lifted>>
      BY <2>2 DEF IInv, TypeOK, NoFrameAcrossOutage, CacheFollowsFetch, cache
    <2> QED
      BY <2>1, <2>2 DEF UpdateSucceeds, UpdateFails
  <1>2. /\ adds' \in 0 .. 1
        /\ info' \in Infos
        /\ success' \in BOOLEAN
        /\ known' \in BOOLEAN
        /\ info' # "unsupported" => known'
        /\ adds' = IF known' THEN 1 ELSE 0
    <2>1. success' \in BOOLEAN
      BY DEF UpdateSucceeds, UpdateFails
    <2>2. CASE UpdateSucceeds
      <3>1. info' \in Infos /\ known' \in BOOLEAN
        BY <2>2 DEF UpdateSucceeds
      <3>2. known' <=> known \/ info' # "unsupported"
        BY <2>2 DEF UpdateSucceeds
      <3>3. adds' = IF adds = 0 /\ info' # "unsupported" THEN 1 ELSE adds
        BY <2>2 DEF UpdateSucceeds, Discover
      <3>4. adds = IF known THEN 1 ELSE 0
        BY DEF IInv, AddedWhenSupported
      <3>5. CASE known
        <4>1. adds = 1 /\ adds' = 1 /\ known'
          BY <3>2, <3>3, <3>4, <3>5
        <4> QED
          BY <2>1, <3>1, <4>1
      <3>6. CASE ~known
        <4>1. adds' = IF known' THEN 1 ELSE 0
          BY <3>2, <3>3, <3>4, <3>6
        <4>2. info' # "unsupported" => known'
          BY <3>2
        <4>3. adds' \in 0 .. 1
          BY <4>1
        <4> QED
          BY <2>1, <3>1, <4>1, <4>2, <4>3
      <3> QED
        BY <3>5, <3>6
    <2>3. CASE UpdateFails
      BY <2>1, <2>3 DEF IInv, TypeOK, AddedWhenSupported, UpdateFails, added
    <2> QED
      BY <2>2, <2>3
  <1>3. UNCHANGED <<now, removed, holder, pc, answer, lastEnd, abandoned>>
    BY DEF UpdateSucceeds, UpdateFails
  <1> QED
    BY <1>1, <1>2, <1>3
    DEF IInv, TypeOK, AddedWhenSupported, OneFetch, NoFrameAcrossOutage, CacheFollowsFetch

(* What a viewer does, step by step.                                       *)
LEMMA ViewIInv == ASSUME IInv, NEW v \in Viewers, View(v) PROVE IInv'
  <1> USE PreviewAssumption
      DEF IInv, TypeOK, AddedWhenSupported, OneFetch, NoFrameAcrossOutage, CacheFollowsFetch
  <1>1. CASE Request(v)
    BY <1>1 DEF Request, cache, added, fetch
  <1>2. CASE AnswerNothing(v)
    BY <1>2 DEF AnswerNothing, Return, added, fetch
  <1>3. CASE AnswerCached(v)
    BY <1>3 DEF AnswerCached, Return, cache, added, fetch
  <1>4. CASE StartFetch(v)
    BY <1>4 DEF StartFetch, cache, added, fetch
  <1>5. CASE FetchDone(v) \/ FetchFails(v)
    <2>1. UNCHANGED <<now, success, info, adds, known, removed>>
      BY <1>5 DEF FetchDone, FetchFails, EndFetch, added
    <2>2. /\ nextFetch' = now + CacheSeconds
          /\ lastEnd' = now
          /\ abandoned' = FALSE
          /\ lifted' = FALSE
          /\ frame' \in {now, NoFrame}
      BY <1>5 DEF FetchDone, FetchFails, EndFetch
    <2>3. TypeOK'
      <3>1. answer' \in [Viewers -> 0 .. MaxTime \cup {NoFrame}]
        BY <1>5 DEF FetchDone, FetchFails, EndFetch, Return
      <3>2. pc' \in [Viewers -> {"idle", "waiting", "fetching"}] /\ holder' = Free
        BY <1>5 DEF FetchDone, FetchFails, EndFetch, Return
      <3>3. lifted' \in BOOLEAN /\ abandoned' \in BOOLEAN /\ success' \in BOOLEAN /\ removed' \in BOOLEAN
        BY <2>1, <2>2
      <3>4. /\ frame' \in 0 .. MaxTime \cup {NoFrame}
            /\ nextFetch' \in 0 .. MaxTime + CacheSeconds
            /\ lastEnd' \in {-CacheSeconds} \cup 0 .. MaxTime
        BY <2>2
      <3> QED
        BY <2>1, <3>1, <3>2, <3>3, <3>4
    <2>4. OneFetch'
      BY <1>5 DEF FetchDone, FetchFails, EndFetch, Return
    <2>5. AddedWhenSupported'
      BY <2>1
    <2>6. NoFrameAcrossOutage'
      BY <2>2
    <2>7. CacheFollowsFetch'
      <3>1. frame' # NoFrame => nextFetch' <= frame' + CacheSeconds
        <4>1. now + CacheSeconds <= now + CacheSeconds
          OBVIOUS
        <4> QED
          BY <4>1, <2>2, Zenon
      <3>2. nextFetch' = lastEnd' + CacheSeconds
        BY <2>2
      <3> QED
        BY <3>1, <3>2
    <2> QED
      BY <2>3, <2>4, <2>5, <2>6, <2>7
  <1>6. CASE Abandon(v)
    BY <1>6 DEF Abandon, Return, cache, added
  <1> QED
    BY <1>1, <1>2, <1>3, <1>4, <1>5, <1>6 DEF View

(* Every step keeps the invariant.                                         *)
LEMMA StepIInv == IInv /\ [Next]_vars => IInv'
  <1> SUFFICES ASSUME IInv, [Next]_vars PROVE IInv'
    OBVIOUS
  <1>1. CASE UpdateSucceeds \/ UpdateFails
    BY <1>1, UpdateIInv
  <1>2. CASE Remove
    BY <1>2, PreviewAssumption
    DEF Remove, added, fetch, IInv, TypeOK, AddedWhenSupported, OneFetch, NoFrameAcrossOutage, CacheFollowsFetch
  <1>3. CASE Tick
    BY <1>3, PreviewAssumption
    DEF Tick, cache, added, fetch, IInv, TypeOK, AddedWhenSupported, OneFetch, NoFrameAcrossOutage, CacheFollowsFetch
  <1>4. CASE \E v \in Viewers : View(v)
    BY <1>4, ViewIInv
  <1>5. CASE UNCHANGED vars
    BY <1>5 DEF vars, cache, added, fetch, IInv, TypeOK, AddedWhenSupported, OneFetch, NoFrameAcrossOutage, CacheFollowsFetch
  <1> QED
    BY <1>1, <1>2, <1>3, <1>4, <1>5 DEF Next

(* Hence it holds in every reachable state.                                *)
LEMMA Inductive == Spec => []IInv
  BY InitIInv, StepIInv, PTL DEF Spec

(* Every reachable state is well typed, and the entity is added at most    *)
(* once (image.py:29-37, 46-53).                                           *)
THEOREM TypeCorrect == Spec => []TypeOK
  <1>1. IInv => TypeOK
    BY DEF IInv
  <1> QED
    BY <1>1, Inductive, PTL

(* At most one fetch is under way, and it holds the lock (image.py:67-85). *)
THEOREM FetchesCoalesce == Spec => []OneFetch
  <1>1. IInv => OneFetch
    BY DEF IInv
  <1> QED
    BY <1>1, Inductive, PTL

(* The entity is added once when some update showed the capability, and    *)
(* not at all before (image.py:29-37).                                     *)
THEOREM AddedOnce == Spec => []AddedWhenSupported
  <1>1. IInv => AddedWhenSupported
    BY DEF IInv
  <1> QED
    BY <1>1, Inductive, PTL

(* No frame is kept across an update without a preview (image.py:60-65).   *)
THEOREM FramesEndWithOutage == Spec => []NoFrameAcrossOutage
  <1>1. IInv => NoFrameAcrossOutage
    BY DEF IInv
  <1> QED
    BY <1>1, Inductive, PTL

(* After a request that was answered, well or badly, the endpoint is not   *)
(* asked again within the cache time unless an update said in between that *)
(* there was no preview; an abandoned request delays nothing               *)
(* (image.py:73-84).                                                       *)
THEOREM Throttle == Spec => FetchesThrottled
  <1>1. IInv /\ [Next]_vars =>
          [\A v \in Viewers :
             pc[v] # "fetching" /\ pc'[v] = "fetching" =>
               now >= lastEnd + CacheSeconds \/ lifted \/ abandoned]_vars
    <2> SUFFICES ASSUME IInv, Next, NEW v \in Viewers, pc[v] # "fetching", pc'[v] = "fetching"
                 PROVE  now >= lastEnd + CacheSeconds \/ lifted \/ abandoned
      OBVIOUS
    <2>1. PICK w \in Viewers : View(w)
      BY DEF Next, UpdateSucceeds, UpdateFails, Remove, Tick
    <2>2. StartFetch(w)
      BY <2>1 DEF View, Request, AnswerNothing, AnswerCached, FetchDone, FetchFails, EndFetch,
                  Abandon, Return, IInv, TypeOK
    <2> QED
      BY <2>2, PreviewAssumption DEF StartFetch, IInv, TypeOK, CacheFollowsFetch
  <1> QED
    BY <1>1, Inductive, PTL DEF Spec, FetchesThrottled

(* No viewer is answered with a frame older than the cache time            *)
(* (image.py:73-85).                                                       *)
THEOREM Recent == Spec => AnswersAreRecent
  <1>1. IInv /\ [Next]_vars =>
          [\A v \in Viewers :
             answer'[v] # answer[v] /\ answer'[v] # NoFrame => now < answer'[v] + CacheSeconds]_vars
    <2> SUFFICES ASSUME IInv, Next, NEW v \in Viewers,
                        answer'[v] # answer[v], answer'[v] # NoFrame
                 PROVE  now < answer'[v] + CacheSeconds
      OBVIOUS
    <2>1. PICK w \in Viewers : View(w)
      BY DEF Next, UpdateSucceeds, UpdateFails, Remove, Tick
    <2>2. CASE AnswerCached(w)
      <3>1. answer'[v] = frame /\ now < nextFetch
        BY <2>2 DEF AnswerCached, Return, IInv, TypeOK
      <3>2. frame # NoFrame /\ frame \in 0 .. MaxTime
        BY <3>1 DEF IInv, TypeOK
      <3>3. nextFetch <= frame + CacheSeconds
        BY <3>2 DEF IInv, CacheFollowsFetch
      <3> QED
        BY <3>1, <3>2, <3>3, PreviewAssumption DEF IInv, TypeOK
    <2>3. CASE FetchDone(w)
      <3>1. answer'[v] = now
        BY <2>3 DEF FetchDone, Return, IInv, TypeOK
      <3> QED
        BY <3>1, PreviewAssumption DEF IInv, TypeOK
    <2>4. AnswerCached(w) \/ FetchDone(w)
      BY <2>1 DEF View, Request, AnswerNothing, StartFetch, FetchFails, Abandon, Return,
                  IInv, TypeOK
    <2> QED
      BY <2>2, <2>3, <2>4
  <1> QED
    BY <1>1, Inductive, PTL DEF Spec, AnswersAreRecent
=============================================================================
