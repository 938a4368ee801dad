------------------------- MODULE CoordinatorProofs --------------------------
(***************************************************************************)
(* Coordinator's safety, for any set of callers, readers, devices and      *)
(* controls and any number of changes of the endpoint.                     *)
(***************************************************************************)
EXTENDS Coordinator, TLAPS, SequenceTheorems

(* The steps of a poll keep the types.                                     *)
LEMMA PollTypes ==
    ASSUME TypeOK, Poll
    PROVE  TypeOK'
<1> USE CoordinatorAssumption
    DEF TypeOK, Tasks, Snapshots, StepsOf, PollSteps, ReadSteps, CommandSteps, Critical,
        hass, lock, local, Enqueue, Release, SetUpdatedData, Serve, PollEndsUnsuccessfully
<1>1. CASE StartPoll
  <2>1. waiters' \in Seq(Tasks)
    BY <1>1 DEF StartPoll
  <2>2. previous' \in BOOLEAN /\ timer' \in BOOLEAN
    BY <1>1 DEF StartPoll
  <2>3. /\ pc' \in [Tasks -> Critical \cup {"idle", "waiting"}]
        /\ \A t \in Tasks : pc'[t] \in StepsOf(t) \cup {"idle", "waiting"}
        /\ \A t \in Tasks : pc'[t] \in {"preview", "publish"} => got'[t] \in Snapshots
    BY <1>1 DEF StartPoll
  <2>4. QED
    BY <1>1, <2>1, <2>2, <2>3 DEF StartPoll
<1>2. CASE PollSnapshot
  BY <1>2 DEF PollSnapshot
<1>3. CASE PollFinish
  BY <1>3 DEF PollFinish
<1>4. CASE PollFails
  BY <1>4 DEF PollFails
<1>5. CASE PollAuthFails
  BY <1>5 DEF PollAuthFails
<1>6. CASE PollCrashes
  BY <1>6 DEF PollCrashes
<1>7. QED
  BY <1>1, <1>2, <1>3, <1>4, <1>5, <1>6 DEF Poll

(* A POST keeps the types.                                                 *)
LEMMA PostTypes ==
    ASSUME TypeOK, NEW t \in Callers, Post(t)
    PROVE  TypeOK'
<1>1. dev' \in Snapshots
  <2>1. dev.ver + 1 \in Nat /\ dev.id \in Devices /\ dev.caps \in Profiles
    BY DEF TypeOK, Snapshots
  <2>2. dev' = [id |-> dev.id, ver |-> dev.ver + 1, caps |-> dev.caps]
    BY DEF Post, TypeOK, Snapshots
  <2>3. QED
    BY <2>1, <2>2 DEF Snapshots
<1>2. wrote' \in [Callers -> Nat]
  <2>1. dev.ver + 1 \in Nat
    BY DEF TypeOK, Snapshots
  <2>2. QED
    BY <2>1 DEF Post, TypeOK
<1>3. /\ pc' \in [Tasks -> Critical \cup {"idle", "waiting"}]
      /\ \A u \in Tasks : pc'[u] \in StepsOf(u) \cup {"idle", "waiting"}
      /\ \A u \in Tasks : pc'[u] \in {"preview", "publish"} => got'[u] \in Snapshots
  BY CoordinatorAssumption
  DEF Post, TypeOK, Tasks, StepsOf, PollSteps, ReadSteps, CommandSteps, Critical
<1>4. QED
  BY <1>1, <1>2, <1>3 DEF Post, TypeOK, hass, lock

(* The other steps of a service call keep the types.                       *)
LEMMA CommandTypes ==
    ASSUME TypeOK, NEW t \in Callers, Command(t)
    PROVE  TypeOK'
<1> USE CoordinatorAssumption
    DEF TypeOK, Tasks, Snapshots, StepsOf, PollSteps, ReadSteps, CommandSteps, Critical,
        hass, lock, local, Enqueue, Release, SetUpdatedData, Serve, Forget
<1>1. CASE StartCommand(t)
  BY <1>1 DEF StartCommand
<1>2. CASE Preflight(t)
  BY <1>2 DEF Preflight
<1>3. CASE PreflightNoOp(t)
  BY <1>3 DEF PreflightNoOp
<1>4. CASE Post(t)
  BY <1>4, PostTypes
<1>5. CASE Readback(t)
  BY <1>5 DEF Readback
<1>6. CASE CommandDone(t)
  BY <1>6 DEF CommandDone
<1>7. CASE RebootDone(t)
  BY <1>7 DEF RebootDone
<1>8. CASE CommandFails(t)
  BY <1>8 DEF CommandFails
<1>9. QED
  BY <1>1, <1>2, <1>3, <1>4, <1>5, <1>6, <1>7, <1>8 DEF Command

(* The steps of a routing read keep the types.                             *)
LEMMA ReadTypes ==
    ASSUME TypeOK, NEW t \in Readers, RoutingRead(t)
    PROVE  TypeOK'
<1> USE CoordinatorAssumption
    DEF TypeOK, Tasks, Snapshots, StepsOf, PollSteps, ReadSteps, CommandSteps, Critical,
        hass, lock, local, Enqueue, Release, SetUpdatedData, Serve
<1>1. CASE StartRead(t)
  BY <1>1 DEF StartRead
<1>2. CASE ReadSnapshot(t)
  BY <1>2 DEF ReadSnapshot
<1>3. CASE ReadDone(t)
  BY <1>3 DEF ReadDone
<1>4. CASE ReadRefused(t)
  BY <1>4 DEF ReadRefused
<1>5. CASE ReadFails(t)
  BY <1>5 DEF ReadFails
<1>6. QED
  BY <1>1, <1>2, <1>3, <1>4, <1>5 DEF RoutingRead

(* The initial states are well typed.                                      *)
LEMMA InitTypes == Init => TypeOK
<1> SUFFICES ASSUME Init
             PROVE  TypeOK
  OBVIOUS
<1>1. dev \in Snapshots /\ data \in Snapshots
  BY CoordinatorAssumption DEF Init, Snapshots
<1>2. waiters \in Seq(Tasks) /\ holder \in Tasks \cup {NoTask}
  BY DEF Init
<1>3. QED
  BY <1>1, <1>2 DEF Init, TypeOK, Critical

(* Every step keeps the types.                                             *)
LEMMA StepTypes == TypeOK /\ [Next]_vars => TypeOK'
<1> SUFFICES ASSUME TypeOK, [Next]_vars
             PROVE  TypeOK'
  OBVIOUS
<1>1. CASE Poll
  BY <1>1, PollTypes
<1>2. ASSUME NEW t \in Tasks, Acquire(t)
      PROVE  TypeOK'
  BY <1>2, CoordinatorAssumption
  DEF Acquire, TypeOK, Tasks, Snapshots, StepsOf, PollSteps, ReadSteps, CommandSteps,
      Critical, hass
<1>3. ASSUME NEW t \in Callers, Command(t)
      PROVE  TypeOK'
  BY <1>3, CommandTypes
<1>4. ASSUME NEW t \in Readers, RoutingRead(t)
      PROVE  TypeOK'
  BY <1>4, ReadTypes
<1>5. ASSUME NEW t \in Callers \cup Readers, CancelWaiting(t)
      PROVE  TypeOK'
  <2>1. waiters' \in Seq(Tasks)
    BY <1>5 DEF CancelWaiting, TypeOK, RemoveAt
  <2>2. cmd' \in [Callers -> Commands \cup {NoCommand}]
    BY <1>5 DEF CancelWaiting, TypeOK
  <2>3. QED
    BY <1>5, <2>1, <2>2, CoordinatorAssumption
    DEF CancelWaiting, TypeOK, Tasks, StepsOf, PollSteps, ReadSteps, CommandSteps,
        Critical, hass
<1>6. ASSUME NEW t \in Callers \cup Readers, CancelHolding(t)
      PROVE  TypeOK'
  <2>1. /\ cmd' \in [Callers -> Commands \cup {NoCommand}]
        /\ wrote' \in [Callers -> Nat]
    BY <1>6 DEF CancelHolding, Forget, TypeOK
  <2>2. QED
    BY <1>6, <2>1, CoordinatorAssumption
    DEF CancelHolding, Release, TypeOK, Tasks, StepsOf, PollSteps, ReadSteps,
        CommandSteps, Critical, hass
<1>7. CASE DeviceChange
  BY <1>7 DEF DeviceChange, TypeOK, Snapshots, hass, lock, local
<1>8. CASE UNCHANGED vars
  BY <1>8 DEF TypeOK, vars, hass, lock, local
<1>9. QED
  BY <1>1, <1>2, <1>3, <1>4, <1>5, <1>6, <1>7, <1>8 DEF Next

(* Every variable keeps its type, and a task that publishes has a snapshot *)
(* to publish (coordinator.py 56-140).                                     *)
THEOREM TypeCorrect == Spec => []TypeOK
  BY InitTypes, StepTypes, PTL DEF Spec

-----------------------------------------------------------------------------
(* The lock: one lemma per way a step touches it.                          *)

(* A task joins the queue.                                                 *)
LEMMA EnqueueLock ==
    ASSUME TypeOK, LockDiscipline, NEW t \in Tasks, pc[t] = "idle", Enqueue(t)
    PROVE  LockDiscipline'
<1> DEFINE n == Len(waiters)
<1>1. /\ n \in Nat
      /\ Len(waiters') = n + 1
      /\ \A i \in 1 .. n : waiters'[i] = waiters[i] /\ waiters[i] \in Tasks
      /\ waiters'[n + 1] = t
  BY DEF Enqueue, TypeOK
<1>2. /\ pc'[t] = "waiting"
      /\ \A u \in Tasks \ {t} : pc'[u] = pc[u]
      /\ holder' = holder
  BY DEF Enqueue, TypeOK
<1>3. \A i \in 1 .. n : waiters[i] # t
  BY <1>1 DEF LockDiscipline
<1> HIDE DEF n
<1>4. \A u \in Tasks : pc'[u] \in Critical <=> holder' = u
  BY <1>2 DEF LockDiscipline, Critical, PollSteps, ReadSteps, CommandSteps
<1>5. \A u \in Tasks : pc'[u] = "waiting" <=> \E i \in 1 .. Len(waiters') : waiters'[i] = u
  <2>1. ASSUME NEW u \in Tasks, u # t
        PROVE  pc'[u] = "waiting" <=> \E i \in 1 .. Len(waiters') : waiters'[i] = u
    <3>1. pc[u] = "waiting" <=> \E i \in 1 .. n : waiters[i] = u
      BY DEF LockDiscipline, n
    <3>2. (\E i \in 1 .. n : waiters[i] = u) <=> \E i \in 1 .. n + 1 : waiters'[i] = u
      BY <1>1, <2>1
    <3>3. QED
      BY <1>1, <1>2, <2>1, <3>1, <3>2
  <2>2. \E i \in 1 .. Len(waiters') : waiters'[i] = t
    BY <1>1
  <2>3. QED
    BY <1>2, <2>1, <2>2
<1>6. \A i, j \in 1 .. Len(waiters') : waiters'[i] = waiters'[j] => i = j
  BY <1>1, <1>3 DEF LockDiscipline, n
<1>7. QED
  BY <1>4, <1>5, <1>6 DEF LockDiscipline

(* The head of the queue gets the lock.                                    *)
LEMMA AcquireLock ==
    ASSUME TypeOK, LockDiscipline, NEW t \in Tasks, Acquire(t)
    PROVE  LockDiscipline'
<1> DEFINE n == Len(waiters)
<1>1. /\ n \in Nat \ {0}
      /\ waiters[1] = t
      /\ Len(waiters') = n - 1
      /\ \A i \in 1 .. n - 1 : waiters'[i] = waiters[i + 1]
  BY DEF Acquire, TypeOK
<1>2. /\ pc'[t] \in Critical
      /\ \A u \in Tasks \ {t} : pc'[u] = pc[u]
      /\ holder = NoTask
      /\ holder' = t
  BY DEF Acquire, TypeOK, Critical, PollSteps, ReadSteps, CommandSteps
<1> HIDE DEF n
<1>3. \A u \in Tasks : pc'[u] \in Critical <=> holder' = u
  BY <1>2, CoordinatorAssumption DEF LockDiscipline, Tasks
<1>4. \A i \in 1 .. n - 1 : waiters'[i] # t
  BY <1>1 DEF LockDiscipline, n
<1>5. \A u \in Tasks : pc'[u] = "waiting" <=> \E i \in 1 .. Len(waiters') : waiters'[i] = u
  <2>1. ASSUME NEW u \in Tasks, u # t
        PROVE  pc'[u] = "waiting" <=> \E i \in 1 .. Len(waiters') : waiters'[i] = u
    <3>1. pc[u] = "waiting" <=> \E i \in 1 .. n : waiters[i] = u
      BY DEF LockDiscipline, n
    <3>2. ASSUME NEW i \in 1 .. n, waiters[i] = u
          PROVE  \E j \in 1 .. n - 1 : waiters'[j] = u
      <4>1. i - 1 \in 1 .. n - 1
        BY <1>1, <2>1, <3>2
      <4>2. waiters'[i - 1] = u
        BY <1>1, <3>2, <4>1
      <4>3. QED
        BY <4>1, <4>2
    <3>3. ASSUME NEW j \in 1 .. n - 1, waiters'[j] = u
          PROVE  \E i \in 1 .. n : waiters[i] = u
      BY <1>1, <3>3
    <3>4. QED
      BY <1>1, <1>2, <2>1, <3>1, <3>2, <3>3
  <2>2. pc'[t] # "waiting"
    BY <1>2 DEF Critical, PollSteps, ReadSteps, CommandSteps
  <2>3. QED
    BY <1>1, <1>4, <2>1, <2>2
<1>6. \A i, j \in 1 .. Len(waiters') : waiters'[i] = waiters'[j] => i = j
  <2>1. ASSUME NEW i \in 1 .. n - 1, NEW j \in 1 .. n - 1, waiters'[i] = waiters'[j]
        PROVE  i = j
    <3>1. i + 1 \in 1 .. n /\ j + 1 \in 1 .. n /\ waiters[i + 1] = waiters[j + 1]
      BY <1>1, <2>1
    <3>2. i + 1 = j + 1
      BY <3>1 DEF LockDiscipline, n
    <3>3. QED
      BY <3>2
  <2>2. QED
    BY <1>1, <2>1
<1>7. QED
  BY <1>3, <1>5, <1>6 DEF LockDiscipline

(* The holder leaves its locked block.                                     *)
LEMMA ReleaseLock ==
    ASSUME TypeOK, LockDiscipline, NEW t \in Tasks, pc[t] \in Critical, Release(t)
    PROVE  LockDiscipline'
<1>1. /\ pc'[t] = "idle"
      /\ \A u \in Tasks \ {t} : pc'[u] = pc[u]
      /\ holder = t
      /\ holder' = NoTask
      /\ waiters' = waiters
  BY DEF Release, TypeOK, LockDiscipline
<1>2. \A u \in Tasks : pc'[u] \in Critical <=> holder' = u
  BY <1>1, CoordinatorAssumption
  DEF LockDiscipline, Tasks, Critical, PollSteps, ReadSteps, CommandSteps
<1>3. \A u \in Tasks : pc'[u] = "waiting" <=> pc[u] = "waiting"
  BY <1>1 DEF Critical, PollSteps, ReadSteps, CommandSteps
<1>4. QED
  BY <1>1, <1>2, <1>3 DEF LockDiscipline

(* A task goes from one await inside its locked block to the next.         *)
LEMMA HoldLock ==
    ASSUME TypeOK, LockDiscipline, NEW t \in Tasks, NEW s \in Critical,
           pc[t] \in Critical, pc' = [pc EXCEPT ![t] = s], UNCHANGED lock
    PROVE  LockDiscipline'
<1>1. /\ pc'[t] = s
      /\ \A u \in Tasks \ {t} : pc'[u] = pc[u]
      /\ holder' = holder
      /\ waiters' = waiters
  BY DEF TypeOK, lock
<1>2. \A u \in Tasks : pc'[u] \in Critical <=> pc[u] \in Critical
  BY <1>1
<1>3. \A u \in Tasks : pc'[u] = "waiting" <=> pc[u] = "waiting"
  BY <1>1 DEF Critical, PollSteps, ReadSteps, CommandSteps
<1>4. QED
  BY <1>1, <1>2, <1>3 DEF LockDiscipline

(* A queue one of whose places is given up.                                *)
LEMMA RemoveAtFacts ==
    ASSUME NEW S, NEW w \in Seq(S), NEW k \in 1 .. Len(w)
    PROVE  /\ Len(RemoveAt(w, k)) = Len(w) - 1
           /\ \A i \in 1 .. Len(w) - 1 :
                 RemoveAt(w, k)[i] = IF i < k THEN w[i] ELSE w[i + 1]
<1> DEFINE n     == Len(w)
           rest  == RemoveAt(w, k)
           front == SubSeq(w, 1, k - 1)
           back  == SubSeq(w, k + 1, n)
<1>1. n \in Nat /\ k \in 1 .. n /\ w \in Seq(S)
  OBVIOUS
<1>2. /\ front \in Seq(S) /\ Len(front) = k - 1
      /\ \A i \in 1 .. k - 1 : front[i] = w[i]
  BY <1>1
<1>3. /\ back \in Seq(S) /\ Len(back) = n - k
      /\ \A i \in 1 .. n - k : back[i] = w[k + i]
  BY <1>1
<1>4. rest = front \o back
  BY DEF RemoveAt
<1> HIDE DEF front, back, rest
<1>5. /\ Len(rest) = Len(front) + Len(back)
      /\ \A i \in 1 .. Len(front) + Len(back) :
            rest[i] = IF i <= Len(front) THEN front[i] ELSE back[i - Len(front)]
  BY <1>2, <1>3, <1>4, ConcatProperties
<1>6. ASSUME NEW i \in 1 .. n - 1
      PROVE  rest[i] = IF i < k THEN w[i] ELSE w[i + 1]
  <2>1. CASE i < k
    <3>1. i \in 1 .. k - 1 /\ i \in 1 .. Len(front) + Len(back) /\ i <= Len(front)
      BY <1>1, <1>2, <1>3, <2>1
    <3>2. rest[i] = front[i] /\ front[i] = w[i]
      BY <1>2, <1>5, <3>1
    <3>3. QED
      BY <2>1, <3>2
  <2>2. CASE ~(i < k)
    <3>1. i - (k - 1) \in 1 .. n - k /\ k + (i - (k - 1)) = i + 1
      BY <1>1, <2>2
    <3>2. i \in 1 .. Len(front) + Len(back) /\ Len(front) = k - 1 /\ ~(i <= Len(front))
      BY <1>1, <1>2, <1>3, <2>2
    <3>3. rest[i] = back[i - (k - 1)]
      BY <1>5, <3>2
    <3>4. QED
      BY <1>3, <2>2, <3>1, <3>3
  <2>3. QED
    BY <2>1, <2>2
<1>7. Len(rest) = n - 1
  BY <1>1, <1>2, <1>3, <1>5
<1>8. QED
  BY <1>6, <1>7 DEF rest

(* A waiting task leaves the queue, wherever in it it is.                  *)
LEMMA CancelLock ==
    ASSUME TypeOK, LockDiscipline, NEW t \in Callers \cup Readers, CancelWaiting(t)
    PROVE  LockDiscipline'
<1> DEFINE n == Len(waiters)
<1> t \in Tasks
  BY DEF Tasks
<1>1. PICK k \in 1 .. n : waiters[k] = t /\ waiters' = RemoveAt(waiters, k)
  BY DEF CancelWaiting
<1>2. /\ n \in Nat
      /\ Len(waiters') = n - 1
      /\ \A i \in 1 .. n - 1 : waiters'[i] = IF i < k THEN waiters[i] ELSE waiters[i + 1]
  <2>1. waiters \in Seq(Tasks) /\ n \in Nat
    BY DEF TypeOK
  <2>2. QED
    BY <1>1, <2>1, RemoveAtFacts
<1>3. /\ pc[t] = "waiting"
      /\ pc'[t] = "idle"
      /\ \A u \in Tasks \ {t} : pc'[u] = pc[u]
      /\ holder' = holder
  BY DEF CancelWaiting, TypeOK
<1> HIDE DEF n
<1>4. \A u \in Tasks : pc'[u] \in Critical <=> holder' = u
  BY <1>3 DEF LockDiscipline, Critical, PollSteps, ReadSteps, CommandSteps
<1>5. \A i \in 1 .. n - 1 : waiters'[i] # t
  BY <1>1, <1>2 DEF LockDiscipline, n
<1>6. \A u \in Tasks : pc'[u] = "waiting" <=> \E i \in 1 .. Len(waiters') : waiters'[i] = u
  <2>1. ASSUME NEW u \in Tasks, u # t
        PROVE  pc'[u] = "waiting" <=> \E i \in 1 .. Len(waiters') : waiters'[i] = u
    <3>1. pc[u] = "waiting" <=> \E i \in 1 .. n : waiters[i] = u
      BY DEF LockDiscipline, n
    <3>2. ASSUME NEW i \in 1 .. n, waiters[i] = u
          PROVE  \E j \in 1 .. n - 1 : waiters'[j] = u
      <4>1. CASE i < k
        BY <1>1, <1>2, <3>2, <4>1
      <4>2. CASE i > k
        <5>1. i - 1 \in 1 .. n - 1 /\ ~(i - 1 < k)
          BY <1>2, <4>2
        <5>2. QED
          BY <1>2, <3>2, <5>1
      <4>3. QED
        BY <1>1, <2>1, <3>2, <4>1, <4>2
    <3>3. ASSUME NEW j \in 1 .. n - 1, waiters'[j] = u
          PROVE  \E i \in 1 .. n : waiters[i] = u
      BY <1>2, <3>3
    <3>4. QED
      BY <1>2, <1>3, <2>1, <3>1, <3>2, <3>3
  <2>2. QED
    BY <1>2, <1>3, <1>5, <2>1
<1>7. \A i, j \in 1 .. Len(waiters') : waiters'[i] = waiters'[j] => i = j
  <2>1. ASSUME NEW i \in 1 .. n - 1, NEW j \in 1 .. n - 1, waiters'[i] = waiters'[j]
        PROVE  i = j
    <3> DEFINE old(x) == IF x < k THEN x ELSE x + 1
    <3>1. old(i) \in 1 .. n /\ old(j) \in 1 .. n /\ waiters[old(i)] = waiters[old(j)]
      BY <1>2, <2>1
    <3>2. old(i) = old(j)
      BY <3>1 DEF LockDiscipline, n
    <3>3. QED
      BY <3>2
  <2>2. QED
    BY <1>2, <2>1
<1>8. QED
  BY <1>4, <1>6, <1>7 DEF LockDiscipline

(* The steps of a poll keep the lock discipline.                           *)
LEMMA PollLock ==
    ASSUME TypeOK, LockDiscipline, Poll
    PROVE  LockDiscipline'
<1> Poller \in Tasks
  BY DEF Tasks
<1> USE DEF Critical, PollSteps, ReadSteps, CommandSteps
<1>1. CASE StartPoll
  BY <1>1, EnqueueLock DEF StartPoll
<1>2. CASE PollSnapshot
  BY <1>2, HoldLock DEF PollSnapshot, Serve
<1>3. CASE PollFinish
  BY <1>3, ReleaseLock DEF PollFinish
<1>4. CASE PollFails
  BY <1>4, ReleaseLock DEF PollFails, PollEndsUnsuccessfully
<1>5. CASE PollAuthFails
  BY <1>5, ReleaseLock DEF PollAuthFails, PollEndsUnsuccessfully
<1>6. CASE PollCrashes
  BY <1>6, ReleaseLock DEF PollCrashes, PollEndsUnsuccessfully
<1>7. QED
  BY <1>1, <1>2, <1>3, <1>4, <1>5, <1>6 DEF Poll

(* The steps of a service call keep the lock discipline.                   *)
LEMMA CommandLock ==
    ASSUME TypeOK, LockDiscipline, NEW t \in Callers, Command(t)
    PROVE  LockDiscipline'
<1> t \in Tasks
  BY DEF Tasks
<1> USE DEF Critical, PollSteps, ReadSteps, CommandSteps
<1>1. CASE StartCommand(t)
  BY <1>1, EnqueueLock DEF StartCommand
<1>2. CASE Preflight(t)
  BY <1>2, HoldLock DEF Preflight
<1>3. CASE PreflightNoOp(t)
  BY <1>3, HoldLock DEF PreflightNoOp, Serve
<1>4. CASE Post(t)
  BY <1>4, HoldLock DEF Post
<1>5. CASE Readback(t)
  BY <1>5, HoldLock DEF Readback, Serve
<1>6. CASE CommandDone(t)
  BY <1>6, ReleaseLock DEF CommandDone
<1>7. CASE RebootDone(t)
  BY <1>7, ReleaseLock DEF RebootDone
<1>8. CASE CommandFails(t)
  BY <1>8, ReleaseLock DEF CommandFails
<1>9. QED
  BY <1>1, <1>2, <1>3, <1>4, <1>5, <1>6, <1>7, <1>8 DEF Command

(* The steps of a routing read keep the lock discipline.                   *)
LEMMA ReadLock ==
    ASSUME TypeOK, LockDiscipline, NEW t \in Readers, RoutingRead(t)
    PROVE  LockDiscipline'
<1> t \in Tasks
  BY DEF Tasks
<1> USE DEF Critical, PollSteps, ReadSteps, CommandSteps
<1>1. CASE StartRead(t)
  BY <1>1, EnqueueLock DEF StartRead
<1>2. CASE ReadSnapshot(t)
  BY <1>2, HoldLock DEF ReadSnapshot, Serve
<1>3. CASE ReadDone(t)
  BY <1>3, ReleaseLock DEF ReadDone
<1>4. CASE ReadRefused(t)
  BY <1>4, ReleaseLock DEF ReadRefused
<1>5. CASE ReadFails(t)
  BY <1>5, ReleaseLock DEF ReadFails
<1>6. QED
  BY <1>1, <1>2, <1>3, <1>4, <1>5 DEF RoutingRead

(* The lock is free and its queue empty at first.                          *)
LEMMA InitLock == Init => LockDiscipline
<1> SUFFICES ASSUME Init
             PROVE  LockDiscipline
  OBVIOUS
<1>1. Len(waiters) = 0 /\ holder = NoTask /\ \A t \in Tasks : pc[t] = "idle"
  BY DEF Init
<1>2. NoTask \notin Tasks
  BY CoordinatorAssumption DEF Tasks
<1>3. QED
  BY <1>1, <1>2 DEF LockDiscipline, Critical, PollSteps, ReadSteps, CommandSteps

(* Every step keeps the lock discipline.                                   *)
LEMMA StepLock == TypeOK /\ LockDiscipline /\ [Next]_vars => LockDiscipline'
<1> SUFFICES ASSUME TypeOK, LockDiscipline, [Next]_vars
             PROVE  LockDiscipline'
  OBVIOUS
<1>1. CASE Poll
  BY <1>1, PollLock
<1>2. ASSUME NEW t \in Tasks, Acquire(t)
      PROVE  LockDiscipline'
  BY <1>2, AcquireLock
<1>3. ASSUME NEW t \in Callers, Command(t)
      PROVE  LockDiscipline'
  BY <1>3, CommandLock
<1>4. ASSUME NEW t \in Readers, RoutingRead(t)
      PROVE  LockDiscipline'
  BY <1>4, ReadLock
<1>5. ASSUME NEW t \in Callers \cup Readers, CancelWaiting(t)
      PROVE  LockDiscipline'
  BY <1>5, CancelLock
<1>6. ASSUME NEW t \in Callers \cup Readers, CancelHolding(t)
      PROVE  LockDiscipline'
  BY <1>6, ReleaseLock DEF CancelHolding, Tasks
<1>7. CASE DeviceChange
  BY <1>7 DEF DeviceChange, LockDiscipline, lock, local
<1>8. CASE UNCHANGED vars
  BY <1>8 DEF vars, LockDiscipline, lock, local
<1>9. QED
  BY <1>1, <1>2, <1>3, <1>4, <1>5, <1>6, <1>7, <1>8 DEF Next

(* The lock is held exactly while one task is inside a locked block, and   *)
(* the queue holds exactly the tasks that wait, once each: no return,      *)
(* exception or cancellation leaks either (coordinator.py, every           *)
(* `async with self._operation_lock').                                     *)
THEOREM LockIsDisciplined == Spec => []LockDiscipline
<1>1. Init => TypeOK /\ LockDiscipline
  BY InitTypes, InitLock
<1>2. TypeOK /\ LockDiscipline /\ [Next]_vars => (TypeOK /\ LockDiscipline)'
  BY StepTypes, StepLock
<1>3. QED
  BY <1>1, <1>2, PTL DEF Spec

(* Of two waiting tasks the first stays first until one of them goes on.   *)
InOrder(t, u) == Before(t, u) /\ pc'[t] = "waiting" => Before(t, u)' \/ pc'[u] = "idle"

(* A step that leaves the queue alone, and the step of a task that joins.  *)
LEMMA QueueKept ==
    ASSUME TypeOK, NEW t \in Tasks, NEW u \in Tasks,
           waiters' = waiters \/ \E w \in Tasks : Enqueue(w)
    PROVE  InOrder(t, u)
<1> SUFFICES ASSUME Before(t, u) PROVE Before(t, u)'
  BY DEF InOrder
<1>1. PICK i, j \in 1 .. Len(waiters) : i < j /\ waiters[i] = t /\ waiters[j] = u
  BY DEF Before
<1>2. CASE waiters' = waiters
  BY <1>1, <1>2 DEF Before
<1>3. CASE \E w \in Tasks : Enqueue(w)
  <2>1. /\ Len(waiters') = Len(waiters) + 1
        /\ \A k \in 1 .. Len(waiters) : waiters'[k] = waiters[k]
    BY <1>3 DEF Enqueue, TypeOK
  <2>2. Len(waiters) \in Nat
    BY DEF TypeOK
  <2>3. i \in 1 .. Len(waiters') /\ j \in 1 .. Len(waiters')
    BY <1>1, <2>1, <2>2
  <2>4. waiters'[i] = t /\ waiters'[j] = u
    BY <1>1, <2>1
  <2>5. QED
    BY <1>1, <2>3, <2>4 DEF Before
<1>4. QED
  BY <1>2, <1>3

(* The head gets the lock, and everybody moves up.                         *)
LEMMA AcquireInOrder ==
    ASSUME TypeOK, NEW t \in Tasks, NEW u \in Tasks, NEW w \in Tasks, Acquire(w)
    PROVE  InOrder(t, u)
<1> SUFFICES ASSUME Before(t, u), pc'[t] = "waiting" PROVE Before(t, u)'
  BY DEF InOrder
<1>1. PICK i, j \in 1 .. Len(waiters) : i < j /\ waiters[i] = t /\ waiters[j] = u
  BY DEF Before
<1>2. /\ Len(waiters) \in Nat \ {0} /\ waiters[1] = w
      /\ Len(waiters') = Len(waiters) - 1
      /\ \A k \in 1 .. Len(waiters) - 1 : waiters'[k] = waiters[k + 1]
      /\ pc'[w] # "waiting"
  BY DEF Acquire, TypeOK
<1>3. i # 1
  BY <1>1, <1>2
<1>4. /\ i - 1 \in 1 .. Len(waiters') /\ j - 1 \in 1 .. Len(waiters') /\ i - 1 < j - 1
      /\ waiters'[i - 1] = t /\ waiters'[j - 1] = u
  BY <1>1, <1>2, <1>3
<1>5. QED
  BY <1>4 DEF Before

(* A task that leaves the queue changes the places of others and not their *)
(* order.                                                                  *)
LEMMA CancelInOrder ==
    ASSUME TypeOK, NEW t \in Tasks, NEW u \in Tasks,
           NEW w \in Callers \cup Readers, CancelWaiting(w)
    PROVE  InOrder(t, u)
<1> SUFFICES ASSUME Before(t, u), pc'[t] = "waiting", pc'[u] # "idle" PROVE Before(t, u)'
  BY DEF InOrder
<1> DEFINE n == Len(waiters)
<1>1. PICK i, j \in 1 .. n : i < j /\ waiters[i] = t /\ waiters[j] = u
  BY DEF Before
<1>2. PICK k \in 1 .. n : waiters[k] = w /\ waiters' = RemoveAt(waiters, k)
  BY DEF CancelWaiting
<1>3. /\ n \in Nat
      /\ Len(waiters') = n - 1
      /\ \A x \in 1 .. n - 1 : waiters'[x] = IF x < k THEN waiters[x] ELSE waiters[x + 1]
  <2>1. waiters \in Seq(Tasks) /\ n \in Nat
    BY DEF TypeOK
  <2>2. QED
    BY <1>2, <2>1, RemoveAtFacts
<1>4. i # k /\ j # k
  BY <1>1, <1>2 DEF CancelWaiting, TypeOK, Tasks
<1> HIDE DEF n
<1>5. ASSUME NEW x \in 1 .. n, x # k
      PROVE  \E y \in 1 .. n - 1 : y = (IF x < k THEN x ELSE x - 1) /\ waiters'[y] = waiters[x]
  <2>1. CASE x < k
    BY <1>2, <1>3, <2>1
  <2>2. CASE x > k
    <3>1. x - 1 \in 1 .. n - 1 /\ ~(x - 1 < k) /\ (x - 1) + 1 = x
      BY <1>2, <1>3, <2>2
    <3>2. QED
      BY <1>3, <2>2, <3>1
  <2>3. QED
    BY <1>2, <1>3, <1>5, <2>1, <2>2
<1>6. PICK p \in 1 .. n - 1 : p = (IF i < k THEN i ELSE i - 1) /\ waiters'[p] = t
  BY <1>1, <1>4, <1>5
<1>7. PICK q \in 1 .. n - 1 : q = (IF j < k THEN j ELSE j - 1) /\ waiters'[q] = u
  BY <1>1, <1>4, <1>5
<1>8. p < q
  BY <1>1, <1>2, <1>3, <1>4, <1>6, <1>7
<1>9. QED
  BY <1>3, <1>6, <1>7, <1>8 DEF Before

(* Tasks get the lock in the order in which they came, however many wait.  *)
THEOREM NobodyOvertakes == Spec => NoOvertaking
<1>1. TypeOK /\ [Next]_vars => \A t, u \in Tasks : InOrder(t, u)
  <2> SUFFICES ASSUME TypeOK, [Next]_vars, NEW t \in Tasks, NEW u \in Tasks
               PROVE  InOrder(t, u)
    OBVIOUS
  <2>1. CASE Poll
    BY <2>1, QueueKept
    DEF Poll, StartPoll, PollSnapshot, PollFinish, PollFails, PollAuthFails, PollCrashes,
        PollEndsUnsuccessfully, Release, lock, Tasks
  <2>2. ASSUME NEW w \in Tasks, Acquire(w) PROVE InOrder(t, u)
    BY <2>2, AcquireInOrder
  <2>3. ASSUME NEW w \in Callers, Command(w) PROVE InOrder(t, u)
    BY <2>3, QueueKept
    DEF Command, StartCommand, Preflight, PreflightNoOp, Post, Readback, CommandDone,
        RebootDone, CommandFails, Release, lock, Tasks
  <2>4. ASSUME NEW w \in Readers, RoutingRead(w) PROVE InOrder(t, u)
    BY <2>4, QueueKept
    DEF RoutingRead, StartRead, ReadSnapshot, ReadDone, ReadRefused, ReadFails, Release,
        lock, Tasks
  <2>5. ASSUME NEW w \in Callers \cup Readers, CancelWaiting(w) PROVE InOrder(t, u)
    BY <2>5, CancelInOrder
  <2>6. ASSUME NEW w \in Callers \cup Readers, CancelHolding(w) PROVE InOrder(t, u)
    BY <2>6, QueueKept DEF CancelHolding, Release
  <2>7. CASE DeviceChange \/ UNCHANGED vars
    BY <2>7, QueueKept DEF DeviceChange, vars, lock
  <2>8. QED
    BY <2>1, <2>2, <2>3, <2>4, <2>5, <2>6, <2>7 DEF Next
<1>2. TypeOK /\ [Next]_vars =>
        [\A t, u \in Tasks :
           Before(t, u) /\ pc'[t] = "waiting" => Before(t, u)' \/ pc'[u] = "idle"]_vars
  BY <1>1 DEF InOrder
<1>3. QED
  BY <1>2, TypeCorrect, PTL DEF Spec, NoOvertaking

-----------------------------------------------------------------------------
(* Versions: one lemma per way a step touches a snapshot.                  *)

(* Nobody reads or publishes, and the endpoint may have changed.           *)
LEMMA QuietOrder ==
    ASSUME TypeOK, SnapshotsInOrder,
           data' = data, dev'.ver \in Nat, dev.ver <= dev'.ver,
           \A u \in Tasks : pc'[u] \in {"preview", "publish"} =>
                               pc[u] \in {"preview", "publish"} /\ got'[u] = got[u]
    PROVE  SnapshotsInOrder'
<1>1. data.ver \in Nat /\ dev.ver \in Nat
  BY DEF TypeOK, Snapshots
<1>2. \A u \in Tasks : pc[u] \in {"preview", "publish"} => got[u].ver \in Nat
  BY DEF TypeOK, Snapshots
<1>3. QED
  BY <1>1, <1>2 DEF SnapshotsInOrder

(* A task is served: it holds the endpoint as it is.                       *)
LEMMA ServeOrder ==
    ASSUME TypeOK, SnapshotsInOrder, NEW t \in Tasks, NEW from, NEW to,
           Serve(t, from, to), UNCHANGED <<dev, data>>
    PROVE  SnapshotsInOrder'
<1>1. data.ver \in Nat /\ dev.ver \in Nat
  BY DEF TypeOK, Snapshots
<1>2. /\ got'[t] = dev
      /\ \A u \in Tasks \ {t} : pc'[u] = pc[u] /\ got'[u] = got[u]
  BY DEF Serve, TypeOK
<1>3. QED
  BY <1>1, <1>2 DEF SnapshotsInOrder

(* A task publishes and releases: it held the lock, so nobody else has a   *)
(* snapshot in hand that the new view could overtake.                      *)
LEMMA PublishOrder ==
    ASSUME TypeOK, LockDiscipline, SnapshotsInOrder, NEW t \in Tasks,
           pc[t] \in {"preview", "publish"}, data' = got[t], dev' = dev, Release(t)
    PROVE  SnapshotsInOrder' /\ data.ver <= data'.ver
<1>1. data.ver <= got[t].ver /\ got[t].ver <= dev.ver
  BY DEF SnapshotsInOrder
<1>2. \A u \in Tasks : pc'[u] \notin {"preview", "publish"}
  <2>1. holder = t
    BY DEF LockDiscipline, Critical, PollSteps, ReadSteps, CommandSteps
  <2>2. \A u \in Tasks \ {t} : pc[u] \notin Critical
    BY <2>1 DEF LockDiscipline
  <2>3. pc'[t] = "idle" /\ \A u \in Tasks \ {t} : pc'[u] = pc[u]
    BY DEF Release, TypeOK
  <2>4. QED
    BY <2>2, <2>3 DEF Critical, PollSteps, ReadSteps, CommandSteps
<1>3. QED
  BY <1>1, <1>2 DEF SnapshotsInOrder

(* The two kinds of step: the endpoint changes, or the view advances within *)
(* what the endpoint was (possibly not at all) and commands return.        *)
EndpointStep ==
    /\ dev'.ver = dev.ver + 1
    /\ UNCHANGED <<data, acked>>

ViewStep ==
    /\ dev'.ver = dev.ver
    /\ data.ver <= data'.ver
    /\ data'.ver <= dev.ver
    /\ acked <= acked'
    /\ acked' <= data'.ver

OrderKept == SnapshotsInOrder' /\ WritesInOrder' /\ (EndpointStep \/ ViewStep)

(* Writes stay where they are, or are forgotten with their call.           *)
LEMMA WritesKept ==
    ASSUME TypeOK, WritesInOrder, dev'.ver \in Nat, dev.ver <= dev'.ver,
           \A u \in Callers :
              /\ wrote'[u] \in {wrote[u], 0}
              /\ pc'[u] = "publish" =>
                    pc[u] = "publish" /\ wrote'[u] = wrote[u] /\ got'[u] = got[u]
    PROVE  WritesInOrder'
<1>1. dev.ver \in Nat /\ \A u \in Callers : wrote[u] \in Nat
  BY DEF TypeOK, Snapshots
<1>2. QED
  BY <1>1 DEF WritesInOrder

(* A step that neither reads nor publishes and leaves the endpoint alone.  *)
LEMMA QuietStep ==
    ASSUME IInv, UNCHANGED <<dev, data, acked>>,
           \A u \in Tasks : pc'[u] \in {"preview", "publish"} =>
                               pc[u] \in {"preview", "publish"} /\ got'[u] = got[u],
           \A u \in Callers :
              /\ wrote'[u] \in {wrote[u], 0}
              /\ pc'[u] = "publish" => pc[u] = "publish" /\ wrote'[u] = wrote[u]
    PROVE  OrderKept
<1>1. dev.ver \in Nat /\ data.ver \in Nat /\ acked \in Nat
  BY DEF IInv, TypeOK, Snapshots
<1>2. SnapshotsInOrder'
  BY <1>1, QuietOrder DEF IInv
<1>3. WritesInOrder'
  BY <1>1, WritesKept DEF IInv, Tasks
<1>4. ViewStep
  BY <1>1 DEF ViewStep, IInv, SnapshotsInOrder, ReadYourWrites
<1>5. QED
  BY <1>2, <1>3, <1>4 DEF OrderKept

(* A step that leaves a locked block, or an await, without publishing.     *)
LEMMA ReleaseStep ==
    ASSUME IInv, NEW t \in Tasks, Release(t), UNCHANGED <<dev, data, acked>>,
           \A u \in Callers : wrote'[u] = wrote[u] \/ (u = t /\ wrote'[u] = 0)
    PROVE  OrderKept
<1>1. pc'[t] = "idle" /\ \A u \in Tasks \ {t} : pc'[u] = pc[u] /\ got'[u] = got[u]
  BY DEF Release, IInv, TypeOK
<1>2. QED
  BY <1>1, QuietStep DEF Tasks

(* A request is served to a task that is not writing.                      *)
LEMMA ServeStep ==
    ASSUME IInv, NEW t \in Tasks, NEW from, NEW to, Serve(t, from, to),
           UNCHANGED <<dev, data, acked, wrote>>
    PROVE  OrderKept
<1>1. dev.ver \in Nat /\ data.ver \in Nat /\ acked \in Nat
  BY DEF IInv, TypeOK, Snapshots
<1>2. SnapshotsInOrder'
  BY ServeOrder DEF IInv
<1>3. WritesInOrder'
  <2>1. /\ got'[t] = dev
        /\ \A u \in Tasks \ {t} : pc'[u] = pc[u] /\ got'[u] = got[u]
    BY DEF Serve, IInv, TypeOK
  <2>2. QED
    BY <1>1, <2>1 DEF IInv, WritesInOrder, Tasks
<1>4. ViewStep
  BY <1>1 DEF ViewStep, IInv, SnapshotsInOrder, ReadYourWrites
<1>5. QED
  BY <1>2, <1>3, <1>4 DEF OrderKept

(* A task publishes its snapshot; a command adds its own write to the      *)
(* acknowledged ones.                                                      *)
LEMMA PublishStep ==
    ASSUME IInv, NEW t \in Tasks, pc[t] \in {"preview", "publish"}, data' = got[t],
           dev' = dev, Release(t),
           \/ acked' = acked
           \/ acked' \in Nat /\ acked <= acked' /\ acked' <= got[t].ver,
           \A u \in Callers : wrote'[u] = wrote[u] \/ (u = t /\ wrote'[u] = 0)
    PROVE  OrderKept
<1>1. /\ dev.ver \in Nat /\ data.ver \in Nat /\ acked \in Nat
      /\ got[t].ver \in Nat
  BY DEF IInv, TypeOK, Snapshots
<1>2. SnapshotsInOrder' /\ data.ver <= data'.ver
  BY PublishOrder DEF IInv
<1>3. WritesInOrder'
  <2>1. pc'[t] = "idle" /\ \A u \in Tasks \ {t} : pc'[u] = pc[u] /\ got'[u] = got[u]
    BY DEF Release, IInv, TypeOK
  <2>2. QED
    BY <1>1, <2>1, WritesKept DEF IInv, Tasks
<1>4. got[t].ver <= dev.ver /\ acked <= data.ver
  BY DEF IInv, SnapshotsInOrder, ReadYourWrites
<1>5. ViewStep
  BY <1>1, <1>2, <1>4 DEF ViewStep
<1>6. QED
  BY <1>2, <1>3, <1>5 DEF OrderKept

(* The steps of a poll keep the order of versions.                         *)
LEMMA PollOrder ==
    ASSUME IInv, Poll
    PROVE  OrderKept
<1> Poller \in Tasks /\ Poller \notin Callers
  BY CoordinatorAssumption DEF Tasks
<1>1. CASE StartPoll
  <2>1. pc'[Poller] = "waiting" /\ \A u \in Tasks \ {Poller} : pc'[u] = pc[u]
    BY <1>1 DEF StartPoll, Enqueue, IInv, TypeOK
  <2>2. QED
    BY <1>1, <2>1, QuietStep DEF StartPoll, Tasks
<1>2. CASE PollSnapshot
  BY <1>2, ServeStep DEF PollSnapshot, hass
<1>3. CASE PollFinish
  BY <1>3, PublishStep DEF PollFinish, SetUpdatedData
<1>4. CASE PollFails
  BY <1>4, ReleaseStep DEF PollFails, PollEndsUnsuccessfully
<1>5. CASE PollAuthFails
  BY <1>5, ReleaseStep DEF PollAuthFails, PollEndsUnsuccessfully
<1>6. CASE PollCrashes
  BY <1>6, ReleaseStep DEF PollCrashes, PollEndsUnsuccessfully
<1>7. QED
  BY <1>1, <1>2, <1>3, <1>4, <1>5, <1>6 DEF Poll

(* A POST keeps the order of versions.                                     *)
LEMMA PostOrder ==
    ASSUME IInv, NEW t \in Callers, Post(t)
    PROVE  OrderKept
<1>1. /\ dev.ver \in Nat /\ data.ver \in Nat /\ acked \in Nat
      /\ dev'.ver = dev.ver + 1
      /\ UNCHANGED <<data, acked, got>>
  BY DEF Post, IInv, TypeOK, Snapshots, hass
<1>2. /\ pc'[t] = "readback" /\ \A u \in Tasks \ {t} : pc'[u] = pc[u]
      /\ wrote'[t] = dev.ver + 1 /\ \A u \in Callers \ {t} : wrote'[u] = wrote[u]
  BY DEF Post, IInv, TypeOK, Tasks
<1>3. SnapshotsInOrder'
  BY <1>1, <1>2, QuietOrder DEF IInv
<1>4. WritesInOrder'
  <2>1. \A u \in Callers : wrote[u] \in Nat
    BY DEF IInv, TypeOK
  <2>2. QED
    BY <1>1, <1>2, <2>1 DEF IInv, WritesInOrder, Tasks
<1>5. EndpointStep
  BY <1>1 DEF EndpointStep
<1>6. QED
  BY <1>3, <1>4, <1>5 DEF OrderKept

(* The other steps of a service call keep the order of versions.           *)
LEMMA CommandOrder ==
    ASSUME IInv, NEW t \in Callers, Command(t)
    PROVE  OrderKept
<1> t \in Tasks
  BY DEF Tasks
<1>1. CASE StartCommand(t)
  <2>1. pc'[t] = "waiting" /\ \A u \in Tasks \ {t} : pc'[u] = pc[u]
    BY <1>1 DEF StartCommand, Enqueue, IInv, TypeOK
  <2>2. QED
    BY <1>1, <2>1, QuietStep DEF StartCommand, Tasks, hass
<1>2. CASE Preflight(t)
  <2>1. pc'[t] = "post" /\ \A u \in Tasks \ {t} : pc'[u] = pc[u]
    BY <1>2 DEF Preflight, IInv, TypeOK
  <2>2. QED
    BY <1>2, <2>1, QuietStep DEF Preflight, Tasks, hass
<1>3. CASE PreflightNoOp(t)
  BY <1>3, ServeStep DEF PreflightNoOp, hass
<1>4. CASE Post(t)
  BY <1>4, PostOrder
<1>5. CASE Readback(t)
  BY <1>5, ServeStep DEF Readback, hass
<1>6. CASE CommandDone(t)
  <2>1. acked' = acked \/ (acked' \in Nat /\ acked <= acked' /\ acked' <= got[t].ver)
    <3>1. wrote[t] \in Nat /\ acked \in Nat /\ wrote[t] <= got[t].ver
      BY <1>6 DEF CommandDone, IInv, TypeOK, WritesInOrder
    <3>2. QED
      BY <1>6, <3>1 DEF CommandDone
  <2>2. \A u \in Callers : wrote'[u] = wrote[u] \/ (u = t /\ wrote'[u] = 0)
    BY <1>6 DEF CommandDone, Forget, IInv, TypeOK
  <2>3. QED
    BY <1>6, <2>1, <2>2, PublishStep DEF CommandDone, SetUpdatedData
<1>7. CASE RebootDone(t)
  <2>1. \A u \in Callers : wrote'[u] = wrote[u] \/ (u = t /\ wrote'[u] = 0)
    BY <1>7 DEF RebootDone, Forget, IInv, TypeOK
  <2>2. QED
    BY <1>7, <2>1, ReleaseStep DEF RebootDone, hass
<1>8. CASE CommandFails(t)
  <2>1. \A u \in Callers : wrote'[u] = wrote[u] \/ (u = t /\ wrote'[u] = 0)
    BY <1>8 DEF CommandFails, Forget, IInv, TypeOK
  <2>2. QED
    BY <1>8, <2>1, ReleaseStep DEF CommandFails, hass
<1>9. QED
  BY <1>1, <1>2, <1>3, <1>4, <1>5, <1>6, <1>7, <1>8 DEF Command

(* The steps of a routing read keep the order of versions.                 *)
LEMMA ReadOrder ==
    ASSUME IInv, NEW t \in Readers, RoutingRead(t)
    PROVE  OrderKept
<1> t \in Tasks /\ t \notin Callers
  BY CoordinatorAssumption DEF Tasks
<1>1. CASE StartRead(t)
  <2>1. pc'[t] = "waiting" /\ \A u \in Tasks \ {t} : pc'[u] = pc[u]
    BY <1>1 DEF StartRead, Enqueue, IInv, TypeOK
  <2>2. QED
    BY <1>1, <2>1, QuietStep DEF StartRead, Tasks, hass
<1>2. CASE ReadSnapshot(t)
  BY <1>2, ServeStep DEF ReadSnapshot, hass
<1>3. CASE ReadDone(t)
  BY <1>3, PublishStep DEF ReadDone, SetUpdatedData
<1>4. CASE ReadRefused(t)
  BY <1>4, ReleaseStep DEF ReadRefused, hass
<1>5. CASE ReadFails(t)
  BY <1>5, ReleaseStep DEF ReadFails, hass
<1>6. QED
  BY <1>1, <1>2, <1>3, <1>4, <1>5 DEF RoutingRead

(* A cancellation keeps the order of versions.                             *)
LEMMA CancelOrder ==
    ASSUME IInv, NEW t \in Callers \cup Readers, CancelWaiting(t) \/ CancelHolding(t)
    PROVE  OrderKept
<1> t \in Tasks
  BY DEF Tasks
<1>1. CASE CancelWaiting(t)
  <2>1. pc'[t] = "idle" /\ \A u \in Tasks \ {t} : pc'[u] = pc[u]
    BY <1>1 DEF CancelWaiting, IInv, TypeOK
  <2>2. QED
    BY <1>1, <2>1, QuietStep DEF CancelWaiting, Tasks, hass
<1>2. CASE CancelHolding(t)
  <2>1. \A u \in Callers : wrote'[u] = wrote[u] \/ (u = t /\ wrote'[u] = 0)
    BY <1>2 DEF CancelHolding, Forget, IInv, TypeOK
  <2>2. QED
    BY <1>2, <2>1, ReleaseStep DEF CancelHolding, hass
<1>3. QED
  BY <1>1, <1>2

(* Every step keeps the order of versions.                                 *)
LEMMA StepOrder == IInv /\ [Next]_vars => OrderKept
<1> SUFFICES ASSUME IInv, [Next]_vars
             PROVE  OrderKept
  OBVIOUS
<1>1. CASE Poll
  BY <1>1, PollOrder
<1>2. ASSUME NEW t \in Tasks, Acquire(t)
      PROVE  OrderKept
  <2>1. /\ pc'[t] \notin {"preview", "publish"}
        /\ \A u \in Tasks \ {t} : pc'[u] = pc[u]
    BY <1>2 DEF Acquire, IInv, TypeOK
  <2>2. QED
    BY <1>2, <2>1, QuietStep DEF Acquire, Tasks, hass
<1>3. ASSUME NEW t \in Callers, Command(t)
      PROVE  OrderKept
  BY <1>3, CommandOrder
<1>4. ASSUME NEW t \in Readers, RoutingRead(t)
      PROVE  OrderKept
  BY <1>4, ReadOrder
<1>5. ASSUME NEW t \in Callers \cup Readers, CancelWaiting(t) \/ CancelHolding(t)
      PROVE  OrderKept
  BY <1>5, CancelOrder
<1>6. CASE DeviceChange
  <2>1. /\ dev.ver \in Nat /\ data.ver \in Nat
        /\ dev'.ver = dev.ver + 1
        /\ UNCHANGED <<data, acked, pc, got, wrote>>
    BY <1>6 DEF DeviceChange, IInv, TypeOK, Snapshots, hass, local
  <2>2. SnapshotsInOrder'
    BY <2>1, QuietOrder DEF IInv
  <2>3. WritesInOrder'
    BY <2>1, WritesKept DEF IInv
  <2>4. QED
    BY <2>1, <2>2, <2>3 DEF OrderKept, EndpointStep
<1>7. CASE UNCHANGED vars
  BY <1>7, QuietStep DEF vars, hass, local, Tasks
<1>8. QED
  BY <1>1, <1>2, <1>3, <1>4, <1>5, <1>6, <1>7 DEF Next

-----------------------------------------------------------------------------
(* The inductive invariant, and what follows from it.                      *)

(* The inductive invariant holds at first ...                              *)
LEMMA InitIInv == Init => IInv
<1> SUFFICES ASSUME Init
             PROVE  IInv
  OBVIOUS
<1>1. data = dev /\ dev.ver = 0 /\ acked = 0
  BY DEF Init
<1>2. \A t \in Tasks : pc[t] = "idle"
  BY DEF Init
<1>3. \A t \in Callers : wrote[t] = 0
  BY DEF Init
<1>4. QED
  BY <1>1, <1>2, <1>3, InitTypes, InitLock
  DEF IInv, SnapshotsInOrder, WritesInOrder, ReadYourWrites, Tasks

(* ... is kept by every step ...                                           *)
LEMMA StepIInv == IInv /\ [Next]_vars => IInv'
<1> SUFFICES ASSUME IInv, [Next]_vars
             PROVE  IInv'
  OBVIOUS
<1>1. TypeOK' /\ LockDiscipline'
  BY StepTypes, StepLock DEF IInv
<1>2. OrderKept
  BY StepOrder
<1>3. ReadYourWrites'
  BY <1>2 DEF OrderKept, EndpointStep, ViewStep, IInv, ReadYourWrites
<1>4. QED
  BY <1>1, <1>2, <1>3 DEF OrderKept, IInv

(* ... and hence holds in every reachable state.                           *)
LEMMA Inductive == Spec => []IInv
  BY InitIInv, StepIInv, PTL DEF Spec

(* The published snapshot is never older than the last change made by a    *)
(* command that returned, whatever polls and routing reads publish.        *)
THEOREM CommandsStayVisible == Spec => []ReadYourWrites
<1>1. IInv => ReadYourWrites
  BY DEF IInv
<1>2. QED
  BY <1>1, Inductive, PTL

(* No poll, command or routing read ever publishes a snapshot older than   *)
(* the published one.                                                      *)
THEOREM ViewIsMonotone == Spec => NoStalePublish
<1>1. IInv /\ [Next]_vars => [data'.ver >= data.ver]_vars
  <2> SUFFICES ASSUME IInv, [Next]_vars
               PROVE  data'.ver >= data.ver
    OBVIOUS
  <2>1. OrderKept
    BY StepOrder
  <2>2. data.ver \in Nat /\ data'.ver \in Nat
    <3>1. IInv'
      BY StepIInv
    <3>2. QED
      BY <3>1 DEF IInv, TypeOK, Snapshots
  <2>3. QED
    BY <2>1, <2>2 DEF OrderKept, EndpointStep, ViewStep
<1>2. QED
  BY <1>1, Inductive, PTL DEF Spec, NoStalePublish

(* The coordinator implements EndpointView: seen from Home Assistant, the  *)
(* locks, retries and cancellations are steps or stutters of the promise.  *)
THEOREM Refinement == Spec => ImplementsEndpointView
<1>1. Init => EV!Init
  BY DEF Init, EV!Init
<1>2. IInv /\ IInv' /\ [Next]_vars => [EV!Next]_EV!vars
  <2> SUFFICES ASSUME IInv, IInv', [Next]_vars
               PROVE  EV!Next
    OBVIOUS
  <2>1. OrderKept
    BY StepOrder
  <2>2. CASE EndpointStep
    BY <2>2 DEF EndpointStep, EV!Next, EV!Change
  <2>3. CASE ViewStep
    <3>1. /\ dev.ver \in Nat /\ data.ver \in Nat /\ acked \in Nat
          /\ data'.ver \in Nat /\ acked' \in Nat
      BY DEF IInv, TypeOK, Snapshots
    <3>2. QED
      BY <2>3, <3>1 DEF ViewStep, EV!Next, EV!Acknowledge
  <2>4. QED
    BY <2>1, <2>2, <2>3 DEF OrderKept
<1>3. QED
  BY <1>1, <1>2, Inductive, PTL DEF Spec, ImplementsEndpointView, EV!Spec

(* A snapshot that a task read and did not yet use is not older than the   *)
(* published one: the lock admits no other publisher in between.           *)
THEOREM SnapshotsStayInOrder == Spec => []SnapshotsInOrder
<1>1. IInv => SnapshotsInOrder
  BY DEF IInv
<1>2. QED
  BY <1>1, Inductive, PTL

(* What a command publishes contains what it wrote.                        *)
THEOREM WritesStayInOrder == Spec => []WritesInOrder
<1>1. IInv => WritesInOrder
  BY DEF IInv
<1>2. QED
  BY <1>1, Inductive, PTL

-----------------------------------------------------------------------------
(* The refresh timer is consumed by the poll alone, and every end of a     *)
(* poll rearms it or starts a reauthentication.                            *)

LEMMA TimerKept ==
    ASSUME TypeOK, PollingContinues, [Next]_vars
    PROVE  PollingContinues'
<1> USE DEF PollingContinues
<1>1. pc \in [Tasks -> Critical \cup {"idle", "waiting"}] /\ Poller \in Tasks
      /\ reauth \in BOOLEAN /\ timer \in BOOLEAN
  BY DEF TypeOK, Tasks
<1>2. CASE Poll
  <2>1. CASE StartPoll
    BY <1>1, <2>1 DEF StartPoll, Enqueue
  <2>2. CASE PollSnapshot
    BY <1>1, <2>2 DEF PollSnapshot, Serve, hass
  <2>3. CASE PollFinish \/ PollFails \/ PollAuthFails \/ PollCrashes
    BY <2>3 DEF PollFinish, PollFails, PollAuthFails, PollCrashes, SetUpdatedData
  <2>4. QED
    BY <1>2, <2>1, <2>2, <2>3 DEF Poll
<1>3. ASSUME NEW t \in Tasks, Acquire(t)
      PROVE  PollingContinues'
  BY <1>1, <1>3 DEF Acquire, hass
<1>4. ASSUME NEW t \in Callers \cup Readers,
             timer' = timer \/ timer' = TRUE,
             reauth' \in {reauth, TRUE},
             \E w : pc' = [pc EXCEPT ![t] = w]
      PROVE  PollingContinues'
  <2>1. t # Poller
    BY CoordinatorAssumption
  <2>2. pc'[Poller] = pc[Poller]
    BY <1>1, <1>4, <2>1
  <2>3. CASE timer' = TRUE \/ reauth' = TRUE
    BY <2>3
  <2>4. CASE timer' = timer /\ reauth' = reauth
    BY <2>2, <2>4
  <2>5. QED
    BY <1>4, <2>3, <2>4
<1>5. ASSUME NEW t \in Callers, Command(t)
      PROVE  PollingContinues'
  <2>1. timer' = timer \/ timer' = TRUE
    BY <1>5 DEF Command, StartCommand, Preflight, PreflightNoOp, Post, Readback,
                CommandDone, RebootDone, CommandFails, hass, SetUpdatedData
  <2>2. reauth' \in {reauth, TRUE}
    BY <1>5 DEF Command, StartCommand, Preflight, PreflightNoOp, Post, Readback,
                CommandDone, RebootDone, CommandFails
  <2>3. \E w : pc' = [pc EXCEPT ![t] = w]
    BY <1>5 DEF Command, StartCommand, Preflight, PreflightNoOp, Post, Readback,
                CommandDone, RebootDone, CommandFails, Enqueue, Release, Serve
  <2>4. QED
    BY <1>4, <2>1, <2>2, <2>3
<1>6. ASSUME NEW t \in Readers, RoutingRead(t)
      PROVE  PollingContinues'
  <2>1. timer' = timer \/ timer' = TRUE
    BY <1>6 DEF RoutingRead, StartRead, ReadSnapshot, ReadDone, ReadRefused, ReadFails,
                hass, SetUpdatedData
  <2>2. reauth' \in {reauth, TRUE}
    BY <1>6 DEF RoutingRead, StartRead, ReadSnapshot, ReadDone, ReadRefused, ReadFails
  <2>3. \E w : pc' = [pc EXCEPT ![t] = w]
    BY <1>6 DEF RoutingRead, StartRead, ReadSnapshot, ReadDone, ReadRefused, ReadFails,
                Enqueue, Release, Serve
  <2>4. QED
    BY <1>4, <2>1, <2>2, <2>3
<1>7. ASSUME NEW t \in Callers \cup Readers, CancelWaiting(t) \/ CancelHolding(t)
      PROVE  PollingContinues'
  <2>1. timer' = timer /\ reauth' = reauth /\ \E w : pc' = [pc EXCEPT ![t] = w]
    BY <1>7 DEF CancelWaiting, CancelHolding, Release, hass
  <2>2. QED
    BY <1>4, <2>1
<1>8. CASE DeviceChange \/ UNCHANGED vars
  BY <1>8 DEF DeviceChange, vars, hass, local
<1>9. QED
  BY <1>2, <1>3, <1>5, <1>6, <1>7, <1>8 DEF Next

(* Polling never stops silently: a poll is scheduled or under way, or new  *)
(* credentials were asked for, whatever is cancelled or fails.             *)
THEOREM PollingNeverStops == Spec => []PollingContinues
<1>1. Init => PollingContinues
  BY DEF Init, PollingContinues
<1>2. QED
  BY <1>1, TimerKept, TypeCorrect, PTL DEF Spec

(* Entities show a recovery, whoever recovered the endpoint: a poll, a     *)
(* command or the routing read of another entry.                           *)
THEOREM RecoveryIsShown == Spec => []RecoveryShown
<1>1. Init => RecoveryShown
  BY DEF Init, RecoveryShown
<1>2. RecoveryShown /\ [Next]_vars => RecoveryShown'
  <2> SUFFICES ASSUME RecoveryShown, [Next]_vars
               PROVE  RecoveryShown'
    OBVIOUS
  <2> USE DEF RecoveryShown
  <2>1. CASE Poll
    BY <2>1 DEF Poll, StartPoll, PollSnapshot, PollFinish, PollFails, PollAuthFails,
                PollCrashes, PollEndsUnsuccessfully, SetUpdatedData, hass
  <2>2. ASSUME NEW t \in Tasks, Acquire(t)
        PROVE  RecoveryShown'
    BY <2>2 DEF Acquire, hass
  <2>3. ASSUME NEW t \in Callers, Command(t)
        PROVE  RecoveryShown'
    BY <2>3 DEF Command, StartCommand, Preflight, PreflightNoOp, Post, Readback,
                CommandDone, RebootDone, CommandFails, hass, SetUpdatedData
  <2>4. ASSUME NEW t \in Readers, RoutingRead(t)
        PROVE  RecoveryShown'
    BY <2>4 DEF RoutingRead, StartRead, ReadSnapshot, ReadDone, ReadRefused, ReadFails,
                hass, SetUpdatedData
  <2>5. ASSUME NEW t \in Callers \cup Readers, CancelWaiting(t) \/ CancelHolding(t)
        PROVE  RecoveryShown'
    BY <2>5 DEF CancelWaiting, CancelHolding, hass
  <2>6. CASE DeviceChange \/ UNCHANGED vars
    BY <2>6 DEF DeviceChange, vars, hass
  <2>7. QED
    BY <2>1, <2>2, <2>3, <2>4, <2>5, <2>6 DEF Next
<1>3. QED
  BY <1>1, <1>2, PTL DEF Spec
=============================================================================
