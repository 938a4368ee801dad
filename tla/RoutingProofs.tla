---------------------------- MODULE RoutingProofs ----------------------------
(***************************************************************************)
(* Proofs about Routing, for any number of entries, reloads and locations. *)
(* The generations tie the parts together: a coordinator is in the catalog *)
(* or under a platform only once it was registered, so that a new one has  *)
(* no select, no lock and no reader yet.                                   *)
(***************************************************************************)
EXTENDS Routing, TLAPS

GenerationsGrow ==
    \A e \in Entries :
       /\ gen[e] \in 0 .. MaxSetups[e]
       /\ state[e] = "refreshing" => gen[e] < MaxSetups[e]
       /\ state[e] \notin {"not_loaded", "refreshing"} => gen[e] # 0
       /\ platform[e] <= gen[e]

IInv ==
    TypeOK /\ GenerationsGrow /\ CatalogMatchesLifecycle /\ LocksHeldByCalls /\ ShownOptionsFresh

-----------------------------------------------------------------------------
(* Facts about the constants and the helpers                               *)

LEMMA GensFacts ==
    /\ \A g \in Gens : g \in Nat /\ g # 0
    /\ \A e \in Entries, g \in Nat : g # 0 /\ g <= MaxSetups[e] => g \in Gens /\ <<e, g>> \in Coordinators
  BY RoutingAssumption DEF Gens, Coordinators

LEMMA SourcesFacts ==
    ASSUME NEW c
    PROVE  Sources(c) \subseteq Transmitters(c) /\ Transmitters(c) \subseteq Coordinators
  BY DEF Sources, Transmitters

(* A dispatch leaves every select with its sources, whatever changed.      *)
LEMMA DispatchFresh ==
    ASSUME Dispatch, entity' \subseteq Entries
    PROVE  /\ shown' \in [Entries -> SUBSET Coordinators]
           /\ \A e \in Entries \ entity' : shown'[e] = {}
           /\ ShownOptionsFresh'
  <1>1. \A e \in Entries : shown'[e] = IF e \in entity' THEN Sources(SelectOf(e))' ELSE {}
    BY DEF Dispatch
  <1>2. \A e \in Entries : Sources(SelectOf(e))' \subseteq Transmitters(SelectOf(e))'
    BY DEF Sources, Transmitters
  <1>3. \A e \in Entries : Transmitters(SelectOf(e))' \subseteq Coordinators
    BY DEF Transmitters
  <1>4. shown' = [e \in Entries |-> shown'[e]]
    BY DEF Dispatch
  <1>5. ShownOptionsFresh'
    BY <1>1, <1>2 DEF ShownOptionsFresh
  <1> QED BY <1>1, <1>2, <1>3, <1>4, <1>5

LEMMA InitIInv == Init => IInv
  <1> SUFFICES ASSUME Init PROVE IInv
    OBVIOUS
  <1> USE DEF Init
  <1>1. TypeOK
    BY RoutingAssumption DEF TypeOK, States
  <1>2. GenerationsGrow
    BY RoutingAssumption DEF GenerationsGrow
  <1>3. CatalogMatchesLifecycle /\ ShownOptionsFresh
    BY DEF CatalogMatchesLifecycle, ShownOptionsFresh
  <1>4. LocksHeldByCalls
    BY RoutingAssumption DEF LocksHeldByCalls
  <1> QED BY <1>1, <1>2, <1>3, <1>4 DEF IInv

-----------------------------------------------------------------------------
(* Setup and unload of an entry                                            *)

(* The catalog and the generations follow the state of an entry.           *)
LEMMA LifecycleGenerations ==
    ASSUME IInv, NEW e \in Entries, Lifecycle(e)
    PROVE  GenerationsGrow' /\ CatalogMatchesLifecycle' /\ LocksHeldByCalls'
  <1> USE RoutingAssumption
      DEF IInv, TypeOK, GenerationsGrow, CatalogMatchesLifecycle, calls, published
  <1>1. LocksHeldByCalls'
    BY DEF Lifecycle, StartSetup, FirstRefreshFails, FirstRefresh, SetupSelect, ForwardDone,
           ForwardFails, StartUnload, UnloadSelect, UnloadDone, UnloadFails, LocksHeldByCalls
  <1>2. CASE StartSetup(e)
    BY <1>1, <1>2 DEF StartSetup
  <1>3. CASE FirstRefreshFails(e)
    BY <1>1, <1>3 DEF FirstRefreshFails
  <1>4. CASE FirstRefresh(e)
    <2>1. /\ gen[e] \in Nat /\ gen[e] < MaxSetups[e] /\ MaxSetups[e] \in Nat
          /\ platform[e] \in Nat /\ platform[e] <= gen[e]
      BY <1>4, GensFacts DEF FirstRefresh
    <2>2. /\ gen'[e] = gen[e] + 1 /\ catalog'[e] = gen[e] + 1 /\ state'[e] = "forwarding"
          /\ platform' = platform
          /\ \A f \in Entries \ {e} :
                gen'[f] = gen[f] /\ catalog'[f] = catalog[f] /\ state'[f] = state[f]
      BY <1>4 DEF FirstRefresh
    <2>3. gen'[e] \in 0 .. MaxSetups[e] /\ gen'[e] # 0 /\ platform'[e] <= gen'[e]
      BY <2>1, <2>2
    <2>4. GenerationsGrow'
      BY <2>2, <2>3
    <2>5. CatalogMatchesLifecycle'
      BY <2>2
    <2> QED BY <1>1, <2>4, <2>5
  <1>5. CASE SetupSelect(e)
    BY <1>1, <1>5 DEF SetupSelect
  <1>6. CASE ForwardDone(e)
    BY <1>1, <1>6 DEF ForwardDone
  <1>7. CASE ForwardFails(e)
    BY <1>1, <1>7 DEF ForwardFails
  <1>8. CASE StartUnload(e)
    BY <1>1, <1>8 DEF StartUnload
  <1>9. CASE UnloadSelect(e)
    BY <1>1, <1>9 DEF UnloadSelect
  <1>10. CASE UnloadDone(e)
    BY <1>1, <1>10 DEF UnloadDone
  <1>11. CASE UnloadFails(e)
    BY <1>1, <1>11 DEF UnloadFails
  <1> QED BY <1>2, <1>3, <1>4, <1>5, <1>6, <1>7, <1>8, <1>9, <1>10, <1>11 DEF Lifecycle

LEMMA LifecycleTypes ==
    ASSUME IInv, NEW e \in Entries, Lifecycle(e)
    PROVE  TypeOK'
  <1> USE DEF IInv, TypeOK, States, endpoints, calls, published
  <1>1. /\ gen[e] \in Nat /\ platform[e] \in Nat
        /\ gen[e] # 0 => gen[e] \in Gens /\ <<e, gen[e]>> \in Coordinators
    BY GensFacts, RoutingAssumption DEF GenerationsGrow
  <1>2. CASE StartSetup(e) \/ FirstRefreshFails(e) \/ StartUnload(e) \/ UnloadFails(e)
    BY <1>2 DEF StartSetup, FirstRefreshFails, StartUnload, UnloadFails
  <1>3. CASE FirstRefresh(e)
    <2>1. gen[e] + 1 \in Gens /\ <<e, gen[e] + 1>> \in Coordinators
      <3>1. gen[e] < MaxSetups[e] /\ MaxSetups[e] \in Nat
        BY <1>3, RoutingAssumption DEF FirstRefresh, GenerationsGrow
      <3>2. gen[e] + 1 \in Nat /\ gen[e] + 1 # 0 /\ gen[e] + 1 <= MaxSetups[e]
        BY <1>1, <3>1
      <3> QED BY <3>2, GensFacts
    <2>2. gen' \in [Entries -> Gens \cup {0}]
      BY <1>3, <2>1 DEF FirstRefresh
    <2>3. catalog' \in [Entries -> Gens \cup {0}]
      BY <1>3, <2>1 DEF FirstRefresh
    <2>4. state' \in [Entries -> States]
      BY <1>3 DEF FirstRefresh
    <2>5. /\ data' \in [Coordinators -> Snapshots \cup {NoSnapshot}]
          /\ success' \in [Coordinators -> BOOLEAN]
      BY <1>3, <2>1 DEF FirstRefresh
    <2> QED BY <1>3, <2>2, <2>3, <2>4, <2>5 DEF FirstRefresh
  <1>4. CASE SetupSelect(e)
    <2>1. gen[e] \in Gens /\ gen[e] # 0
      BY <1>1, <1>4 DEF SetupSelect, GenerationsGrow
    <2>2. entity' \subseteq {f \in Entries : platform'[f] # 0} /\ e \notin entity
      BY <1>4, <2>1 DEF SetupSelect
    <2>3. shown' = [shown EXCEPT ![e] = IF e \in entity' THEN Sources(SelectOf(e))' ELSE {}]
      BY <1>4 DEF SetupSelect
    <2>4. Sources(SelectOf(e))' \subseteq Coordinators
      BY DEF Sources, Transmitters
    <2>5. shown' \in [Entries -> SUBSET Coordinators]
      BY <2>3, <2>4
    <2>6. \A f \in Entries \ entity' : shown'[f] = {}
      BY <1>4, <2>3 DEF SetupSelect
    <2> QED BY <1>4, <2>1, <2>2, <2>5, <2>6 DEF SetupSelect
  <1>5. CASE ForwardDone(e) \/ ForwardFails(e) \/ UnloadDone(e)
    <2>1. Dispatch /\ entity' = entity
      BY <1>5 DEF ForwardDone, ForwardFails, UnloadDone
    <2>2. shown' \in [Entries -> SUBSET Coordinators] /\ \A f \in Entries \ entity' : shown'[f] = {}
      BY <2>1, DispatchFresh
    <2> QED BY <1>5, <2>2 DEF ForwardDone, ForwardFails, UnloadDone
  <1>6. CASE UnloadSelect(e)
    BY <1>6 DEF UnloadSelect
  <1> QED BY <1>2, <1>3, <1>4, <1>5, <1>6 DEF Lifecycle

(* What changes without a dispatch changes no select's transmitters but by *)
(* a coordinator whose entry is still forwarding.                          *)
LEMMA LifecycleShown ==
    ASSUME IInv, NEW e \in Entries, Lifecycle(e)
    PROVE  ShownOptionsFresh'
  <1> USE DEF IInv, endpoints, calls, published
  <1>1. \A s \in Coordinators : s = <<s[1], s[2]>> /\ s[1] \in Entries /\ s[2] \in Gens /\ s[2] # 0
    BY GensFacts DEF Coordinators
  <1>2. CASE StartSetup(e) \/ FirstRefreshFails(e)
    <2>1. catalog[e] = 0
      BY <1>2 DEF StartSetup, FirstRefreshFails, CatalogMatchesLifecycle
    <2>2. \A c, s : s \in Transmitters(c) => s[1] # e
      BY <1>1, <2>1 DEF Transmitters
    <2>3. \A c : Transmitters(c)' = Transmitters(c) /\ Sources(c)' = Sources(c)
      BY <1>2 DEF StartSetup, FirstRefreshFails, Transmitters, Sources
    <2>4. \A f : SelectOf(f)' = SelectOf(f)
      BY <1>2 DEF StartSetup, FirstRefreshFails, SelectOf
    <2>5. \A c, s : s \in Sources(c) => s[1] \in Entries \ {e}
      BY <1>1, <2>2, SourcesFacts
    <2>6. \A f \in Entries \ {e} : state'[f] = state[f]
      BY <1>2 DEF StartSetup, FirstRefreshFails, TypeOK
    <2>7. entity' = entity /\ shown' = shown
      BY <1>2 DEF StartSetup, FirstRefreshFails
    <2> QED BY <2>3, <2>4, <2>5, <2>6, <2>7 DEF ShownOptionsFresh
  <1>3. CASE StartUnload(e) \/ UnloadFails(e)
    <2>1. \A c : Transmitters(c)' = Transmitters(c) /\ Sources(c)' = Sources(c)
      BY <1>3 DEF StartUnload, UnloadFails, Transmitters, Sources
    <2>2. \A f : SelectOf(f)' = SelectOf(f)
      BY <1>3 DEF StartUnload, UnloadFails, SelectOf
    <2>3. \A f \in Entries : state[f] \in {"forwarding", "forwarded"} =>
                               state'[f] \in {"forwarding", "forwarded"}
      BY <1>3 DEF StartUnload, UnloadFails, TypeOK
    <2>4. entity' = entity /\ shown' = shown
      BY <1>3 DEF StartUnload, UnloadFails
    <2>5. \A c, s : s \in Sources(c) => s[1] \in Entries
      BY <1>1, SourcesFacts
    <2> QED BY <2>1, <2>2, <2>3, <2>4, <2>5 DEF ShownOptionsFresh
  <1>4. CASE ForwardDone(e) \/ ForwardFails(e) \/ UnloadDone(e)
    <2>1. Dispatch /\ entity' \subseteq Entries
      BY <1>4 DEF ForwardDone, ForwardFails, UnloadDone, TypeOK
    <2> QED BY <2>1, DispatchFresh
  <1>5. CASE UnloadSelect(e)
    <2>1. /\ entity' = entity \ {e}
          /\ \A f \in Entries \ {e} : shown'[f] = shown[f] /\ platform'[f] = platform[f]
      BY <1>5 DEF UnloadSelect, TypeOK
    <2>2. \A c : Transmitters(c)' = Transmitters(c) /\ Sources(c)' = Sources(c)
      BY <1>5 DEF UnloadSelect, Transmitters, Sources
    <2>3. \A f \in Entries : state[f] \in {"forwarding", "forwarded"} =>
                               state'[f] \in {"forwarding", "forwarded"}
      BY <1>5 DEF UnloadSelect, TypeOK
    <2>4. \A f \in entity' : f \in entity /\ SelectOf(f)' = SelectOf(f) /\ shown'[f] = shown[f]
      BY <2>1 DEF SelectOf, TypeOK
    <2>5. \A c, s : s \in Sources(c) => s[1] \in Entries
      BY <1>1, SourcesFacts
    <2> QED BY <2>2, <2>3, <2>4, <2>5 DEF ShownOptionsFresh
  <1>6. CASE SetupSelect(e)
    <2>1. /\ \A f \in entity' : f = e \/ f \in entity
          /\ \A f \in Entries \ {e} : shown'[f] = shown[f] /\ platform'[f] = platform[f]
          /\ e \in entity' => shown'[e] = Sources(SelectOf(e))'
      BY <1>6 DEF SetupSelect, TypeOK
    <2>2. \A c : Transmitters(c)' = Transmitters(c) /\ Sources(c)' = Sources(c)
      BY <1>6 DEF SetupSelect, Transmitters, Sources
    <2>3. \A f \in Entries : state[f] \in {"forwarding", "forwarded"} =>
                               state'[f] \in {"forwarding", "forwarded"}
      BY <1>6 DEF SetupSelect, TypeOK
    <2>4. \A f \in entity' \ {e} : f \in entity /\ SelectOf(f)' = SelectOf(f) /\ shown'[f] = shown[f]
      BY <2>1 DEF SelectOf, TypeOK
    <2>5. \A c, s : s \in Sources(c) => s[1] \in Entries
      BY <1>1, SourcesFacts
    <2>6. Sources(SelectOf(e))' \subseteq Transmitters(SelectOf(e))'
      BY DEF Sources
    <2>7. ASSUME NEW f \in entity'
          PROVE  /\ shown'[f] \subseteq Transmitters(SelectOf(f))'
                 /\ \A s \in Sources(SelectOf(f))' \ shown'[f] :
                       state'[s[1]] \in {"forwarding", "forwarded"}
      <3>1. CASE f = e
        BY <2>1, <2>6, <3>1
      <3>2. CASE f # e
        BY <2>2, <2>3, <2>4, <2>5, <3>2 DEF ShownOptionsFresh
      <3> QED BY <3>1, <3>2
    <2> QED BY <2>7 DEF ShownOptionsFresh
  <1>7. CASE FirstRefresh(e)
    <2> DEFINE new == <<e, gen[e] + 1>>
    <2>1. catalog[e] = 0 /\ catalog'[e] = gen[e] + 1 /\ state'[e] = "forwarding"
      BY <1>7 DEF FirstRefresh, CatalogMatchesLifecycle, TypeOK
    <2>2. /\ entity' = entity /\ shown' = shown /\ platform' = platform
          /\ \A f \in Entries \ {e} : catalog'[f] = catalog[f] /\ state'[f] = state[f]
      BY <1>7 DEF FirstRefresh, TypeOK
    <2>3. \A s \in Coordinators : s # new => data'[s] = data[s] /\ success'[s] = success[s]
      BY <1>7 DEF FirstRefresh, TypeOK
    <2>4. \A f \in entity : SelectOf(f) \in Coordinators /\ SelectOf(f) # new
      <3>1. \A f \in entity : platform[f] \in Gens
        BY DEF TypeOK
      <3>2. gen[e] \in Nat /\ platform[e] <= gen[e]
        BY GensFacts DEF TypeOK, GenerationsGrow
      <3>3. \A f \in entity : platform[f] \in Nat
        BY <3>1, GensFacts
      <3>4. platform[e] # gen[e] + 1 \/ e \notin entity
        BY <3>2, <3>3
      <3> QED BY <3>1, <3>4 DEF SelectOf, Coordinators, TypeOK
    <2> HIDE DEF new
    <2>5. ASSUME NEW f \in entity, NEW s \in Transmitters(SelectOf(f))
          PROVE  s \in Transmitters(SelectOf(f))'
      <3>1. s[1] \in Entries \ {e} /\ s # new /\ s \in Coordinators
        BY <1>1, <2>1 DEF Transmitters, new
      <3> QED BY <2>2, <2>3, <2>4, <3>1 DEF Transmitters, SelectOf
    <2>6. ASSUME NEW f \in entity, NEW s \in Sources(SelectOf(f))', s[1] # e
          PROVE  s \in Sources(SelectOf(f))
      <3>1. s \in Coordinators /\ s # new /\ s[1] \in Entries \ {e}
        BY <1>1, <2>6 DEF Sources, Transmitters, new
      <3> QED BY <2>2, <2>3, <2>4, <3>1 DEF Sources, Transmitters, SelectOf
    <2>7. \A c, s : s \in Sources(c)' => s[1] \in Entries
      BY <1>1 DEF Sources, Transmitters
    <2> QED BY <2>1, <2>2, <2>5, <2>6, <2>7 DEF ShownOptionsFresh
  <1> QED BY <1>2, <1>3, <1>4, <1>5, <1>6, <1>7 DEF Lifecycle

-----------------------------------------------------------------------------
(* Polls, changes of endpoints and calls                                   *)

(* What a step of these leaves alone and what it may do to the rest.       *)
LEMMA OperateTypes ==
    ASSUME IInv, Operate
    PROVE  TypeOK'
  <1> USE RoutingAssumption DEF IInv, TypeOK, endpoints, lifecycle, published, calls
  <1>1. ASSUME NEW e \in Entries, DeviceChange(e) PROVE TypeOK'
    BY <1>1 DEF DeviceChange
  <1>2. ASSUME NEW c \in Coordinators, PollSucceeds(c) \/ PollFails(c) PROVE TypeOK'
    <2>1. c[1] \in Entries
      BY DEF Coordinators
    <2>2. entity' = entity
      BY <1>2 DEF PollSucceeds, PollFails
    <2>3. /\ shown' \in [Entries -> SUBSET Coordinators]
          /\ \A f \in Entries \ entity' : shown'[f] = {}
      BY <1>2, <2>2, DispatchFresh DEF PollSucceeds, PollFails
    <2>4. data' \in [Coordinators -> Snapshots \cup {NoSnapshot}]
      BY <1>2, <2>1 DEF PollSucceeds, PollFails
    <2>5. success' \in [Coordinators -> BOOLEAN]
      BY <1>2 DEF PollSucceeds, PollFails
    <2>6. UNCHANGED <<dev, changes, state, gen, catalog, platform, entity, holder, pc, source, fresh>>
      BY <1>2 DEF PollSucceeds, PollFails
    <2> QED BY <2>3, <2>4, <2>5, <2>6
  <1>3. ASSUME NEW c \in Coordinators,
               Select(c) \/ LockSource(c) \/ LockReceiver(c) \/ ServeRead(c) \/ ReadRefused(c)
        PROVE  TypeOK'
    <2>1. source[c][1] \in Entries
      BY DEF Coordinators
    <2>2. CASE Select(c)
      <3>1. source' \in [Coordinators -> Coordinators]
        BY <2>2, SourcesFacts DEF Select
      <3> QED BY <2>2, <3>1 DEF Select
    <2>3. CASE LockSource(c)
      BY <2>3 DEF LockSource, Goto
    <2>4. CASE LockReceiver(c)
      BY <2>4 DEF LockReceiver, Goto
    <2>5. CASE ServeRead(c)
      BY <2>1, <2>5 DEF ServeRead, Goto
    <2>6. CASE ReadRefused(c)
      BY <2>6 DEF ReadRefused, Return
    <2> QED BY <1>3, <2>2, <2>3, <2>4, <2>5, <2>6
  <1>4. ASSUME NEW c \in Coordinators, ReadDone(c) \/ WriteDone(c) PROVE TypeOK'
    <2>1. c[1] \in Entries
      BY DEF Coordinators
    <2>2. entity' = entity /\ Dispatch
      BY <1>4 DEF ReadDone, WriteDone
    <2>3. /\ shown' \in [Entries -> SUBSET Coordinators]
          /\ \A f \in Entries \ entity' : shown'[f] = {}
      BY <2>2, DispatchFresh
    <2>4. (Goto(c, "write_wait") /\ fresh' = fresh) \/ Return(c)
      BY <1>4 DEF ReadDone, WriteDone
    <2>5. /\ pc' \in [Coordinators -> {"idle", "read_wait", "reading", "read", "write_wait", "writing"}]
          /\ source' \in [Coordinators -> Coordinators]
          /\ fresh' \in [Coordinators -> Snapshots \cup {NoSnapshot}]
      <3>1. CASE Goto(c, "write_wait") /\ fresh' = fresh
        BY <3>1 DEF Goto
      <3>2. CASE Return(c)
        BY <3>2 DEF Return
      <3> QED BY <2>4, <3>1, <3>2
    <2>6. \E l \in Coordinators, s \in Snapshots \cup {NoSnapshot} :
             /\ data' = [data EXCEPT ![l] = s]
             /\ success' = [success EXCEPT ![l] = TRUE]
             /\ holder' = [holder EXCEPT ![l] = Free]
      <3>1. CASE ReadDone(c)
        <4>1. source[c] \in Coordinators /\ fresh[c] \in Snapshots \cup {NoSnapshot}
          OBVIOUS
        <4> QED BY <3>1, <4>1 DEF ReadDone
      <3>2. CASE WriteDone(c)
        <4>1. dev[c[1]] \in Snapshots
          BY <2>1
        <4> QED BY <3>2, <4>1 DEF WriteDone
      <3> QED BY <1>4, <3>1, <3>2
    <2>7. /\ data' \in [Coordinators -> Snapshots \cup {NoSnapshot}]
          /\ success' \in [Coordinators -> BOOLEAN]
          /\ holder' \in [Coordinators -> Coordinators \cup {Free}]
      BY <2>6
    <2>8. UNCHANGED <<dev, changes, state, gen, catalog, platform, entity>>
      BY <1>4 DEF ReadDone, WriteDone
    <2> QED BY <2>3, <2>5, <2>7, <2>8
  <1>5. ASSUME NEW c \in Coordinators, Abort(c) PROVE TypeOK'
    BY <1>5 DEF Abort, Return
  <1> QED BY <1>1, <1>2, <1>3, <1>4, <1>5 DEF Operate, Advance, RequestFails, Cancel

(* Entries neither come nor go.                                            *)
LEMMA OperateGenerations ==
    ASSUME IInv, Operate
    PROVE  GenerationsGrow' /\ CatalogMatchesLifecycle'
  <1>1. lifecycle' = lifecycle
    BY DEF Operate, DeviceChange, PollSucceeds, PollFails, Select, LockSource, LockReceiver,
           Advance, ServeRead, ReadRefused, ReadDone, WriteDone, RequestFails, Cancel, Abort
  <1> QED BY <1>1 DEF lifecycle, IInv, GenerationsGrow, CatalogMatchesLifecycle

(* A lock is taken only when it is free and by a call that holds none.     *)
LEMMA OperateLocks ==
    ASSUME IInv, Operate
    PROVE  LocksHeldByCalls'
  <1> USE RoutingAssumption DEF IInv, TypeOK, LocksHeldByCalls, calls
  <1>1. ASSUME NEW e \in Entries, DeviceChange(e) PROVE LocksHeldByCalls'
    BY <1>1 DEF DeviceChange
  <1>2. ASSUME NEW c \in Coordinators, PollSucceeds(c) \/ PollFails(c)
        PROVE  LocksHeldByCalls'
    BY <1>2 DEF PollSucceeds, PollFails
  <1>3. ASSUME NEW c \in Coordinators, Select(c) PROVE LocksHeldByCalls'
    BY <1>3 DEF Select
  <1>4. ASSUME NEW c \in Coordinators, LockSource(c) PROVE LocksHeldByCalls'
    BY <1>4 DEF LockSource, Goto
  <1>5. ASSUME NEW c \in Coordinators, LockReceiver(c) PROVE LocksHeldByCalls'
    BY <1>5 DEF LockReceiver, Goto
  <1>6. ASSUME NEW c \in Coordinators, ServeRead(c) PROVE LocksHeldByCalls'
    BY <1>6 DEF ServeRead, Goto
  <1>7. ASSUME NEW c \in Coordinators, ReadRefused(c) PROVE LocksHeldByCalls'
    BY <1>7 DEF ReadRefused, Return
  <1>8. ASSUME NEW c \in Coordinators, ReadDone(c) PROVE LocksHeldByCalls'
    BY <1>8 DEF ReadDone, Goto, Return
  <1>9. ASSUME NEW c \in Coordinators, WriteDone(c) PROVE LocksHeldByCalls'
    BY <1>9 DEF WriteDone, Return
  <1>10. ASSUME NEW c \in Coordinators, Abort(c) PROVE LocksHeldByCalls'
    BY <1>10 DEF Abort, Return
  <1> QED BY <1>1, <1>2, <1>3, <1>4, <1>5, <1>6, <1>7, <1>8, <1>9, <1>10
          DEF Operate, Advance, RequestFails, Cancel

(* Whatever publishes dispatches, and a failure that is kept from the      *)
(* listeners only takes sources away.                                      *)
LEMMA OperateShown ==
    ASSUME IInv, Operate
    PROVE  ShownOptionsFresh'
  <1> USE DEF IInv, TypeOK, endpoints, lifecycle, published, calls
  <1>1. CASE Dispatch /\ entity' = entity
    BY <1>1, DispatchFresh
  <1>2. CASE /\ lifecycle' = lifecycle /\ shown' = shown /\ data' = data
             /\ \A s \in Coordinators : success'[s] => success[s]
    <2>1. \A c : Transmitters(c)' = Transmitters(c) /\ Sources(c)' \subseteq Sources(c)
      BY <1>2 DEF Transmitters, Sources
    <2>2. \A f : SelectOf(f)' = SelectOf(f)
      BY <1>2 DEF SelectOf
    <2> QED BY <1>2, <2>1, <2>2 DEF ShownOptionsFresh
  <1>3. ASSUME NEW c \in Coordinators, PollFails(c) PROVE ShownOptionsFresh'
    BY <1>1, <1>2, <1>3 DEF PollFails
  <1>4. ASSUME NEW c \in Coordinators, PollSucceeds(c) \/ ReadDone(c) \/ WriteDone(c)
        PROVE  ShownOptionsFresh'
    BY <1>1, <1>4 DEF PollSucceeds, ReadDone, WriteDone
  <1>5. ASSUME NEW c \in Coordinators,
               \/ Select(c) \/ LockSource(c) \/ LockReceiver(c) \/ ServeRead(c) \/ ReadRefused(c)
               \/ Abort(c)
        PROVE  ShownOptionsFresh'
    BY <1>2, <1>5 DEF Select, LockSource, LockReceiver, ServeRead, ReadRefused, Abort
  <1>6. ASSUME NEW e \in Entries, DeviceChange(e) PROVE ShownOptionsFresh'
    BY <1>2, <1>6 DEF DeviceChange
  <1> QED BY <1>3, <1>4, <1>5, <1>6 DEF Operate, Advance, RequestFails, Cancel

LEMMA Inductive == IInv /\ [Next]_vars => IInv'
  <1> SUFFICES ASSUME IInv, [Next]_vars PROVE IInv'
    OBVIOUS
  <1>1. ASSUME NEW e \in Entries, Lifecycle(e) PROVE IInv'
    BY <1>1, LifecycleTypes, LifecycleGenerations, LifecycleShown DEF IInv
  <1>2. CASE Operate
    BY <1>2, OperateTypes, OperateGenerations, OperateLocks, OperateShown DEF IInv
  <1>3. CASE UNCHANGED vars
    BY <1>3 DEF vars, endpoints, lifecycle, published, calls, IInv, TypeOK, GenerationsGrow,
                CatalogMatchesLifecycle, LocksHeldByCalls, ShownOptionsFresh, SelectOf,
                Transmitters, Sources
  <1> QED BY <1>1, <1>2, <1>3 DEF Next

LEMMA Invariance == Spec => []IInv
  BY InitIInv, Inductive, PTL DEF Spec

-----------------------------------------------------------------------------
(* The theorems                                                            *)

(* Every reachable state is well typed, whatever is set up, unloaded,      *)
(* selected, cancelled or changed.                                         *)
THEOREM TypeCorrect == Spec => []TypeOK
  <1>1. IInv => TypeOK
    BY DEF IInv
  <1> QED BY <1>1, Invariance, PTL

(* The catalog holds the newest coordinator of an entry exactly while it   *)
(* may be offered: no failed or cancelled setup leaves one behind.         *)
THEOREM CatalogIsRight == Spec => []CatalogMatchesLifecycle
  <1>1. IInv => CatalogMatchesLifecycle
    BY DEF IInv
  <1> QED BY <1>1, Invariance, PTL

(* No call waits for a lock while it holds another, and none leaks one.    *)
THEOREM LocksAreHeldByCalls == Spec => []LocksHeldByCalls
  <1>1. IInv => LocksHeldByCalls
    BY DEF IInv
  <1> QED BY <1>1, Invariance, PTL

(* No option outlives the coordinator, identity or location it stands for, *)
(* and none is missing but those of entries still being set up.            *)
THEOREM OptionsAreFresh == Spec => []ShownOptionsFresh
  <1>1. IInv => ShownOptionsFresh
    BY DEF IInv
  <1> QED BY <1>1, Invariance, PTL

(* A receiver is written with a location that the registered coordinator   *)
(* of its transmitter publishes when the call goes on, whatever happened   *)
(* while the transmitter was read.                                         *)
THEOREM WritesArePublished == Spec => RoutesToPublished
  <1> DEFINE Routes(c) ==
        LET e == source[c][1] IN
        /\ catalog[e] # 0
        /\ data'[<<e, catalog[e]>>].id = UniqueId[e]
        /\ data'[<<e, catalog[e]>>].loc = fresh[c].loc
  <1>1. ASSUME IInv, [Next]_vars, NEW c \in Coordinators, pc[c] = "read", pc'[c] = "write_wait"
        PROVE  Routes(c)
    <2>1. ReadDone(c)
      <3>1. pc \in [Coordinators -> {"idle", "read_wait", "reading", "read", "write_wait", "writing"}]
        BY <1>1 DEF IInv, TypeOK
      <3>2. pc' # pc
        BY <1>1
      <3>3. ASSUME NEW e \in Entries, Lifecycle(e) PROVE FALSE
        BY <3>2, <3>3 DEF Lifecycle, StartSetup, FirstRefreshFails, FirstRefresh, SetupSelect,
           ForwardDone, ForwardFails, StartUnload, UnloadSelect, UnloadDone, UnloadFails, calls
      <3>4. ASSUME NEW e \in Entries, DeviceChange(e) PROVE FALSE
        BY <3>2, <3>4 DEF DeviceChange, calls
      <3>5. ASSUME NEW d \in Coordinators, PollSucceeds(d) \/ PollFails(d) PROVE FALSE
        BY <3>2, <3>5 DEF PollSucceeds, PollFails, calls
      <3>6. ASSUME NEW d \in Coordinators,
                   \/ Select(d) \/ LockSource(d) \/ LockReceiver(d) \/ ServeRead(d)
                   \/ ReadRefused(d) \/ WriteDone(d) \/ Abort(d)
            PROVE  FALSE
        <4>1. \E step \in {"idle", "read_wait", "reading", "read", "writing"} :
                 pc' = [pc EXCEPT ![d] = step]
          BY <3>6 DEF Select, LockSource, LockReceiver, ServeRead, ReadRefused, WriteDone, Abort,
             Goto, Return
        <4> QED BY <1>1, <3>1, <4>1
      <3>7. ASSUME NEW d \in Coordinators, ReadDone(d), d # c PROVE FALSE
        <4>1. \E step : pc' = [pc EXCEPT ![d] = step]
          BY <3>7 DEF ReadDone, Goto, Return
        <4> QED BY <1>1, <3>1, <3>7, <4>1
      <3>8. Next
        BY <1>1, <3>2 DEF vars, calls
      <3> QED BY <3>3, <3>4, <3>5, <3>6, <3>7, <3>8 DEF Next, Operate, Advance, RequestFails, Cancel
    <2>2. /\ source[c] \in Coordinators /\ data' = [data EXCEPT ![source[c]] = fresh[c]]
          /\ catalog' = catalog /\ fresh[c].id = UniqueId[source[c][1]]
      BY <1>1, <2>1 DEF ReadDone, IInv, TypeOK, lifecycle
    <2>3. StillOffered(c)
      BY <1>1, <2>1 DEF ReadDone, Return, IInv, TypeOK
    <2>4. catalog[source[c][1]] = source[c][2]
      BY <2>2, <2>3 DEF StillOffered, Sources, Transmitters
    <2>5. source[c] = <<source[c][1], source[c][2]>> /\ source[c][2] # 0
      BY <2>2, GensFacts DEF Coordinators
    <2>6. data'[source[c]] = fresh[c]
      BY <1>1, <2>2 DEF IInv, TypeOK
    <2> QED BY <2>2, <2>4, <2>5, <2>6
  <1>2. ASSUME IInv, [Next]_vars
        PROVE  \A c \in Coordinators : pc[c] = "read" /\ pc'[c] = "write_wait" => Routes(c)
    BY <1>1, <1>2
  <1>3. IInv /\ [Next]_vars =>
          [\A c \in Coordinators : pc[c] = "read" /\ pc'[c] = "write_wait" => Routes(c)]_vars
    BY <1>2
  <1> QED BY <1>3, Invariance, PTL DEF Spec, RoutesToPublished
=============================================================================
