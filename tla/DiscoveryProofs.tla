--------------------------- MODULE DiscoveryProofs ---------------------------
(***************************************************************************)
(* Proofs about Discovery for all scans, hosts, interfaces, targets and    *)
(* limits.                                                                 *)
(***************************************************************************)
EXTENDS Discovery, FiniteSetTheorems, TLAPS

(* A call that has not looked at the interfaces yet has received nothing,  *)
(* and what it found is finite.                                            *)
Fresh ==
    \A s \in Scans :
        /\ IsFiniteSet(devices[s])
        /\ pc[s] \in {"idle", "adapters"} => devices[s] = {} /\ heard[s] = {}

(* A socket without a backlog that still keeps the port is one of a scan   *)
(* suspended in its finally block.                                         *)
Releasing == \A c \in closed : c[3] \/ pc[c[1]] = "closing"

IInv == TypeOK /\ PortOwned /\ Fresh /\ Releasing

LEMMA InitIInv == Init => IInv
  BY FS_EmptySet, DiscoveryAssumption DEF Init, IInv, TypeOK, PortOwned, Fresh, Releasing, Locked

(* The steps that are shared by several actions.                           *)
LEMMA LeaveIInv ==
    ASSUME IInv, NEW s \in Scans, pc[s] \in {"adapters", "source"} \/ (pc[s] = "closing" /\ \A c \in closed : c[1] = s => c[3]), Leave(s)
    PROVE  IInv'
<1>1. TypeOK'
  BY DEF IInv, TypeOK, Leave, Go, network
<1>2. PortOwned'
  BY DiscoveryAssumption DEF IInv, TypeOK, PortOwned, Leave, Go, network, Locked
<1>3. Fresh'
  BY FS_EmptySet DEF IInv, TypeOK, Fresh, Leave, Go
<1>4. Releasing'
  BY DEF IInv, TypeOK, Releasing, Leave, Go, network
<1> QED
  BY <1>1, <1>2, <1>3, <1>4 DEF IInv

LEMMA CloseIInv ==
    ASSUME IInv, NEW s \in Scans, pc[s] \in {"binding", "listening"}, Close(s)
    PROVE  IInv'
<1>1. PICK backlog \in [{c \in sockets : c[1] = s} -> Backlogs] :
          closed' = closed \cup {<<s, c[2], backlog[c]>> : c \in DOMAIN backlog}
  BY DEF Close
<1>2. \A c \in closed' : c \in closed \/ (c \in Scans \X Sources \X BOOLEAN /\ c[1] = s)
  BY <1>1, DiscoveryAssumption DEF IInv, TypeOK
<1>3. TypeOK'
  BY <1>2 DEF IInv, TypeOK, Close, Go, Locked
<1>4. PortOwned'
  BY DEF IInv, TypeOK, PortOwned, Close, Go, Locked
<1>5. Fresh'
  BY DEF IInv, TypeOK, Fresh, Close, Go
<1>6. Releasing'
  BY <1>2 DEF IInv, TypeOK, Releasing, Close, Go
<1> QED
  BY <1>3, <1>4, <1>5, <1>6 DEF IInv

LEMMA StepIInv == IInv /\ [Next]_vars => IInv'
<1> SUFFICES ASSUME IInv, [Next]_vars PROVE IInv'
  OBVIOUS
<1>1. ASSUME NEW s \in Scans, Start(s) PROVE IInv'
  <2>1. TypeOK'
    BY <1>1 DEF IInv, TypeOK, Start, Go, network, Locked
  <2>2. PortOwned'
    BY <1>1, DiscoveryAssumption DEF IInv, TypeOK, PortOwned, Start, Go, network, Locked
  <2>3. Fresh' /\ Releasing'
    BY <1>1 DEF IInv, TypeOK, Fresh, Releasing, Start, Go, network
  <2> QED
    BY <2>1, <2>2, <2>3 DEF IInv
<1>2. ASSUME NEW s \in Scans, AdaptersKnown(s) PROVE IInv'
  <2>1. CASE Leave(s)
    BY <2>1, <1>2, LeaveIInv DEF AdaptersKnown
  <2>2. CASE ~Leave(s)
    <3>1. PICK enabled \in Adapters :
             /\ adapters' = [adapters EXCEPT ![s] = enabled]
             /\ plans' = [plans EXCEPT ![s] = IF target[s] = Local THEN enabled \cap Broadcasting ELSE {}]
             /\ Go(s, IF target[s] = Local THEN "binding" ELSE "source")
             /\ UNCHANGED <<lock, target, devices, network, heard>>
      BY <2>2, <1>2 DEF AdaptersKnown
    <3>2. TypeOK'
      BY <3>1, DiscoveryAssumption DEF IInv, TypeOK, Go, network, Locked, Sources
    <3>3. PortOwned' /\ Fresh' /\ Releasing'
      BY <3>1, <1>2 DEF IInv, TypeOK, PortOwned, Fresh, Releasing, AdaptersKnown, Go, network, Locked
    <3> QED
      BY <3>2, <3>3 DEF IInv
  <2> QED
    BY <2>1, <2>2
<1>3. ASSUME NEW s \in Scans, SourceKnown(s) PROVE IInv'
  <2>1. CASE Leave(s)
    BY <2>1, <1>3, LeaveIInv DEF SourceKnown
  <2>2. CASE ~Leave(s)
    <3>1. PICK source \in adapters[s] : plans' = [plans EXCEPT ![s] = {source}]
      BY <2>2, <1>3 DEF SourceKnown
    <3>2. source \in Sources /\ Go(s, "binding") /\ UNCHANGED <<lock, target, adapters, devices, network, heard>>
      BY <2>2, <1>3 DEF SourceKnown, IInv, TypeOK
    <3>3. TypeOK'
      BY <3>1, <3>2 DEF IInv, TypeOK, Go, network, Locked
    <3>4. PortOwned' /\ Fresh' /\ Releasing'
      BY <3>1, <3>2, <1>3 DEF IInv, TypeOK, PortOwned, Fresh, Releasing, SourceKnown, Go, network, Locked
    <3> QED
      BY <3>3, <3>4 DEF IInv
  <2> QED
    BY <2>1, <2>2
<1>4. ASSUME NEW s \in Scans, Bind(s) PROVE IInv'
  <2>1. PICK source \in plans[s] :
           /\ sockets' = sockets \cup {<<s, source>>}
           /\ plans' = [plans EXCEPT ![s] = @ \ {source}]
    BY <1>4 DEF Bind
  <2>2. source \in Sources
    BY <2>1 DEF IInv, TypeOK
  <2>3. TypeOK'
    BY <2>1, <2>2, <1>4 DEF IInv, TypeOK, Bind, Go, Locked
  <2>4. PortOwned' /\ Fresh' /\ Releasing'
    BY <2>1, <2>2, <1>4 DEF IInv, TypeOK, PortOwned, Fresh, Releasing, Bind, Go, Locked
  <2> QED
    BY <2>3, <2>4 DEF IInv
<1>5. ASSUME NEW s \in Scans, BindFails(s) \/ Listened(s) PROVE IInv'
  BY <1>5, CloseIInv DEF BindFails, Listened
<1>6. ASSUME NEW s \in Scans, Finish(s) PROVE IInv'
  BY <1>6, LeaveIInv DEF Finish
<1>7. ASSUME NEW s \in Scans, Cancel(s) PROVE IInv'
  BY <1>7, LeaveIInv, CloseIInv DEF Cancel
<1>8. ASSUME NEW s \in Scans, NEW source \in Sources, NEW host \in Hosts, Reply(s, source, host) PROVE IInv'
  <2>1. pc[s] \in {"binding", "listening"}
    BY <1>8 DEF Reply, IInv, PortOwned
  <2>2. TypeOK'
    BY <1>8 DEF IInv, TypeOK, Reply, network
  <2>3. PortOwned' /\ Releasing'
    BY <1>8 DEF IInv, TypeOK, PortOwned, Releasing, Reply, network
  <2>4. IsFiniteSet(devices[s] \cup {host})
    BY FS_AddElement DEF IInv, Fresh
  <2>5. Fresh'
    BY <1>8, <2>1, <2>4 DEF IInv, TypeOK, Fresh, Reply
  <2> QED
    BY <2>2, <2>3, <2>5 DEF IInv
<1>9. ASSUME NEW c \in closed, SocketReleased(c) PROVE IInv'
  BY <1>9 DEF IInv, TypeOK, PortOwned, Fresh, Releasing, SocketReleased
<1>10. CASE UNCHANGED vars
  BY <1>10 DEF vars, network, IInv, TypeOK, PortOwned, Fresh, Releasing
<1> QED
  BY <1>1, <1>2, <1>3, <1>4, <1>5, <1>6, <1>7, <1>8, <1>9, <1>10 DEF Next, Run

LEMMA Inductive == Spec => []IInv
  BY InitIInv, StepIInv, PTL DEF Spec

(* Every reachable state is well typed (all of discovery.py:132-198).      *)
THEOREM TypeCorrect == Spec => []TypeOK
  BY Inductive, PTL DEF IInv

(* The lock and every open socket belong to one scan that is at work, and  *)
(* no return, OSError or cancellation leaks them (discovery.py:192-197).   *)
THEOREM PortIsOwned == Spec => []PortOwned
  BY Inductive, PTL DEF IInv

(* A step that leaves what a scan received, found and asked for, or that   *)
(* leaves it with nothing received, keeps its results right.               *)
LEMMA SameResults ==
    ASSUME NEW s \in Scans, MaxTargets \in Nat, FoundRight,
           \/ heard'[s] = {} /\ devices'[s] = {}
           \/ /\ heard'[s] = heard[s] /\ devices'[s] = devices[s]
              /\ target'[s] = target[s] /\ adapters'[s] = adapters[s]
    PROVE  /\ devices'[s] \subseteq Eligible(s)'
           /\ Cardinality(devices'[s]) <= MaxTargets
           /\ devices'[s] = Eligible(s)' \/ Cardinality(devices'[s]) = MaxTargets
<1>1. CASE heard'[s] = {} /\ devices'[s] = {}
  BY <1>1, FS_EmptySet DEF Eligible
<1>2. CASE /\ heard'[s] = heard[s] /\ devices'[s] = devices[s]
           /\ target'[s] = target[s] /\ adapters'[s] = adapters[s]
  <2>1. Eligible(s)' = Eligible(s)
    BY <1>2 DEF Eligible, Scope
  <2> QED
    BY <1>2, <2>1 DEF FoundRight
<1> QED
  BY <1>1, <1>2

(* A reply changes the results of its own scan, and they stay right.       *)
LEMMA ReplyResults ==
    ASSUME IInv, FoundRight, NEW s \in Scans, NEW source \in Sources, NEW host \in Hosts,
           Reply(s, source, host)
    PROVE  /\ devices'[s] \subseteq Eligible(s)'
           /\ Cardinality(devices'[s]) <= MaxTargets
           /\ devices'[s] = Eligible(s)' \/ Cardinality(devices'[s]) = MaxTargets
<1>1. heard'[s] = heard[s] \cup {<<source, host>>} /\ target' = target /\ adapters' = adapters
  BY DEF Reply, IInv, TypeOK
<1>2. Eligible(s)' = Eligible(s) \cup (IF host \in Scope(s, source) \ adapters[s] THEN {host} ELSE {})
  BY <1>1 DEF Eligible, Scope
<1>3. MaxTargets \in Nat /\ IsFiniteSet(devices[s]) /\ Cardinality(devices[s]) \in Nat
  BY FS_CardinalityType, DiscoveryAssumption DEF IInv, Fresh
<1>4. CASE Accepts(s, source, host)
  <2>1. devices'[s] = devices[s] \cup {host}
    BY <1>4 DEF Reply, IInv, TypeOK
  <2>2. Cardinality(devices[s] \cup {host})
           = IF host \in devices[s] THEN Cardinality(devices[s]) ELSE Cardinality(devices[s]) + 1
    BY <1>3, FS_AddElement
  <2>3. Cardinality(devices[s]) < MaxTargets /\ host \in Scope(s, source) \ adapters[s]
    BY <1>4 DEF Accepts
  <2>4. devices[s] = Eligible(s)
    BY <2>3, <1>3 DEF FoundRight
  <2>5. Cardinality(devices[s] \cup {host}) \in Nat
    BY <1>3, FS_AddElement, FS_CardinalityType
  <2> QED
    BY <1>2, <1>3, <2>1, <2>2, <2>3, <2>4, <2>5
<1>5. CASE ~Accepts(s, source, host)
  <2>1. devices'[s] = devices[s]
    BY <1>5 DEF Reply
  <2>2. host \notin Scope(s, source) \ adapters[s] \/ Cardinality(devices[s]) = MaxTargets
    BY <1>3, <1>5 DEF Accepts, FoundRight
  <2> QED
    BY <1>2, <2>1, <2>2 DEF FoundRight
<1> QED
  BY <1>4, <1>5

(* What a scan found is right (discovery.py:122-129).                      *)
THEOREM ResultsRight == Spec => []FoundRight
<1>1. Init => FoundRight
  BY FS_EmptySet, DiscoveryAssumption DEF Init, FoundRight, Eligible
<1>2. IInv /\ FoundRight /\ [Next]_vars => FoundRight'
  <2> SUFFICES ASSUME IInv, FoundRight, [Next]_vars, NEW s \in Scans
               PROVE  /\ devices'[s] \subseteq Eligible(s)'
                      /\ Cardinality(devices'[s]) <= MaxTargets
                      /\ devices'[s] = Eligible(s)' \/ Cardinality(devices'[s]) = MaxTargets
    BY DEF FoundRight
  <2> DEFINE Kept ==
        \/ heard'[s] = {} /\ devices'[s] = {}
        \/ /\ heard'[s] = heard[s] /\ devices'[s] = devices[s]
           /\ target'[s] = target[s] /\ adapters'[s] = adapters[s]
  <2>1. ASSUME NEW r \in Scans, Close(r) PROVE Kept
    BY <2>1 DEF Close
  <2>2. ASSUME NEW r \in Scans, Leave(r) PROVE Kept
    BY <2>2 DEF Leave, IInv, TypeOK
  <2>3. ASSUME NEW r \in Scans, Start(r) PROVE Kept
    BY <2>3 DEF Start, IInv, TypeOK, Fresh
  <2>4. ASSUME NEW r \in Scans, AdaptersKnown(r) PROVE Kept
    BY <2>4, <2>2 DEF AdaptersKnown, IInv, TypeOK, Fresh
  <2>5. ASSUME NEW r \in Scans, SourceKnown(r) \/ Bind(r) PROVE Kept
    BY <2>5, <2>2 DEF SourceKnown, Bind
  <2>6. ASSUME NEW c \in closed, SocketReleased(c) PROVE Kept
    BY <2>6 DEF SocketReleased
  <2>7. ASSUME UNCHANGED vars PROVE Kept
    BY <2>7 DEF vars
  <2>8. ASSUME NEW r \in Scans \ {s}, NEW source \in Sources, NEW host \in Hosts, Reply(r, source, host)
        PROVE Kept
    BY <2>8 DEF Reply, IInv, TypeOK
  <2>9. ASSUME NEW source \in Sources, NEW host \in Hosts, Reply(s, source, host)
        PROVE /\ devices'[s] \subseteq Eligible(s)'
              /\ Cardinality(devices'[s]) <= MaxTargets
              /\ devices'[s] = Eligible(s)' \/ Cardinality(devices'[s]) = MaxTargets
    BY <2>9, ReplyResults
  <2> HIDE DEF Kept
  <2>10. Kept \/ \E source \in Sources, host \in Hosts : Reply(s, source, host)
    BY <2>1, <2>2, <2>3, <2>4, <2>5, <2>6, <2>7, <2>8
    DEF Next, Run, BindFails, Listened, Finish, Cancel
  <2> QED
    BY <2>9, <2>10, SameResults, DiscoveryAssumption DEF Kept
<1> QED
  BY <1>1, <1>2, Inductive, PTL DEF Spec

(* With the lock free, only sockets closed with probes unsent keep the     *)
(* port (discovery.py:192-197).                                            *)
THEOREM PortIsFree == Spec => []PortFreeWithLock
<1>1. IInv => PortFreeWithLock
  BY DiscoveryAssumption DEF IInv, TypeOK, PortOwned, Releasing, PortFreeWithLock, Locked
<1> QED
  BY <1>1, Inductive, PTL
=============================================================================
