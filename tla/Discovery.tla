------------------------------ MODULE Discovery ------------------------------
(***************************************************************************)
(* UDP discovery (discovery.py): one scan at a time owns the reply port,   *)
(* opens one socket for each interface it uses, collects replies and       *)
(* closes the sockets before it lets the next scan in.                     *)
(*                                                                         *)
(* External parts, modelled from how src uses them: the interfaces, the    *)
(* network, and asyncio's datagram transports.  A transport that is closed *)
(* no longer receives; its socket keeps the port until a callback, which   *)
(* is scheduled by close, or, if datagrams are still unsent (a backlog),   *)
(* once they are gone.                                                     *)
(***************************************************************************)
EXTENDS Integers, FiniteSets

CONSTANTS
    Scans,        \* tasks that call async_discover, again and again
    Hosts,        \* usable addresses, local ones included
    Adapters,     \* the sets of interfaces that may be enabled
    Net,          \* network of an interface, a set of hosts
    Broadcasting, \* interfaces whose prefix is shorter than 31
    Targets,      \* targets that parse, sets of hosts
    Local,        \* what stands for no target
    Backlogs,     \* whether a socket that is closed has a backlog
    MaxTargets,   \* MAX_TARGETS
    Free

ASSUME DiscoveryAssumption ==
    /\ Adapters \subseteq SUBSET Hosts
    /\ Net \in [UNION Adapters -> SUBSET Hosts]
    /\ Broadcasting \subseteq UNION Adapters
    /\ Targets \subseteq SUBSET Hosts
    /\ Local \notin Targets
    /\ Backlogs \subseteq BOOLEAN
    /\ MaxTargets \in Nat
    /\ Free \notin Scans

VARIABLES
    lock,      \* the scan that holds the lock in hass.data
    pc,        \* where each scan is suspended
    target,    \* its argument
    adapters,  \* local_hosts: the interfaces it found
    plans,     \* sources whose socket is still to be opened
    devices,   \* hosts of the devices found
    sockets,   \* <<scan, source>>: open sockets
    closed,    \* <<scan, source, backlog>>: closed ones that keep the port
    heard      \* <<source, host>>: valid replies a scan received (history)

network == <<sockets, closed>>
vars == <<lock, pc, target, adapters, plans, devices, network, heard>>

Sources == UNION Adapters
Locked  == {"adapters", "source", "binding", "listening", "closing"}

Init ==
    /\ lock = Free
    /\ pc = [s \in Scans |-> "idle"]
    /\ target = [s \in Scans |-> Local]
    /\ adapters = [s \in Scans |-> {}]
    /\ plans = [s \in Scans |-> {}]
    /\ devices = [s \in Scans |-> {}]
    /\ sockets = {}
    /\ closed = {}
    /\ heard = [s \in Scans |-> {}]

Go(s, step) == pc' = [pc EXCEPT ![s] = step]

(* The hosts whose replies a socket accepts: its scope.                    *)
Scope(s, source) == IF target[s] = Local THEN Net[source] ELSE target[s]

-----------------------------------------------------------------------------
(* The check of the lock and its acquisition are one step: a free lock is  *)
(* entered without an await.  While it is held async_discover raises       *)
(* DiscoveryBusyError and changes nothing.                                 *)
Start(s) ==
    /\ pc[s] = "idle"
    /\ lock = Free
    /\ lock' = s
    /\ Go(s, "adapters")
    /\ \E t \in Targets \cup {Local} : target' = [target EXCEPT ![s] = t]
    /\ UNCHANGED <<adapters, plans, devices, network, heard>>

(* A call ends: its locals are gone and the lock is given back.            *)
Leave(s) ==
    /\ lock' = Free
    /\ Go(s, "idle")
    /\ target' = [target EXCEPT ![s] = Local]
    /\ adapters' = [adapters EXCEPT ![s] = {}]
    /\ plans' = [plans EXCEPT ![s] = {}]
    /\ devices' = [devices EXCEPT ![s] = {}]
    /\ heard' = [heard EXCEPT ![s] = {}]
    /\ UNCHANGED network

(* The interfaces are known: without a target each one that broadcasts is  *)
(* planned, with a target the source address is asked for, and with nobody *)
(* to send to the call fails.                                              *)
AdaptersKnown(s) ==
    /\ pc[s] = "adapters"
    /\ \E enabled \in Adapters :
          \/ /\ IF target[s] = Local THEN enabled \cap Broadcasting # {}
                ELSE target[s] \ enabled # {}
             /\ adapters' = [adapters EXCEPT ![s] = enabled]
             /\ plans' = [plans EXCEPT ![s] = IF target[s] = Local THEN enabled \cap Broadcasting ELSE {}]
             /\ Go(s, IF target[s] = Local THEN "binding" ELSE "source")
             /\ UNCHANGED <<lock, target, devices, network, heard>>
          \/ /\ IF target[s] = Local THEN enabled \cap Broadcasting = {}
                ELSE target[s] \ enabled = {}
             /\ Leave(s)

(* Fault: whatever source address is named is used.                        *)
SourceUnchecked(s) ==
    /\ pc[s] = "source"
    /\ \E source \in Hosts : plans' = [plans EXCEPT ![s] = {source}]
    /\ Go(s, "binding")
    /\ UNCHANGED <<lock, target, adapters, devices, network, heard>>

SourceKnown(s) ==
    /\ pc[s] = "source"
    /\ \/ /\ \E source \in adapters[s] : plans' = [plans EXCEPT ![s] = {source}]
          /\ Go(s, "binding")
          /\ UNCHANGED <<lock, target, adapters, devices, network, heard>>
       \/ Leave(s)

(* Somebody holds the port of a source.                                    *)
Taken(source) ==
    \/ \E s \in Scans : <<s, source>> \in sockets
    \/ \E s \in Scans, b \in BOOLEAN : <<s, source, b>> \in closed

Bind(s) ==
    /\ pc[s] = "binding"
    /\ \E source \in plans[s] :
          /\ ~Taken(source)
          /\ sockets' = sockets \cup {<<s, source>>}
          /\ plans' = [plans EXCEPT ![s] = @ \ {source}]
    /\ Go(s, IF plans'[s] = {} THEN "listening" ELSE "binding")
    /\ UNCHANGED <<lock, target, adapters, devices, closed, heard>>

(* The finally block: every socket is closed and the scan suspended once.  *)
Close(s) ==
    /\ \E backlog \in [{c \in sockets : c[1] = s} -> Backlogs] :
          closed' = closed \cup {<<s, c[2], backlog[c]>> : c \in DOMAIN backlog}
    /\ sockets' = {c \in sockets : c[1] # s}
    /\ plans' = [plans EXCEPT ![s] = {}]
    /\ Go(s, "closing")
    /\ UNCHANGED <<lock, target, adapters, devices, heard>>

(* Fault: a socket that cannot be opened leaves the others open.           *)
BindFailsLeaking(s) == pc[s] = "binding" /\ Leave(s)

(* Fault: a source that is taken is waited for.                            *)
BindFailsRetrying(s) == pc[s] = "binding" /\ UNCHANGED vars

(* An OSError: a source that is taken, by a scan or by another program.    *)
BindFails(s) == pc[s] = "binding" /\ Close(s)

(* Both rounds of probes are sent and the reply timeout is over.           *)
Listened(s) == pc[s] = "listening" /\ Close(s)

(* Fault: the capacity is compared one too late.                           *)
AcceptsBeyondCapacity(s, source, host) ==
    /\ host \in Scope(s, source) \ adapters[s]
    /\ Cardinality(devices[s]) <= MaxTargets

(* A reply counts.                                                         *)
Accepts(s, source, host) ==
    /\ host \in Scope(s, source) \ adapters[s]
    /\ Cardinality(devices[s]) < MaxTargets

(* A valid reply of a host reaches an open socket, at any moment; invalid  *)
(* ones change nothing.                                                    *)
Reply(s, source, host) ==
    /\ <<s, source>> \in sockets
    /\ heard' = [heard EXCEPT ![s] = @ \cup {<<source, host>>}]
    /\ devices' = IF Accepts(s, source, host) THEN [devices EXCEPT ![s] = @ \cup {host}] ELSE devices
    /\ UNCHANGED <<lock, pc, target, adapters, plans, network>>

(* The callback that gives the port back.                                  *)
SocketReleased(c) ==
    /\ closed' = closed \ {c}
    /\ UNCHANGED <<lock, pc, target, adapters, plans, devices, sockets, heard>>

(* Fault: the lock is given back without waiting for the callbacks.        *)
FinishAtOnce(s) == pc[s] = "closing" /\ Leave(s)

(* After one turn of the loop: scheduled callbacks have run.               *)
Finish(s) ==
    /\ pc[s] = "closing"
    /\ \A c \in closed : c[1] = s => c[3]
    /\ Leave(s)

(* The task is cancelled at an await; at the last one, where the finally   *)
(* block is suspended, the scan ends as by Finish.                         *)
Cancel(s) ==
    \/ pc[s] \in {"adapters", "source"} /\ Leave(s)
    \/ pc[s] \in {"binding", "listening"} /\ Close(s)

Run(s) ==
    \/ AdaptersKnown(s) \/ SourceKnown(s)
    \/ Bind(s) \/ BindFails(s) \/ Listened(s) \/ Finish(s)

Next ==
    \/ \E s \in Scans : Start(s) \/ Run(s) \/ Cancel(s)
    \/ \E s \in Scans, source \in Sources, host \in Hosts : Reply(s, source, host)
    \/ \E c \in closed : SocketReleased(c)

(* The event loop runs every task that can go on and every callback; each  *)
(* await of a scan is bounded (lookups of Home Assistant, two timers).     *)
Spec == /\ Init /\ [][Next]_vars
        /\ \A s \in Scans : WF_vars(Run(s))
        /\ WF_vars(\E c \in closed : ~c[3] /\ SocketReleased(c))

-----------------------------------------------------------------------------
(* Every variable has its type, and sockets belong to their steps.         *)
TypeOK ==
    /\ lock \in Scans \cup {Free}
    /\ pc \in [Scans -> Locked \cup {"idle"}]
    /\ target \in [Scans -> Targets \cup {Local}]
    /\ adapters \in [Scans -> SUBSET Sources]
    /\ plans \in [Scans -> SUBSET Sources]
    /\ devices \in [Scans -> SUBSET Hosts]
    /\ sockets \subseteq Scans \X Sources
    /\ closed \subseteq Scans \X Sources \X BOOLEAN
    /\ heard \in [Scans -> SUBSET (Sources \X Hosts)]

(* The reply port is owned by the scan that holds the lock: only its       *)
(* sockets are open, while it waits for them, and no way out of a scan     *)
(* leaks the lock or a socket (discovery.py:142-145, 192-197).             *)
PortOwned ==
    /\ \A s \in Scans : pc[s] \in Locked <=> lock = s
    /\ \A c \in sockets : pc[c[1]] \in {"binding", "listening"}

Eligible(s) ==
    {h \in Hosts \ adapters[s] : \E a \in Sources : <<a, h>> \in heard[s] /\ h \in Scope(s, a)}

(* What a scan found are hosts that replied to it, on a socket in whose    *)
(* scope they are, that are not this machine, and at most MAX_TARGETS; and *)
(* only the limit makes it miss one (discovery.py:122-129).                *)
FoundRight ==
    \A s \in Scans :
        /\ devices[s] \subseteq Eligible(s)
        /\ Cardinality(devices[s]) <= MaxTargets
        /\ devices[s] = Eligible(s) \/ Cardinality(devices[s]) = MaxTargets

(* discovery.py:195-196, `Datagram transports release their socket in a    *)
(* scheduled callback. Allow that callback to run before another scan      *)
(* acquires the lock': with the lock free, a socket that still keeps the   *)
(* port is one that was closed with probes unsent.                         *)
PortFreeWithLock == lock = Free => sockets = {} /\ \A c \in closed : c[3]

(* Every scan ends, whatever fails and whoever else asks.                  *)
ScansEnd == \A s \in Scans : pc[s] # "idle" ~> pc[s] = "idle"
=============================================================================
