------------------------------ MODULE Identity ------------------------------
(***************************************************************************)
(* The two kinds of identity the integration keeps apart (identity.py):    *)
(* addresses of the configured hosts, looked up under one semaphore with a *)
(* timeout, and the match of a device that accepted a login with an entry. *)
(* Entries come and go, and are registered as devices, while lookups are   *)
(* awaited: whichever device answers at the host of an entry is registered *)
(* for it.  Time is counted in ticks, and timers fire on time.             *)
(***************************************************************************)
EXTENDS Integers, Sequences, FiniteSets

CONSTANTS
    Devices,       \* interfaces of endpoints: records of unit, serial, model, host
    Callers,       \* tasks that call async_configured_addresses
    Literals,      \* hosts that are IPv4 addresses themselves
    Addresses,     \* addresses of each host, in its DNS or itself
    NoSerial,      \* "unknown", "none", zeros...
    NoEntry,
    Limit,         \* permits of the semaphore
    Timeout,       \* _DNS_TIMEOUT
    MaxEntries,    \* bound: entries at one time
    MaxRegistered  \* bound: devices registered for them

Hosts == {d.host : d \in Devices}

(* A serial that is one names one unit of its model.                       *)
ASSUME IdentityAssumption ==
    /\ \A d \in Devices : DOMAIN d = {"id", "unit", "serial", "model", "host"}
    /\ \A d, e \in Devices :
          /\ d.id = e.id => d = e
          /\ d.unit = e.unit => d.serial = e.serial /\ d.model = e.model
          /\ d.serial = e.serial /\ d.model = e.model /\ d.serial # NoSerial => d.unit = e.unit
    /\ NoEntry \notin Devices
    /\ DOMAIN Addresses = Hosts
    /\ Limit \in Nat \ {0} /\ Timeout \in Nat \ {0}
    /\ MaxEntries \in Nat /\ MaxRegistered \in Nat

VARIABLES
    entries,       \* config entries, each named by the interface it was added for
    registered,    \* <<entry, device>>: the registered devices of the entries
    asked,         \* hosts a call looks up, {} when the caller is not in one
    found,         \* addresses its lookups returned so far
    failed,        \* one of them returned nothing (history)
    active,        \* lookups <<caller, host>> that hold a permit
    waiting,       \* lookups that wait for one, in order
    left,          \* ticks until the timeout of each lookup
    age            \* ticks since a call began, up to Timeout + 1 (history)

config == <<entries, registered>>
calls  == <<asked, found, failed, age>>
vars   == <<config, calls, active, waiting, left>>

Lookups == Callers \X Hosts
Waits(w) == {w[i] : i \in DOMAIN w}
Open == active \cup Waits(waiting)
Done(c) == asked[c] # {} /\ \A h \in Hosts : <<c, h>> \notin Open

Init ==
    /\ entries = {} /\ registered = {}
    /\ asked = [c \in Callers |-> {}] /\ found = [c \in Callers |-> {}]
    /\ failed = [c \in Callers |-> FALSE]
    /\ active = {} /\ waiting = <<>>
    /\ left = [t \in Lookups |-> 0]
    /\ age = [c \in Callers |-> 0]

-----------------------------------------------------------------------------
(* The match of a device that accepted a login                             *)

(* Entries with a registered device of this serial and model.              *)
Matches(d) ==
    {e \in entries : \E x \in Devices :
        <<e, x>> \in registered /\ x.serial = d.serial /\ x.model = d.model}

(* Fault: the first of several matches is taken.                           *)
AuthenticatedEntryFirst(d) ==
    IF d \in entries THEN d
    ELSE IF d.serial = NoSerial \/ Matches(d) = {} THEN NoEntry
    ELSE CHOOSE e \in Matches(d) : TRUE

AuthenticatedEntry(d) ==
    IF d \in entries THEN d
    ELSE IF d.serial = NoSerial \/ Cardinality(Matches(d)) # 1 THEN NoEntry
    ELSE CHOOSE e \in Matches(d) : TRUE

AddEntry(d) ==
    /\ d \notin entries /\ Cardinality(entries) < MaxEntries
    /\ entries' = entries \cup {d}
    /\ UNCHANGED <<registered, calls, active, waiting, left>>

(* An entry is set up, or set up again: its entities register the device   *)
(* that answered at its host, whichever it is, beside those of before.     *)
Register(e, d) ==
    /\ e \in entries /\ d.host = e.host
    /\ <<e, d>> \notin registered /\ Cardinality(registered) < MaxRegistered
    /\ registered' = registered \cup {<<e, d>>}
    /\ UNCHANGED <<entries, calls, active, waiting, left>>

RemoveEntry(d) ==
    /\ d \in entries
    /\ entries' = entries \ {d}
    /\ registered' = {r \in registered : r[1] # d}
    /\ UNCHANGED <<calls, active, waiting, left>>

-----------------------------------------------------------------------------
(* Lookups                                                                 *)

(* Fault: the timeout starts with the permit.                              *)
ServeTimed(a, w, rest) ==
    LET n == IF Len(w) < Limit - Cardinality(a) THEN Len(w) ELSE Limit - Cardinality(a)
    IN  /\ active' = a \cup {w[i] : i \in 1..n}
        /\ waiting' = SubSeq(w, n + 1, Len(w))
        /\ left' = [t \in Lookups |-> IF t \in active' \ a THEN Timeout
                                   ELSE IF t \in a \cup Waits(waiting') THEN rest[t] ELSE 0]

(* Permits go to those who wait, in order.                                 *)
Serve(a, w, rest) ==
    LET n == IF Len(w) < Limit - Cardinality(a) THEN Len(w) ELSE Limit - Cardinality(a)
    IN  /\ active' = a \cup {w[i] : i \in 1..n}
        /\ waiting' = SubSeq(w, n + 1, Len(w))
        /\ left' = [t \in Lookups |-> IF t \in active' \cup Waits(waiting') THEN rest[t] ELSE 0]

(* The orders in which gather may start the lookups of some hosts.         *)
Orders(c, names) ==
    {q \in [1..Cardinality(names) -> {<<c, h>> : h \in names}] :
        \A i, j \in DOMAIN q : i # j => q[i] # q[j]}

(* Fault: literal addresses are not counted.                               *)
KnownNamesOnly(hosts) == {}

KnownAtOnce(hosts) == UNION {Addresses[h] : h \in hosts \cap Literals}

(* async_configured_addresses up to its gather.                            *)
Ask(c) ==
    LET hosts == {d.host : d \in entries}
    IN  /\ asked[c] = {} /\ hosts # {}
        /\ asked' = [asked EXCEPT ![c] = hosts]
        /\ found' = [found EXCEPT ![c] = KnownAtOnce(hosts)]
        /\ failed' = [failed EXCEPT ![c] = FALSE]
        /\ age' = [age EXCEPT ![c] = 0]
        /\ \E q \in Orders(c, hosts \ Literals) :
              Serve(active, waiting \o q,
                    [t \in Lookups |-> IF t[1] = c THEN Timeout ELSE left[t]])
        /\ UNCHANGED config

(* A queue that some lookups leave; the others keep their order.           *)
Rank(kept, i) == Cardinality({j \in kept : j <= i})
Without(w, ts) ==
    LET kept == {i \in DOMAIN w : w[i] \notin ts}
    IN  [k \in 1..Cardinality(kept) |-> w[CHOOSE i \in kept : Rank(kept, i) = k]]

(* getaddrinfo returns.                                                    *)
Answer(c, h) ==
    /\ <<c, h>> \in active
    /\ found' = [found EXCEPT ![c] = @ \cup Addresses[h]]
    /\ Serve(active \ {<<c, h>>}, waiting, left)
    /\ UNCHANGED <<config, asked, failed, age>>

(* A lookup that ends with the empty set.                                  *)
Nothing(c, h) ==
    /\ failed' = [failed EXCEPT ![c] = TRUE]
    /\ Serve(active \ {<<c, h>>}, Without(waiting, {<<c, h>>}), left)
    /\ UNCHANGED <<config, asked, found, age>>

(* getaddrinfo raises.                                                     *)
Raise(c, h) == <<c, h>> \in active /\ Nothing(c, h)

(* Fault: a lookup that timed out is tried again.                          *)
TimeOutRetrying(c, h) ==
    /\ <<c, h>> \in Open /\ left[<<c, h>>] = 0
    /\ left' = [left EXCEPT ![<<c, h>>] = Timeout]
    /\ UNCHANGED <<config, calls, active, waiting>>

(* The timeout expires, with or without a permit.                          *)
TimeOut(c, h) == <<c, h>> \in Open /\ left[<<c, h>>] = 0 /\ Nothing(c, h)

(* The call's locals go with it.                                           *)
Leave(c) ==
    /\ asked' = [asked EXCEPT ![c] = {}]
    /\ found' = [found EXCEPT ![c] = {}]
    /\ failed' = [failed EXCEPT ![c] = FALSE]
    /\ age' = [age EXCEPT ![c] = 0]

(* The gather has all its results.                                         *)
Return(c) ==
    /\ Done(c) /\ Leave(c)
    /\ UNCHANGED <<config, active, waiting, left>>

(* Fault: cancelled lookups do not give their permits back.                *)
CancelLeaking(c) ==
    /\ asked[c] # {} /\ Leave(c)
    /\ Serve(active, Without(waiting, {c} \X Hosts), left)
    /\ UNCHANGED config

(* The caller is cancelled, and the gather cancels its lookups.            *)
Cancel(c) ==
    /\ asked[c] # {} /\ Leave(c)
    /\ Serve(active \ ({c} \X Hosts), Without(waiting, {c} \X Hosts), left)
    /\ UNCHANGED config

(* A tick; no timer that is due and no task that is ready waits for it.    *)
Tick ==
    /\ Open # {} /\ \A t \in Open : left[t] > 0
    /\ \A c \in Callers : ~Done(c)
    /\ left' = [t \in Lookups |-> IF t \in Open THEN left[t] - 1 ELSE left[t]]
    /\ age' = [c \in Callers |->
                  IF asked[c] # {} /\ age[c] <= Timeout THEN age[c] + 1 ELSE age[c]]
    /\ UNCHANGED <<config, asked, found, failed, active, waiting>>

Next ==
    \/ \E d \in Devices : AddEntry(d) \/ RemoveEntry(d) \/ \E x \in Devices : Register(d, x)
    \/ \E c \in Callers : Ask(c) \/ Return(c) \/ Cancel(c)
    \/ \E c \in Callers, h \in Hosts : Answer(c, h) \/ Raise(c, h) \/ TimeOut(c, h)
    \/ Tick

Spec == Init /\ [][Next]_vars

(* Timers and the event loop go on, and no succession of calls stops the   *)
(* clock; nothing makes a name server answer.                              *)
FairSpec ==
    /\ Spec /\ SF_vars(Tick)
    /\ \A c \in Callers :
          WF_vars(Return(c)) /\ \A h \in Hosts : WF_vars(TimeOut(c, h))

-----------------------------------------------------------------------------
(* Types; a lookup is open only in its call, and once.                     *)
TypeOK ==
    /\ registered \subseteq entries \X Devices /\ entries \subseteq Devices
    /\ asked \in [Callers -> SUBSET Hosts]
    /\ failed \in [Callers -> BOOLEAN]
    /\ active \subseteq Lookups /\ waiting \in Seq(Lookups)
    /\ left \in [Lookups -> 0..Timeout] /\ age \in [Callers -> 0..Timeout + 1]
    /\ \A t \in Open : t[2] \in asked[t[1]] \ Literals
    /\ \A i, j \in DOMAIN waiting : waiting[i] = waiting[j] => i = j
    /\ \A i \in DOMAIN waiting : waiting[i] \notin active

(* identity.py:38: never more lookups than permits, and no permit lost: a  *)
(* lookup waits only while all of them are in use, and is open only in a   *)
(* call that is not over, once.                                            *)
PermitsKept ==
    /\ TypeOK
    /\ Cardinality(active) <= Limit
    /\ waiting # <<>> => Cardinality(active) = Limit

(* identity.py:42: the two seconds include the wait for a permit, so a     *)
(* call ends in them however many names are slow.                          *)
CallsInTime == \A c \in Callers : asked[c] # {} => age[c] <= Timeout

(* identity.py:57: a call returns the addresses of the literals among the  *)
(* hosts configured when it began and of the names that answered; when all *)
(* lookups answered, of every one of these hosts.                          *)
AllOf(hosts) == UNION {Addresses[h] : h \in hosts}
Answers(hosts) ==
    {AllOf((hosts \cap Literals) \cup names) : names \in SUBSET (hosts \ Literals)}
AnswersWhole ==
    \A c \in Callers : asked[c] # {} =>
        /\ found[c] \in Answers(asked[c])
        /\ Done(c) /\ ~failed[c] => found[c] = AllOf(asked[c])

(* identity.py:60: the entry that matches is the device's own, or else the *)
(* one for which, as the only one, an interface of the device's unit was   *)
(* registered: never an entry for which only other units answered, none by *)
(* a missing serial, and none where two of them would do.                  *)
MatchRight ==
    \A d \in Devices :
        LET match == AuthenticatedEntry(d)
            kin   == {e \in entries : \E x \in Devices :
                         <<e, x>> \in registered /\ x.unit = d.unit}
        IN  /\ d \in entries => match = d
            /\ d \notin entries /\ d.serial = NoSerial => match = NoEntry
            /\ d \notin entries /\ d.serial # NoSerial =>
                  IF Cardinality(kin) = 1 THEN match \in kin ELSE match = NoEntry

(* Every call ends.                                                        *)
CallsReturn == \A c \in Callers : asked[c] # {} ~> asked[c] = {}
=============================================================================
