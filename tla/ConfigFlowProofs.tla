-------------------------- MODULE ConfigFlowProofs --------------------------
(***************************************************************************)
(* Proofs about ConfigFlow, for any number of dialogs, cards, repairs,     *)
(* devices and addresses.  A step of one flow starts, moves on or ends     *)
(* flows (Stepped); only four actions do more: a login that is accepted,   *)
(* the entry that is created, the entry that is repaired, and a removal.   *)
(***************************************************************************)
EXTENDS ConfigFlow, SequenceTheorems, TLAPS

FlowType ==
    [step : Forms \cup Awaits \cup {"none"},
     uid : Devices \cup IPs \cup {NoUid},
     chosen : Hosts \cup {NoHost}, host : Hosts \cup {NoHost},
     found : SUBSET IPs, known : SUBSET Hosts]

(* Hosts at which a login was accepted.                                    *)
SeenHosts == {login[2] : login \in seen}

(* Steps that go on with a host.                                           *)
AtHost == {"validating", "matched", "resolving", "logging_in"}

(* What a flow f may be: it has the values its step needs, repairs are what*)
(* repair flows do, and only hosts that accepted a login are looked up.    *)
WellFormed(f, new) ==
    /\ new \in FlowType
    /\ new.step \in AtHost => new.host \in Hosts
    /\ new.step \in {"repair", "logging_in"} =>
          f \in Repairs /\ \E e \in entries : e.uid = new.uid
    /\ new.step = "repair" => new.chosen = NoHost
    /\ new.known \subseteq SeenHosts

(* A reauthentication logs in at the host of its entry, or the host was    *)
(* changed since, which took a login of the entry's own device there.      *)
Fresh(new) ==
    new.step = "logging_in" /\ new.chosen = NoHost =>
       \A e \in entries : e.uid = new.uid => new.host = e.host \/ <<e.uid, e.host>> \in seen

FlowsWellFormed ==
    /\ flow = [f \in Flows |-> flow[f]]
    /\ \A f \in Flows : WellFormed(f, flow[f]) /\ Fresh(flow[f])

(* A device that passes for uid accepted a login at a host.                *)
Verified(uid, h) == \E d \in Devices : PassesFor(d, uid) /\ <<d, h>> \in seen

(* An address of a host that accepted a login.                             *)
SeenAddress(h) == \E login \in seen : h \in AddressesOf(login[2])

(* A flow that is about to create an entry verified what it will store, and*)
(* holds addresses of hosts that accepted a login.                         *)
Resolves == {"matched", "resolving"}

ResolvingVerified ==
    \A f \in Flows : flow[f].step \in Resolves =>
       /\ flow[f].uid \in Devices /\ Verified(flow[f].uid, flow[f].host)
       /\ \A h \in flow[f].found : SeenAddress(h)

IInv ==
    TypeOK /\ FlowsWellFormed /\ OneEntryPerIdentity /\ EntriesVerified /\ ResolvingVerified

-----------------------------------------------------------------------------
(* Types of what the actions are built from                                *)

LEMMA FlowTyped ==
    ASSUME NEW step \in Forms \cup Awaits \cup {"none"}, NEW uid \in Devices \cup IPs \cup {NoUid},
           NEW chosen \in Hosts \cup {NoHost}, NEW host \in Hosts \cup {NoHost},
           NEW found \in SUBSET IPs, NEW known \in SUBSET Hosts
    PROVE  Flow(step, uid, chosen, host, found, known) \in FlowType
  BY DEF Flow, FlowType

LEMMA NoFlowFacts ==
    /\ NoFlow \in FlowType
    /\ NoFlow.step = "none" /\ NoFlow.known = {}
    /\ \A step \in Forms \cup Awaits \cup {"none"} : [NoFlow EXCEPT !.step = step] \in FlowType
  BY DEF NoFlow, Flow, FlowType

LEMMA EntryHostsFacts ==
    TypeOK /\ EntriesVerified => EntryHosts \subseteq Hosts /\ EntryHosts \subseteq SeenHosts
  <1> SUFFICES ASSUME TypeOK, EntriesVerified, NEW e \in entries
               PROVE  e.host \in Hosts /\ e.host \in SeenHosts
    BY DEF EntryHosts
  <1>1. e.host \in Hosts
    BY DEF TypeOK
  <1>2. \E d \in Devices : <<d, e.host>> \in seen
    BY DEF EntriesVerified
  <1> QED BY <1>1, <1>2 DEF SeenHosts

LEMMA OwnerFacts ==
    ASSUME TypeOK, NEW h \in Hosts
    PROVE  owner[h] \in Devices
  <1>1. owners \in Seq([Hosts -> Devices]) /\ 1 \in 1 .. Len(owners)
    BY EmptySeq DEF TypeOK
  <1>2. owner \in [Hosts -> Devices]
    BY <1>1, ElementOfSeq DEF owner
  <1> QED BY <1>2

LEMMA MatchFacts ==
    ASSUME TypeOK, NEW device
    PROVE  /\ AuthenticatedEntry(device) \subseteq entries
           /\ \A e \in AuthenticatedEntry(device) : PassesFor(device, e.uid)
  BY DEF AuthenticatedEntry, PassesFor, TypeOK

(* Once a device passes for an identity, it does for ever.                 *)
LEMMA PassesOn ==
    ASSUME linked \subseteq linked', seen \subseteq seen', NEW uid
    PROVE  /\ \A d : PassesFor(d, uid) => PassesFor(d, uid)'
           /\ \A h : Verified(uid, h) => Verified(uid, h)'
           /\ \A h : SeenAddress(h) => SeenAddress(h)'
  BY DEF PassesFor, Verified, SeenAddress

LEMMA EntryOfFacts ==
    ASSUME FlowsWellFormed, NEW f \in Flows, flow[f].step \in {"repair", "logging_in"}
    PROVE  EntryOf(f) \in entries /\ EntryOf(f).uid = flow[f].uid /\ f \in Repairs
  <1>1. f \in Repairs /\ \E e \in entries : e.uid = flow[f].uid
    BY DEF FlowsWellFormed, WellFormed
  <1> QED BY <1>1 DEF EntryOf

(* The two forms of the type of the flows say the same.                    *)
LEMMA FlowsTyped ==
    FlowsWellFormed =>
       /\ flow \in [Flows -> FlowType]
       /\ \A f \in Flows :
             /\ flow[f].step \in AtHost => flow[f].host \in Hosts
             /\ flow[f].step \in {"repair", "logging_in"} => \E e \in entries : e.uid = flow[f].uid
  BY DEF FlowsWellFormed, WellFormed

LEMMA InitIInv == Init => IInv
  <1> SUFFICES ASSUME Init PROVE IInv
    OBVIOUS
  <1>1. flow = [f \in Flows |-> NoFlow] /\ entries = {} /\ seen = {}
    BY DEF Init
  <1>2. FlowsWellFormed
    BY <1>1, NoFlowFacts DEF FlowsWellFormed, WellFormed, Fresh, AtHost
  <1>3. TypeOK
    BY <1>2, FlowsTyped, ConfigFlowAssumption DEF Init, TypeOK, FlowType, AtHost
  <1>4. OneEntryPerIdentity /\ EntriesVerified /\ ResolvingVerified
    BY <1>1, NoFlowFacts DEF OneEntryPerIdentity, EntriesVerified, ResolvingVerified, Resolves
  <1> QED BY <1>2, <1>3, <1>4 DEF IInv

-----------------------------------------------------------------------------
(* Steps that change flows and nothing they rely on                        *)

(* A flow that is not about to create an entry.                            *)
Allowed(f, new) == WellFormed(f, new) /\ Fresh(new) /\ new.step \notin Resolves

(* Each flow stays what it was or becomes an allowed one.                  *)
Stepped ==
    /\ owners' \in Seq([Hosts -> Devices]) \ {<<>>}
    /\ removals' \in 0 .. MaxRemovals
    /\ UNCHANGED entries
    /\ registered' \subseteq linked' /\ linked' \subseteq Devices \X Devices
    /\ linked \subseteq linked'
    /\ seen \subseteq seen' /\ seen' \subseteq Devices \X Hosts
    /\ ignored' \subseteq IPs
    /\ flow' = [g \in Flows |-> flow'[g]]
    /\ \A g \in Flows : flow'[g] = flow[g] \/ Allowed(g, flow'[g])

LEMMA SteppedKeeps == ASSUME IInv, Stepped PROVE IInv'
  <1> USE DEF IInv, Stepped
  <1>1. FlowsWellFormed'
    <2>1. SeenHosts \subseteq SeenHosts'
      BY DEF SeenHosts
    <2>2. \A g \in Flows : WellFormed(g, flow'[g]) /\ Fresh(flow'[g])
      BY DEF FlowsWellFormed, Allowed
    <2> QED BY <2>1, <2>2 DEF FlowsWellFormed, WellFormed, Fresh
  <1>2. TypeOK'
    BY <1>1 DEF FlowsWellFormed, WellFormed, TypeOK, FlowType, AtHost
  <1>3. \A g \in Flows : flow'[g].step \in Resolves => flow'[g] = flow[g]
    BY DEF Allowed
  <1>4. OneEntryPerIdentity'
    BY <1>3 DEF OneEntryPerIdentity, Resolves
  <1>5. EntriesVerified'
    BY PassesOn DEF EntriesVerified
  <1>6. ResolvingVerified'
    BY <1>3, PassesOn DEF ResolvingVerified
  <1> QED BY <1>1, <1>2, <1>4, <1>5, <1>6

(* A flow may always end.                                                  *)
LEMMA NoFlowAllowed == ASSUME NEW f PROVE Allowed(f, NoFlow)
  BY NoFlowFacts DEF Allowed, WellFormed, Fresh, AtHost, Resolves

(* One flow moves on.                                                      *)
Moves(f) ==
    \E new : Update(f, new) /\ Allowed(f, new)

Quiet == UNCHANGED <<owners, removals, entries, registered, ignored, history>>

(* What CardsSurvive says of a step.                                       *)
CardsKept ==
    \A h \in IPs :
       flow[h].step = "connect" /\ flow'[h].step = "none" =>
          \/ \A f \in Flows \ {h} : flow'[f] = flow[f]
          \/ SeenAddress(h)

(* Whatever becomes of one flow alone, no other card is gone.              *)
LEMMA OneFlowKeepsCards ==
    ASSUME NEW f \in Flows, \A g \in Flows \ {f} : flow'[g] = flow[g]
    PROVE  CardsKept
  BY DEF CardsKept, Flows

LEMMA MovesStep ==
    ASSUME IInv, NEW f \in Flows, Moves(f),
           UNCHANGED <<owners, removals, entries, registered, linked>>,
           ignored' \subseteq IPs, seen \subseteq seen', seen' \subseteq Devices \X Hosts
    PROVE  Stepped /\ CardsKept
  <1> PICK new : Update(f, new) /\ Allowed(f, new)
    BY DEF Moves
  <1>1. flow = [g \in Flows |-> flow[g]]
    BY DEF IInv, FlowsWellFormed
  <1>2. flow' = [flow EXCEPT ![f] = new]
    BY DEF Update
  <1>3. flow' = [g \in Flows |-> flow'[g]] /\ flow'[f] = new /\ \A g \in Flows \ {f} : flow'[g] = flow[g]
    BY <1>1, <1>2
  <1>4. Allowed(f, flow'[f])
    BY <1>3
  <1>5. CardsKept
    BY <1>3, OneFlowKeepsCards
  <1> QED BY <1>3, <1>4, <1>5 DEF Stepped, IInv, TypeOK

(* A record with some fields replaced.                                     *)
LEMMA StepReplaced ==
    ASSUME NEW r \in FlowType, NEW step \in Forms \cup Awaits \cup {"none"}
    PROVE  LET new == [r EXCEPT !.step = step] IN
           /\ new \in FlowType /\ new.step = step /\ new.uid = r.uid /\ new.host = r.host
           /\ new.known = r.known
  BY DEF FlowType

(* The ways in which one flow moves on.                                    *)
LEMMA GoMoves ==
    ASSUME FlowsWellFormed, NEW f \in Flows, NEW step \in Forms \cup Awaits \cup {"none"},
           step \notin {"validating", "matched", "resolving", "logging_in", "repair"}, Go(f, step)
    PROVE  Moves(f)
  <1> DEFINE new == [flow[f] EXCEPT !.step = step]
  <1>1. flow[f] \in FlowType /\ flow[f].known \subseteq SeenHosts
    BY DEF FlowsWellFormed, WellFormed
  <1>2. new \in FlowType /\ new.step = step /\ new.known \subseteq SeenHosts
    BY <1>1, StepReplaced
  <1>3. Update(f, new)
    BY DEF Go
  <1> HIDE DEF new
  <1> QED BY <1>2, <1>3 DEF Moves, Allowed, WellFormed, Fresh, AtHost, Resolves

LEMMA EndMoves ==
    ASSUME NEW f \in Flows, End(f)
    PROVE  Moves(f)
  BY NoFlowAllowed DEF End, Moves

LEMMA FreshMoves ==
    ASSUME NEW f \in Flows, NEW step \in Forms \cup Awaits \cup {"none"},
           step \notin {"validating", "matched", "resolving", "logging_in", "repair"},
           NEW uid \in Devices \cup IPs \cup {NoUid},
           NEW chosen \in Hosts \cup {NoHost}, NEW host \in Hosts \cup {NoHost},
           NEW found \in SUBSET IPs, NEW known \in SUBSET Hosts,
           known \subseteq SeenHosts,
           Update(f, Flow(step, uid, chosen, host, found, known))
    PROVE  Moves(f)
  <1> DEFINE new == Flow(step, uid, chosen, host, found, known)
  <1>1. new \in FlowType /\ new.step = step /\ new.known = known
    BY FlowTyped DEF Flow
  <1> HIDE DEF new
  <1> QED BY <1>1 DEF Moves, Allowed, WellFormed, Fresh, AtHost, Resolves, new

LEMMA RestartMoves ==
    ASSUME NEW f \in Flows, NEW step \in Forms \cup Awaits \cup {"none"},
           step \notin {"validating", "matched", "resolving", "logging_in", "repair"},
           Update(f, [NoFlow EXCEPT !.step = step])
    PROVE  Moves(f)
  <1> DEFINE new == [NoFlow EXCEPT !.step = step]
  <1>1. new \in FlowType /\ new.step = step /\ new.known = {}
    BY NoFlowFacts, StepReplaced
  <1>2. Update(f, new)
    OBVIOUS
  <1> HIDE DEF new
  <1> QED BY <1>1, <1>2 DEF Moves, Allowed, WellFormed, Fresh, AtHost, Resolves

LEMMA ConnectMoves ==
    ASSUME NEW f \in Flows, NEW uid \in Devices \cup IPs \cup {NoUid}, NEW h \in Hosts \cup {NoHost},
           Update(f, Flow("connect", uid, h, NoHost, {}, {}))
    PROVE  Moves(f)
  <1>1. "connect" \in Forms \cup Awaits \cup {"none"} /\ {} \in SUBSET IPs /\ {} \in SUBSET Hosts
    BY DEF Forms
  <1> QED BY <1>1, FreshMoves

-----------------------------------------------------------------------------
(* Dialogs, cards and repairs step                                         *)

(* The addresses of hosts that accepted a login.                           *)
LEMMA AddressesSeen ==
    ASSUME NEW known \in SUBSET Hosts, known \subseteq SeenHosts, NEW addresses \in Addresses(known),
           NEW h \in IPs, h \in addresses
    PROVE  SeenAddress(h)
  <1>1. PICK answered \in SUBSET (known \cap Names) :
           addresses = (known \cap IPs) \cup UNION {Resolve[n] : n \in answered}
    BY DEF Addresses
  <1>2. CASE h \in known \cap IPs
    BY <1>2 DEF SeenHosts, AddressesOf, SeenAddress
  <1>3. CASE \E n \in answered : h \in Resolve[n]
    BY <1>1, <1>3, ConfigFlowAssumption DEF SeenHosts, AddressesOf, SeenAddress
  <1> QED BY <1>1, <1>2, <1>3

(* A lookup that ended retires cards of its addresses, and may start others.*)
LEMMA RetireSteps ==
    ASSUME IInv, Quiet, flow' = [g \in Flows |-> flow'[g]],
           NEW known \in SUBSET Hosts, known \subseteq SeenHosts, NEW addresses \in Addresses(known),
           \A g \in Flows :
              \/ flow'[g] = flow[g]
              \/ g \in addresses /\ flow'[g] = NoFlow
              \/ /\ Allowed(g, flow'[g])
                 /\ flow[g].step # "connect" \/ flow'[g].step # "none"
    PROVE  Stepped /\ CardsKept
  <1>1. Stepped
    BY NoFlowAllowed DEF Stepped, Quiet, history, IInv, TypeOK
  <1>2. CardsKept
    BY AddressesSeen DEF CardsKept, Flows
  <1> QED BY <1>1, <1>2

LEMMA DialogSteps ==
    ASSUME IInv, NEW f \in Dialogs, Dialog(f)
    PROVE  Stepped /\ CardsKept
  <1>1. /\ f \in Flows /\ FlowsWellFormed /\ ignored \subseteq IPs
        /\ EntryHosts \subseteq Hosts /\ EntryHosts \subseteq SeenHosts
    BY EntryHostsFacts DEF Flows, IInv, TypeOK
  <1>2. /\ flow[f] \in FlowType
        /\ flow[f].known \in SUBSET Hosts /\ flow[f].known \subseteq SeenHosts
    BY <1>1 DEF FlowsWellFormed, WellFormed, FlowType
  <1>3. Quiet /\ Moves(f) => Stepped /\ CardsKept
    BY <1>1, MovesStep DEF Quiet, history, IInv, TypeOK
  <1>4. CASE Open(f)
    BY <1>1, <1>3, <1>4, GoMoves DEF Open, Quiet, Forms
  <1>5. CASE Scan(f)
    BY <1>1, <1>3, <1>5, GoMoves DEF Scan, Quiet, Awaits
  <1>6. CASE ScanFails(f)
    BY <1>1, <1>3, <1>6, GoMoves DEF ScanFails, Quiet, Forms
  <1>7. CASE ScanDone(f)
    <2>1. PICK found \in SUBSET IPs :
             Update(f, Flow("filtering", NoUid, NoHost, NoHost, found, EntryHosts))
      BY <1>7 DEF ScanDone
    <2> QED BY <1>1, <1>3, <1>7, <2>1, FreshMoves DEF ScanDone, Quiet, Awaits
  <1>8. CASE Filter(f)
    <2>1. PICK addresses \in Addresses(flow[f].known) :
          LET new   == flow[f].found \ addresses
              cards == {h \in new \ EntryHosts : flow[h].step = "none"}
          IN  flow' = [g \in Flows |->
                 IF g = f THEN
                    IF new = {} THEN [NoFlow EXCEPT !.step = "scan"]
                    ELSE Flow("select", NoUid, NoHost, NoHost, new, {})
                 ELSE IF g \in Retired(f, addresses) THEN NoFlow
                 ELSE IF g \in cards THEN Flow("scheduled", g, NoHost, NoHost, {}, {})
                 ELSE flow[g]]
      BY <1>8 DEF Filter
    <2> DEFINE new   == flow[f].found \ addresses
               again == [NoFlow EXCEPT !.step = "scan"]
    <2>2. new \in SUBSET IPs
      BY <1>2 DEF FlowType
    <2>3. again \in FlowType /\ again.step = "scan" /\ again.known = {}
      BY NoFlowFacts, StepReplaced DEF Forms
    <2>4. LET offer == Flow("select", NoUid, NoHost, NoHost, new, {}) IN
          offer \in FlowType /\ offer.step = "select" /\ offer.known = {}
      BY <2>2, FlowTyped DEF Forms, Flow
    <2>5. \A g \in IPs : LET card == Flow("scheduled", g, NoHost, NoHost, {}, {}) IN
             card \in FlowType /\ card.step = "scheduled" /\ card.known = {}
      BY FlowTyped DEF Awaits, Flow
    <2>6. /\ flow' = [g \in Flows |-> flow'[g]]
          /\ flow'[f] \in {again, Flow("select", NoUid, NoHost, NoHost, new, {})}
          /\ \A g \in Flows \ {f} :
                \/ flow'[g] = flow[g]
                \/ g \in addresses /\ flow'[g] = NoFlow
                \/ g \in IPs /\ flow'[g] = Flow("scheduled", g, NoHost, NoHost, {}, {})
      <3> HIDE DEF again
      <3>1. flow' = [g \in Flows |->
                 IF g = f THEN
                    IF new = {} THEN again
                    ELSE Flow("select", NoUid, NoHost, NoHost, new, {})
                 ELSE IF g \in Retired(f, addresses) THEN NoFlow
                 ELSE IF g \in {h \in new \ EntryHosts : flow[h].step = "none"}
                      THEN Flow("scheduled", g, NoHost, NoHost, {}, {})
                 ELSE flow[g]]
        BY <2>1 DEF again
      <3> QED BY <1>1, <2>2, <3>1 DEF Retired
    <2> HIDE DEF again, new
    <2> DEFINE Harmless(v) == v \in FlowType /\ v.step \in {"scan", "select", "scheduled"} /\ v.known = {}
    <2>7. \A g \in Flows : \A v : Harmless(v) => Allowed(g, v) /\ v.step # "none"
      BY DEF Allowed, WellFormed, Fresh, AtHost, Resolves
    <2>8. /\ Harmless(flow'[f])
          /\ \A g \in IPs : Harmless(Flow("scheduled", g, NoHost, NoHost, {}, {}))
      BY <2>3, <2>4, <2>5, <2>6
    <2> HIDE DEF Harmless
    <2>9. \A g \in Flows :
              \/ flow'[g] = flow[g]
              \/ g \in addresses /\ flow'[g] = NoFlow
              \/ /\ Allowed(g, flow'[g])
                 /\ flow[g].step # "connect" \/ flow'[g].step # "none"
      BY <1>1, <2>6, <2>7, <2>8
    <2>10. Quiet /\ flow' = [g \in Flows |-> flow'[g]]
      BY <1>8, <2>6 DEF Filter, Quiet
    <2> QED BY <1>2, <2>9, <2>10, RetireSteps
  <1>9. CASE Select(f)
    <2>1. PICK h \in flow[f].found :
             \/ End(f)
             \/ Update(f, Flow("selecting", NoUid, NoHost, h, flow[f].found, EntryHosts))
      BY <1>9 DEF Select
    <2>2. h \in Hosts /\ flow[f].found \in SUBSET IPs
      BY <1>2 DEF FlowType, Hosts
    <2>3. Moves(f)
      BY <1>1, <2>1, <2>2, EndMoves, FreshMoves DEF Awaits
    <2> QED BY <1>3, <1>9, <2>3 DEF Select, Quiet
  <1>10. CASE Selected(f)
    <2> DEFINE h == flow[f].host
    <2>1. PICK addresses \in Addresses(flow[f].known) :
            \/ /\ h \in addresses
               /\ flow' = [g \in Flows |-> IF g \in {f} \cup Retired(f, {h}) THEN NoFlow ELSE flow[g]]
            \/ Update(f, Flow("connect", NoUid, h, NoHost, {}, {}))
      BY <1>10 DEF Selected
    <2>2. Quiet /\ flow[f].step = "selecting"
      BY <1>10 DEF Selected, Quiet
    <2>3. CASE /\ h \in addresses
               /\ flow' = [g \in Flows |-> IF g \in {f} \cup Retired(f, {h}) THEN NoFlow ELSE flow[g]]
      <3>1. \A g \in Flows :
              \/ flow'[g] = flow[g]
              \/ g \in addresses /\ flow'[g] = NoFlow
              \/ g = f /\ flow'[g] = NoFlow
        BY <2>3 DEF Retired
      <3>2. Allowed(f, NoFlow)
        BY NoFlowAllowed
      <3>3. flow' = [g \in Flows |-> flow'[g]]
        BY <2>3
      <3> QED BY <1>2, <2>2, <3>1, <3>2, <3>3, RetireSteps
    <2>4. CASE Update(f, Flow("connect", NoUid, h, NoHost, {}, {}))
      <3>1. h \in Hosts \cup {NoHost}
        BY <1>2 DEF FlowType
      <3> QED BY <1>1, <1>3, <2>2, <2>4, <3>1, ConnectMoves
    <2> QED BY <2>1, <2>3, <2>4
  <1>11. CASE Manual(f)
    BY <1>1, <1>3, <1>11, RestartMoves DEF Manual, Quiet, Forms
  <1> QED BY <1>4, <1>5, <1>6, <1>7, <1>8, <1>9, <1>10, <1>11 DEF Dialog

LEMMA CardSteps ==
    ASSUME IInv, NEW h \in IPs, Card(h)
    PROVE  Stepped /\ CardsKept
  <1>1. /\ h \in Flows /\ FlowsWellFormed /\ ignored \subseteq IPs /\ h \in Hosts
        /\ EntryHosts \subseteq Hosts /\ EntryHosts \subseteq SeenHosts
    BY EntryHostsFacts DEF Flows, Hosts, IInv, TypeOK
  <1>2. Quiet /\ Moves(h) => Stepped /\ CardsKept
    BY <1>1, MovesStep DEF Quiet, history, IInv, TypeOK
  <1>3. CASE CardStart(h)
    <2>1. End(h) \/ Update(h, Flow("checking", h, NoHost, NoHost, {}, EntryHosts))
      BY <1>3 DEF CardStart
    <2>2. Moves(h)
      BY <1>1, <2>1, EndMoves, FreshMoves DEF Awaits
    <2> QED BY <1>2, <1>3, <2>2 DEF CardStart, Quiet
  <1>4. CASE CardChecked(h)
    <2>1. End(h) \/ Update(h, Flow("connect", h, h, NoHost, {}, {}))
      BY <1>4 DEF CardChecked
    <2>2. Moves(h)
      BY <1>1, <2>1, EndMoves, ConnectMoves
    <2> QED BY <1>2, <1>4, <2>2 DEF CardChecked, Quiet
  <1>5. CASE Ignore(h)
    <2>1. Moves(h) /\ ignored' \subseteq IPs
      BY <1>1, <1>5, EndMoves DEF Ignore
    <2> QED BY <1>1, <1>5, <2>1, MovesStep DEF Ignore, history, IInv, TypeOK
  <1> QED BY <1>3, <1>4, <1>5 DEF Card

(* A submitted login, one that failed, and a repair that is not over.      *)
LEMMA LoginSteps ==
    ASSUME IInv, NEW f \in Flows,
           \/ Submit(f) \/ ValidateFails(f)
           \/ f \in Repairs /\ (StartRepair(f) \/ SubmitReauth(f) \/ SubmitReconfigure(f) \/ LoginFails(f))
           \/ Close(f)
    PROVE  Stepped /\ CardsKept
  <1>1. FlowsWellFormed /\ \A e \in entries : e.host \in Hosts /\ e.uid \in Devices
    BY DEF IInv, TypeOK
  <1>2. /\ flow[f] \in FlowType /\ flow[f].known \subseteq SeenHosts
        /\ flow[f].chosen \in Hosts \cup {NoHost}
        /\ flow[f].step = "repair" => flow[f].chosen = NoHost
        /\ flow[f].step \in {"repair", "logging_in"} => \E e \in entries : e.uid = flow[f].uid
    BY <1>1 DEF FlowsWellFormed, WellFormed, FlowType
  <1>3. Quiet /\ Moves(f) => Stepped /\ CardsKept
    BY MovesStep DEF Quiet, history, IInv, TypeOK
  <1>4. CASE Submit(f)
    <2>1. PICK h \in Hosts : Update(f, [flow[f] EXCEPT !.step = "validating", !.host = h])
      <3>1. PICK h \in IF flow[f].chosen = NoHost THEN Hosts ELSE {flow[f].chosen} :
               Update(f, [flow[f] EXCEPT !.step = "validating", !.host = h])
        BY <1>4 DEF Submit
      <3> QED BY <1>2, <3>1
    <2> DEFINE new == [flow[f] EXCEPT !.step = "validating", !.host = h]
    <2>2. /\ new \in FlowType /\ new.step = "validating" /\ new.host = h
          /\ new.known = flow[f].known
      BY <1>2 DEF FlowType, Forms, Awaits
    <2>3. Update(f, new)
      BY <2>1
    <2> HIDE DEF new
    <2>4. Moves(f)
      BY <1>2, <2>2, <2>3 DEF Moves, Allowed, WellFormed, Fresh, AtHost, Resolves
    <2> QED BY <1>3, <1>4, <2>4 DEF Submit, Quiet
  <1>5. CASE ValidateFails(f)
    <2> DEFINE step == IF flow[f].chosen = NoHost THEN "manual" ELSE "connect"
               new  == [flow[f] EXCEPT !.step = step, !.host = NoHost]
    <2>1. step \in {"manual", "connect"}
      OBVIOUS
    <2>2. Update(f, new)
      BY <1>5 DEF ValidateFails
    <2> HIDE DEF step
    <2>3. new \in FlowType /\ new.step = step /\ new.known = flow[f].known
      BY <1>2, <2>1 DEF FlowType, Forms, Awaits
    <2> HIDE DEF new
    <2>4. Moves(f)
      BY <1>2, <2>1, <2>2, <2>3 DEF Moves, Allowed, WellFormed, Fresh, AtHost, Resolves
    <2> QED BY <1>3, <1>5, <2>4 DEF ValidateFails, Quiet
  <1>6. CASE StartRepair(f) /\ f \in Repairs
    <2>1. PICK e \in entries : Update(f, [NoFlow EXCEPT !.step = "repair", !.uid = e.uid])
      BY <1>6 DEF StartRepair
    <2> DEFINE new == [NoFlow EXCEPT !.step = "repair", !.uid = e.uid]
    <2>2. /\ new \in FlowType /\ new.step = "repair" /\ new.uid = e.uid /\ new.known = {}
          /\ new.chosen = NoHost
      <3>1. NoFlow.chosen = NoHost
        BY DEF NoFlow, Flow
      <3> QED BY <1>1, <3>1, NoFlowFacts DEF FlowType, Forms
    <2>3. Update(f, new)
      BY <2>1
    <2> HIDE DEF new
    <2>4. Moves(f)
      BY <1>6, <2>2, <2>3 DEF Moves, Allowed, WellFormed, Fresh, AtHost, Resolves
    <2> QED BY <1>3, <1>6, <2>4 DEF StartRepair, Quiet
  <1>7. CASE SubmitReauth(f) /\ f \in Repairs
    <2> DEFINE h   == EntryOf(f).host
               new == [flow[f] EXCEPT !.step = "logging_in", !.host = h]
    <2>1. /\ h \in Hosts
          /\ \A e \in entries : e.uid = flow[f].uid => e.host = h
      BY <1>1, <1>7, EntryOfFacts DEF SubmitReauth, IInv, OneEntryPerIdentity
    <2>2. Update(f, new)
      BY <1>7 DEF SubmitReauth
    <2> HIDE DEF h
    <2>3. /\ new \in FlowType /\ new.step = "logging_in" /\ new.host = h
          /\ new.uid = flow[f].uid /\ new.known = flow[f].known
      BY <1>2, <2>1 DEF FlowType, Forms, Awaits
    <2> HIDE DEF new
    <2>4. Moves(f)
      <3>1. WellFormed(f, new)
        BY <1>2, <1>7, <2>1, <2>3 DEF WellFormed, AtHost, SubmitReauth
      <3>2. Fresh(new) /\ new.step \notin Resolves
        BY <2>1, <2>3 DEF Fresh, Resolves
      <3> QED BY <2>2, <3>1, <3>2 DEF Moves, Allowed
    <2> QED BY <1>3, <1>7, <2>4 DEF SubmitReauth, Quiet
  <1>8. CASE SubmitReconfigure(f) /\ f \in Repairs
    <2>1. PICK h \in Hosts :
             Update(f, [flow[f] EXCEPT !.step = "logging_in", !.host = h, !.chosen = h])
      BY <1>8 DEF SubmitReconfigure
    <2> DEFINE new == [flow[f] EXCEPT !.step = "logging_in", !.host = h, !.chosen = h]
    <2>2. /\ new \in FlowType /\ new.step = "logging_in" /\ new.host = h /\ new.chosen = h
          /\ new.uid = flow[f].uid /\ new.known = flow[f].known
      BY <1>2, <2>1 DEF FlowType, Forms, Awaits
    <2>3. Update(f, new)
      BY <2>1
    <2> HIDE DEF new
    <2>4. Moves(f)
      <3>1. WellFormed(f, new)
        BY <1>2, <1>8, <2>1, <2>2 DEF WellFormed, AtHost, SubmitReconfigure
      <3>2. Fresh(new) /\ new.step \notin Resolves
        BY <2>1, <2>2, ConfigFlowAssumption DEF Fresh, Resolves
      <3> QED BY <2>3, <3>1, <3>2 DEF Moves, Allowed
    <2> QED BY <1>3, <1>8, <2>4 DEF SubmitReconfigure, Quiet
  <1>9. CASE LoginFails(f) /\ f \in Repairs
    <2> DEFINE new == [flow[f] EXCEPT !.step = "repair", !.host = NoHost, !.chosen = NoHost]
    <2>1. /\ new \in FlowType /\ new.step = "repair" /\ new.chosen = NoHost
          /\ new.uid = flow[f].uid /\ new.known = flow[f].known
      BY <1>2 DEF FlowType, Forms, Awaits
    <2>2. Update(f, new)
      BY <1>9 DEF LoginFails
    <2> HIDE DEF new
    <2>3. Moves(f)
      BY <1>2, <1>9, <2>1, <2>2 DEF Moves, Allowed, WellFormed, Fresh, AtHost, Resolves, LoginFails
    <2> QED BY <1>3, <1>9, <2>3 DEF LoginFails, Quiet
  <1>10. CASE Close(f)
    BY <1>3, <1>10, EndMoves DEF Close, Quiet
  <1> QED BY <1>4, <1>5, <1>6, <1>7, <1>8, <1>9, <1>10

-----------------------------------------------------------------------------
(* The steps that do more                                                  *)

(* A flow that looks up what it will store, or goes on to.                 *)
LEMMA ResolvesKeeps ==
    ASSUME IInv, NEW f \in Flows, NEW new \in FlowType, Update(f, new),
           UNCHANGED <<owners, removals, entries, registered, ignored, linked>>,
           seen \subseteq seen', seen' \subseteq Devices \X Hosts,
           new.step \in Resolves, new.host \in Hosts, new.uid \in Devices,
           new.known \subseteq SeenHosts', \A h \in new.found : SeenAddress(h),
           \E d \in Devices : PassesFor(d, new.uid) /\ <<d, new.host>> \in seen',
           \A g \in Flows \ {f} : flow[g].step \in Resolves => flow[g].uid # new.uid
    PROVE  IInv' /\ CardsKept /\ entries' = entries
  <1>1. TypeOK /\ FlowsWellFormed
    BY DEF IInv
  <1>2. /\ flow' = [g \in Flows |-> flow'[g]] /\ flow'[f] = new
        /\ \A g \in Flows \ {f} : flow'[g] = flow[g]
    BY <1>1 DEF Update, FlowsWellFormed
  <1>3. FlowsWellFormed'
    <2>1. SeenHosts \subseteq SeenHosts'
      BY DEF SeenHosts
    <2>2. \A g \in Flows \ {f} : WellFormed(g, flow'[g]) /\ Fresh(flow'[g])
      BY <1>1, <1>2 DEF FlowsWellFormed
    <2>3. \A g \in Flows \ {f} :
             /\ flow'[g] \in FlowType
             /\ flow'[g].step \in AtHost => flow'[g].host \in Hosts
             /\ flow'[g].step \in {"repair", "logging_in"} =>
                   g \in Repairs /\ \E e \in entries' : e.uid = flow'[g].uid
             /\ flow'[g].step = "repair" => flow'[g].chosen = NoHost
             /\ flow'[g].known \subseteq SeenHosts'
             /\ flow'[g].step = "logging_in" /\ flow'[g].chosen = NoHost =>
                   \A e \in entries' : e.uid = flow'[g].uid =>
                      flow'[g].host = e.host \/ <<e.uid, e.host>> \in seen'
      BY <2>1, <2>2 DEF WellFormed, Fresh
    <2>4. /\ flow'[f].step \notin {"repair", "logging_in"} /\ flow'[f] \in FlowType
          /\ flow'[f].host \in Hosts /\ flow'[f].known \subseteq SeenHosts'
      BY <1>2 DEF Resolves
    <2> QED BY <1>2, <2>3, <2>4 DEF FlowsWellFormed, WellFormed, Fresh
  <1>4. TypeOK'
    <2>1. flow' \in [Flows -> FlowType]
      BY <1>3 DEF FlowsWellFormed, WellFormed
    <2>2. \A g \in Flows :
             /\ flow'[g].step \in AtHost => flow'[g].host \in Hosts
             /\ flow'[g].step \in {"repair", "logging_in"} => \E e \in entries' : e.uid = flow'[g].uid
      BY <1>3 DEF FlowsWellFormed, WellFormed
    <2> QED BY <1>1, <2>1, <2>2 DEF TypeOK, FlowType, AtHost
  <1>5. OneEntryPerIdentity'
    BY <1>2 DEF OneEntryPerIdentity, IInv, Resolves
  <1>6. EntriesVerified'
    BY PassesOn DEF EntriesVerified, IInv
  <1>7. ResolvingVerified'
    <2>1. \A g \in Flows : flow'[g].step \in Resolves =>
             /\ flow'[g].uid \in Devices
             /\ \E d \in Devices :
                   PassesFor(d, flow'[g].uid) /\ <<d, flow'[g].host>> \in seen'
             /\ \A h \in flow'[g].found : SeenAddress(h)
      BY <1>2 DEF ResolvingVerified, Verified, IInv
    <2>2. \A d, uid : PassesFor(d, uid) => PassesFor(d, uid)'
      BY PassesOn
    <2>3. \A h : SeenAddress(h) => SeenAddress(h)'
      BY DEF SeenAddress
    <2> QED BY <2>1, <2>2, <2>3 DEF ResolvingVerified, Verified
  <1> QED BY <1>2, <1>3, <1>4, <1>5, <1>6, <1>7, OneFlowKeepsCards DEF IInv

(* A login that is accepted names an entry for which its device passes, or *)
(* a new one, and no other flow in progress has that identity.             *)
LEMMA ValidatedKeeps ==
    ASSUME IInv, NEW f \in Flows, Validated(f)
    PROVE  IInv' /\ CardsKept /\ entries' = entries
  <1> DEFINE h        == flow[f].host
             device   == owner[h]
             existing == AuthenticatedEntry(device)
             uid      == IF existing = {} THEN device ELSE (CHOOSE e \in existing : TRUE).uid
             step     == IF existing = {} THEN "resolving" ELSE "matched"
             known    == IF existing = {} THEN {h} ELSE {e.host : e \in existing}
             new      == [flow[f] EXCEPT !.step = step, !.uid = uid, !.found = {}, !.known = known]
  <1>1. /\ TypeOK /\ FlowsWellFormed /\ h \in Hosts /\ flow[f] \in FlowType
        /\ flow[f].step = "validating"
    BY DEF IInv, Validated, FlowsWellFormed, WellFormed, AtHost
  <1>2. /\ seen' = seen \cup {<<device, h>>} /\ device \in Devices
        /\ UNCHANGED <<owners, removals, entries, registered, ignored, linked>>
    BY <1>1, OwnerFacts DEF Validated
  <1>3. /\ seen \subseteq seen' /\ seen' \subseteq Devices \X Hosts
        /\ <<device, h>> \in seen' /\ ignored \subseteq IPs
    BY <1>1, <1>2 DEF TypeOK
  <1>4. CASE End(f)
    <2>1. Stepped /\ CardsKept
      BY <1>2, <1>3, <1>4, EndMoves, MovesStep
    <2> QED BY <1>2, <2>1, SteppedKeeps
  <1>5. CASE ~InProgress(f, uid) /\ Resolving(f, existing, uid)
    <2>1. uid \in Devices /\ PassesFor(device, uid)
      <3>1. CASE existing = {}
        BY <1>2, <3>1 DEF PassesFor
      <3>2. CASE existing # {}
        <4>1. (CHOOSE e \in existing : TRUE) \in existing
          BY <3>2
        <4>2. \A e \in existing : e.uid \in Devices /\ PassesFor(device, e.uid)
          BY <1>1, MatchFacts DEF TypeOK
        <4> QED BY <3>2, <4>1, <4>2
      <3> QED BY <3>1, <3>2
    <2>2. known \subseteq Hosts /\ known \subseteq SeenHosts'
      <3>1. \A e \in existing : e.host \in EntryHosts
        BY <1>1, MatchFacts DEF EntryHosts
      <3>2. EntryHosts \subseteq Hosts /\ EntryHosts \subseteq SeenHosts
        BY EntryHostsFacts DEF IInv
      <3>3. SeenHosts \subseteq SeenHosts' /\ h \in SeenHosts'
        BY <1>3 DEF SeenHosts
      <3> QED BY <1>1, <3>1, <3>2, <3>3
    <2>3. step \in Resolves
      BY DEF Resolves
    <2>4. Update(f, new)
      BY <1>5 DEF Resolving
    <2>5. \E d \in Devices : PassesFor(d, uid) /\ <<d, h>> \in seen'
      BY <1>2, <1>3, <2>1
    <2>6. \A g \in Flows \ {f} : flow[g].step \in Resolves => flow[g].uid # uid
      BY <1>5 DEF InProgress, Resolves
    <2> HIDE DEF uid, step, known
    <2>7. /\ new \in FlowType /\ new.step = step /\ new.uid = uid /\ new.host = h
          /\ new.found = {} /\ new.known = known
      BY <1>1, <2>1, <2>2, <2>3 DEF FlowType, Awaits, Resolves
    <2> HIDE DEF new, h, existing
    <2> QED BY <1>1, <1>2, <1>3, <2>1, <2>2, <2>3, <2>4, <2>5, <2>6, <2>7, ResolvesKeeps
  <1> QED BY <1>2, <1>4, <1>5 DEF Validated

(* The first lookup of a flow that matched an entry is over.               *)
LEMMA ResolvedKeeps ==
    ASSUME IInv, NEW f \in Flows, Resolved(f)
    PROVE  IInv' /\ CardsKept /\ entries' = entries
  <1> DEFINE current == {e.host : e \in {d \in entries : d.uid = flow[f].uid}}
             known   == IF current = {} THEN flow[f].known ELSE current
  <1>1. /\ TypeOK /\ FlowsWellFormed /\ flow[f] \in FlowType /\ flow[f].host \in Hosts
        /\ flow[f].step = "matched" /\ flow[f].uid \in Devices
        /\ Verified(flow[f].uid, flow[f].host) /\ flow[f].known \subseteq SeenHosts
    BY DEF IInv, Resolved, FlowsWellFormed, WellFormed, AtHost, ResolvingVerified, Resolves
  <1>2. UNCHANGED <<owners, removals, entries, registered, ignored, linked, seen>>
    BY DEF Resolved, history
  <1>3. PICK addresses \in Addresses({flow[f].host}) :
           Update(f, [flow[f] EXCEPT !.step = "resolving", !.found = addresses, !.known = known])
    <2>1. PICK addresses \in Addresses({flow[f].host}) :
             Update(f, [flow[f] EXCEPT !.step = "resolving", !.found = addresses,
                                       !.known = IF current = {} THEN @ ELSE current])
      BY DEF Resolved
    <2>2. [flow[f] EXCEPT !.step = "resolving", !.found = addresses,
                          !.known = IF current = {} THEN @ ELSE current]
          = [flow[f] EXCEPT !.step = "resolving", !.found = addresses, !.known = known]
      BY <1>1 DEF FlowType
    <2> QED BY <2>1, <2>2
  <1> DEFINE new == [flow[f] EXCEPT !.step = "resolving", !.found = addresses, !.known = known]
  <1>4. addresses \subseteq IPs
    BY ConfigFlowAssumption DEF Addresses
  <1>5. \A h \in addresses : SeenAddress(h)
    <2>1. {flow[f].host} \in SUBSET Hosts /\ {flow[f].host} \subseteq SeenHosts
      BY <1>1 DEF Verified, SeenHosts
    <2> QED BY <1>4, <2>1, AddressesSeen
  <1>6. known \subseteq Hosts /\ known \subseteq SeenHosts
    <2>1. current \subseteq EntryHosts
      BY DEF EntryHosts
    <2>2. EntryHosts \subseteq Hosts /\ EntryHosts \subseteq SeenHosts
      BY EntryHostsFacts DEF IInv
    <2> QED BY <1>1, <2>1, <2>2 DEF FlowType
  <1>7. \A g \in Flows \ {f} : flow[g].step \in Resolves => flow[g].uid # flow[f].uid
    BY <1>1 DEF IInv, OneEntryPerIdentity, Resolves
  <1>8. Update(f, new)
    BY <1>3
  <1> HIDE DEF known
  <1>9. /\ new \in FlowType /\ new.step = "resolving" /\ new.uid = flow[f].uid
        /\ new.host = flow[f].host /\ new.found = addresses /\ new.known = known
    BY <1>1, <1>4, <1>6 DEF FlowType, Awaits
  <1> HIDE DEF new
  <1>10. /\ seen \subseteq seen' /\ seen' \subseteq Devices \X Hosts /\ known \subseteq SeenHosts'
         /\ \E d \in Devices : PassesFor(d, flow[f].uid) /\ <<d, flow[f].host>> \in seen'
    BY <1>1, <1>2, <1>6 DEF TypeOK, SeenHosts, Verified
  <1> QED BY <1>1, <1>2, <1>7, <1>5, <1>8, <1>9, <1>10, ResolvesKeeps DEF Resolves

(* An entry is created, of what passed for it in the login, unless there   *)
(* is one of that identity; cards of its addresses are retired.            *)
LEMMA FinishKeeps ==
    ASSUME IInv, NEW f \in Flows, Finish(f)
    PROVE  IInv' /\ CardsKept /\ entries \subseteq entries'
  <1>1. /\ TypeOK /\ FlowsWellFormed /\ flow[f] \in FlowType /\ flow[f].host \in Hosts
        /\ flow[f].known \in SUBSET Hosts /\ flow[f].known \subseteq SeenHosts
        /\ flow[f].step = "resolving" /\ flow[f].uid \in Devices
        /\ Verified(flow[f].uid, flow[f].host) /\ \A h \in flow[f].found : SeenAddress(h)
    BY DEF IInv, Finish, FlowsWellFormed, WellFormed, FlowType, AtHost, ResolvingVerified, Resolves
  <1>2. PICK addresses \in Addresses(flow[f].known) :
           flow' = [g \in Flows |-> IF g \in {f} \cup Retired(f, flow[f].found \cup addresses)
                                     THEN NoFlow ELSE flow[g]]
    BY DEF Finish
  <1>3. /\ flow' = [g \in Flows |-> flow'[g]]
        /\ flow'[f] = NoFlow
        /\ \A g \in Flows \ {f} :
              flow'[g] = flow[g] \/ (g \in flow[f].found \cup addresses /\ flow'[g] = NoFlow)
    BY <1>2 DEF Retired
  <1>4. /\ entries \subseteq entries'
        /\ \A e \in entries' \ entries :
              /\ e = NewEntry(f)
              /\ \A d \in entries : d.uid # flow[f].uid
        /\ UNCHANGED <<owners, removals, registered, ignored, seen, linked>>
    BY DEF Finish, history
  <1>5. LET e == NewEntry(f) IN
        /\ e \in [uid : Devices, host : Hosts, accepted : Hosts]
        /\ e.uid = flow[f].uid /\ e.host = flow[f].host /\ e.accepted = flow[f].host
    BY <1>1 DEF NewEntry
  <1>6. FlowsWellFormed'
    <2>1. SeenHosts' = SeenHosts
      BY <1>4 DEF SeenHosts
    <2>2. \A g \in Flows :
            /\ flow'[g] \in FlowType
            /\ flow'[g].step \in AtHost => flow'[g].host \in Hosts
            /\ flow'[g].step \in {"repair", "logging_in"} =>
                  g \in Repairs /\ \E e \in entries' : e.uid = flow'[g].uid
            /\ flow'[g].step = "repair" => flow'[g].chosen = NoHost
            /\ flow'[g].known \subseteq SeenHosts
      BY <1>1, <1>3, <1>4, NoFlowFacts DEF FlowsWellFormed, WellFormed, AtHost
    <2>3. ASSUME NEW g \in Flows, flow'[g].step = "logging_in", flow'[g].chosen = NoHost,
                 NEW e \in entries', e.uid = flow'[g].uid
          PROVE  flow'[g].host = e.host \/ <<e.uid, e.host>> \in seen'
      <3>1. flow'[g] = flow[g] /\ WellFormed(g, flow[g]) /\ Fresh(flow[g])
        BY <1>1, <1>3, <2>3, NoFlowFacts DEF FlowsWellFormed
      <3>2. e \in entries
        BY <1>4, <1>5, <2>3, <3>1 DEF WellFormed
      <3> QED BY <1>4, <2>3, <3>1, <3>2 DEF Fresh
    <2> QED BY <1>3, <2>1, <2>2, <2>3 DEF FlowsWellFormed, WellFormed, Fresh
  <1>7. TypeOK'
    <2>1. /\ flow' \in [Flows -> FlowType]
          /\ \A g \in Flows :
                /\ flow'[g].step \in AtHost => flow'[g].host \in Hosts
                /\ flow'[g].step \in {"repair", "logging_in"} => \E e \in entries' : e.uid = flow'[g].uid
      BY <1>6 DEF FlowsWellFormed, WellFormed
    <2>2. entries' \subseteq [uid : Devices, host : Hosts, accepted : Hosts]
      BY <1>1, <1>4, <1>5 DEF TypeOK
    <2> QED BY <1>1, <1>4, <2>1, <2>2 DEF TypeOK, FlowType, AtHost
  <1>8. OneEntryPerIdentity'
    <2>1. \A d, e \in entries' : d.uid = e.uid => d = e
      BY <1>4, <1>5 DEF OneEntryPerIdentity, IInv
    <2>2. \A g \in Flows : flow'[g].step \in Resolves => flow'[g] = flow[g]
      BY <1>3, NoFlowFacts DEF Resolves
    <2> QED BY <2>1, <2>2 DEF OneEntryPerIdentity, Resolves, IInv
  <1>9. EntriesVerified'
    BY <1>1, <1>4, <1>5 DEF EntriesVerified, Verified, PassesFor, IInv
  <1>10. ResolvingVerified'
    BY <1>3, <1>4, NoFlowFacts DEF ResolvingVerified, Resolves, Verified, PassesFor, SeenAddress, IInv
  <1>11. CardsKept
    BY <1>1, <1>3, AddressesSeen DEF CardsKept, Flows
  <1> QED BY <1>4, <1>6, <1>7, <1>8, <1>9, <1>10, <1>11 DEF IInv

(* A repair that logged in at its own device changes its own entry.        *)
LEMMA LoggedInKeeps ==
    ASSUME IInv, NEW f \in Repairs, LoggedIn(f)
    PROVE  /\ IInv' /\ CardsKept
           /\ \A e \in entries : e \in entries' \/ (flow[f].step = "logging_in" /\ flow[f].uid = e.uid)
  <1> DEFINE h   == flow[f].host
             old == EntryOf(f)
             new == Repaired(old, f)
  <1>1. /\ f \in Flows /\ TypeOK /\ FlowsWellFormed /\ h \in Hosts
        /\ flow[f].step = "logging_in" /\ owner[h] \in Devices
    BY OwnerFacts DEF IInv, LoggedIn, FlowsWellFormed, WellFormed, AtHost, Flows
  <1>2. old \in entries /\ old.uid = flow[f].uid
    BY <1>1, EntryOfFacts
  <1>3. /\ seen' = seen \cup {<<owner[h], h>>}
        /\ End(f) /\ UNCHANGED <<owners, removals, registered, ignored, linked>>
        /\ entries' = IF owner[h] = flow[f].uid THEN (entries \ {old}) \cup {new} ELSE entries
    BY DEF LoggedIn
  <1>4. /\ seen \subseteq seen' /\ seen' \subseteq Devices \X Hosts
        /\ ignored \subseteq IPs
    BY <1>1, <1>3 DEF TypeOK
  <1>5. CASE entries' = entries
    <2>1. Stepped /\ CardsKept
      BY <1>1, <1>3, <1>4, <1>5, EndMoves, MovesStep
    <2> QED BY <1>5, <2>1, SteppedKeeps
  <1>6. CASE owner[h] = flow[f].uid /\ entries' = (entries \ {old}) \cup {new}
    <2>1. /\ new \in [uid : Devices, host : Hosts, accepted : Hosts]
          /\ new.uid = old.uid /\ new.accepted = h
          /\ \/ flow[f].chosen = NoHost /\ new.host = old.host
             \/ new.host = h
      <3>1. old \in [uid : Devices, host : Hosts, accepted : Hosts]
        BY <1>1, <1>2 DEF TypeOK
      <3> HIDE DEF old
      <3> QED BY <1>1, <3>1 DEF Repaired
    <2> HIDE DEF new, old
    <2>2. /\ flow' = [g \in Flows |-> flow'[g]] /\ flow'[f] = NoFlow
          /\ \A g \in Flows \ {f} : flow'[g] = flow[g]
      BY <1>1, <1>3 DEF End, Update, FlowsWellFormed
    <2>3. \A e \in entries : \E d \in entries' : d.uid = e.uid
      BY <1>6, <2>1
    <2>4. FlowsWellFormed'
      <3>1. SeenHosts \subseteq SeenHosts'
        BY <1>4 DEF SeenHosts
      <3>2. \A g \in Flows :
              /\ flow'[g] \in FlowType
              /\ flow'[g].step \in AtHost => flow'[g].host \in Hosts
              /\ flow'[g].step \in {"repair", "logging_in"} =>
                    g \in Repairs /\ \E e \in entries' : e.uid = flow'[g].uid
              /\ flow'[g].step = "repair" => flow'[g].chosen = NoHost
              /\ flow'[g].known \subseteq SeenHosts'
        <4>1. \A g \in Flows : WellFormed(g, flow'[g])
          BY <1>1, <2>2, NoFlowAllowed DEF FlowsWellFormed, Allowed
        <4> QED BY <2>3, <3>1, <4>1 DEF WellFormed
      <3>3. ASSUME NEW g \in Flows, flow'[g].step = "logging_in", flow'[g].chosen = NoHost,
                   NEW e \in entries', e.uid = flow'[g].uid
            PROVE  flow'[g].host = e.host \/ <<e.uid, e.host>> \in seen'
        <4>1. flow'[g] = flow[g] /\ Fresh(flow[g])
          BY <1>1, <2>2, <3>3, NoFlowFacts DEF FlowsWellFormed
        <4>2. CASE e \in entries
          BY <1>4, <3>3, <4>1, <4>2 DEF Fresh
        <4>3. CASE e = new /\ new.host = old.host
          BY <1>2, <1>4, <2>1, <3>3, <4>1, <4>3 DEF Fresh
        <4>4. CASE e = new /\ new.host = h
          BY <1>2, <1>3, <1>6, <2>1, <4>4
        <4> QED BY <1>6, <2>1, <4>2, <4>3, <4>4
      <3> QED BY <2>2, <3>2, <3>3 DEF FlowsWellFormed, WellFormed, Fresh
    <2>5. TypeOK'
      <3>1. /\ flow' \in [Flows -> FlowType]
            /\ \A g \in Flows :
                  /\ flow'[g].step \in AtHost => flow'[g].host \in Hosts
                  /\ flow'[g].step \in {"repair", "logging_in"} => \E e \in entries' : e.uid = flow'[g].uid
        BY <2>4 DEF FlowsWellFormed, WellFormed
      <3>2. entries' \subseteq [uid : Devices, host : Hosts, accepted : Hosts]
        BY <1>1, <1>6, <2>1 DEF TypeOK
      <3> QED BY <1>1, <1>3, <1>4, <3>1, <3>2 DEF TypeOK, FlowType, AtHost
    <2>6. OneEntryPerIdentity'
      <3>1. \A d, e \in entries' : d.uid = e.uid => d = e
        BY <1>2, <1>6, <2>1 DEF OneEntryPerIdentity, IInv
      <3>2. \A g \in Flows : flow'[g].step \in Resolves => flow'[g] = flow[g]
        BY <2>2, NoFlowFacts DEF Resolves
      <3> QED BY <3>1, <3>2 DEF OneEntryPerIdentity, Resolves, IInv
    <2>7. EntriesVerified'
      <3>1. \A e \in entries :
               /\ \E d \in Devices : PassesFor(d, e.uid) /\ <<d, e.host>> \in seen'
               /\ e.accepted # e.host =>
                     {<<e.uid, e.host>>, <<e.uid, e.accepted>>} \subseteq seen'
        BY <1>3, <1>4 DEF EntriesVerified, PassesFor, IInv
      <3>2. new.uid \in Devices /\ PassesFor(new.uid, new.uid) /\ <<new.uid, h>> \in seen'
        BY <1>2, <1>3, <1>6, <2>1 DEF PassesFor
      <3>3. /\ \E d \in Devices : PassesFor(d, new.uid) /\ <<d, new.host>> \in seen'
            /\ new.accepted # new.host =>
                  {<<new.uid, new.host>>, <<new.uid, new.accepted>>} \subseteq seen'
        <4>1. CASE new.host = h
          BY <2>1, <3>2, <4>1
        <4>2. CASE flow[f].chosen = NoHost /\ new.host = old.host
          <5>1. \E d \in Devices : PassesFor(d, new.uid) /\ <<d, new.host>> \in seen'
            BY <1>2, <2>1, <3>1, <4>2
          <5>2. h = old.host \/ <<old.uid, old.host>> \in seen
            BY <1>1, <1>2, <4>2 DEF FlowsWellFormed, Fresh
          <5> QED BY <1>4, <2>1, <3>2, <4>2, <5>1, <5>2
        <4> QED BY <2>1, <4>1, <4>2
      <3>4. \A d, uid : PassesFor(d, uid) => PassesFor(d, uid)'
        BY <1>3, <1>4, PassesOn
      <3> QED BY <1>6, <3>1, <3>3, <3>4 DEF EntriesVerified
    <2>8. ResolvingVerified'
      BY <1>3, <1>4, <2>2, NoFlowFacts
         DEF ResolvingVerified, Resolves, Verified, PassesFor, SeenAddress, IInv
    <2>9. CardsKept
      BY <1>1, <2>2, OneFlowKeepsCards
    <2> QED BY <1>1, <1>2, <1>6, <2>4, <2>5, <2>6, <2>7, <2>8, <2>9 DEF IInv
  <1> QED BY <1>3, <1>5, <1>6

(* A removed entry takes its repair flows with it, and no other entry has  *)
(* its identity.                                                           *)
LEMMA RemovalKeeps ==
    ASSUME IInv, NEW e \in entries, RemoveEntry(e)
    PROVE  IInv' /\ CardsKept /\ entries' = entries \ {e}
  <1>1. TypeOK /\ FlowsWellFormed /\ entries' = entries \ {e} 
        /\ UNCHANGED <<owners, ignored, seen, linked>>
    BY DEF IInv, RemoveEntry, history
  <1>2. removals' \in 0 .. MaxRemovals /\ registered' \subseteq linked'
    BY <1>1, ConfigFlowAssumption DEF RemoveEntry, TypeOK
  <1>3. /\ flow' = [f \in Flows |-> flow'[f]]
        /\ \A f \in Flows :
              \/ flow[f].uid = e.uid /\ f \in Repairs /\ flow'[f] = NoFlow
              \/ /\ ~(flow[f].uid = e.uid /\ f \in Repairs)
                 /\ \/ flow'[f] = flow[f]
                    \/ flow[f].step = "matched" /\ flow'[f] = [flow[f] EXCEPT !.known = {e.host}]
    BY DEF RemoveEntry
  <1> DEFINE Same(f) == /\ flow'[f] \in FlowType /\ flow'[f].step = flow[f].step
                        /\ flow'[f].uid = flow[f].uid /\ flow'[f].host = flow[f].host
                        /\ flow'[f].chosen = flow[f].chosen /\ flow'[f].found = flow[f].found
                        /\ flow'[f].known \subseteq SeenHosts
  <1>4. \A f \in Flows : flow'[f] = NoFlow \/ Same(f)
    <2>1. e.host \in Hosts /\ e.host \in SeenHosts
      BY EntryHostsFacts DEF IInv, EntryHosts
    <2>2. \A f \in Flows : flow[f] \in FlowType /\ flow[f].known \subseteq SeenHosts
      BY <1>1 DEF FlowsWellFormed, WellFormed
    <2>3. ASSUME NEW f \in Flows, flow'[f] = [flow[f] EXCEPT !.known = {e.host}] PROVE Same(f)
      BY <2>1, <2>2, <2>3 DEF FlowType
    <2> QED BY <1>3, <2>2, <2>3
  <1>5. FlowsWellFormed'
    <2>1. SeenHosts' = SeenHosts
      BY <1>1 DEF SeenHosts
    <2>2. ASSUME NEW g \in Flows
          PROVE  /\ flow'[g] \in FlowType
                 /\ flow'[g].step \in AtHost => flow'[g].host \in Hosts
                 /\ flow'[g].step \in {"repair", "logging_in"} =>
                       g \in Repairs /\ \E d \in entries' : d.uid = flow'[g].uid
                 /\ flow'[g].step = "repair" => flow'[g].chosen = NoHost
                 /\ flow'[g].known \subseteq SeenHosts
                 /\ flow'[g].step = "logging_in" /\ flow'[g].chosen = NoHost =>
                       \A d \in entries' : d.uid = flow'[g].uid =>
                          flow'[g].host = d.host \/ <<d.uid, d.host>> \in seen'
      <3>1. CASE flow'[g] = NoFlow
        BY <3>1, NoFlowFacts DEF AtHost
      <3>2. CASE flow'[g] # NoFlow
        <4>1. Same(g) /\ WellFormed(g, flow[g]) /\ Fresh(flow[g])
          BY <1>1, <1>4, <3>2 DEF FlowsWellFormed
        <4>2. ~(g \in Repairs /\ flow[g].uid = e.uid)
          BY <1>3, <3>2
        <4> QED BY <1>1, <4>1, <4>2 DEF WellFormed, Fresh
      <3> QED BY <3>1, <3>2
    <2> QED BY <1>3, <2>1, <2>2 DEF FlowsWellFormed, WellFormed, Fresh
  <1>6. TypeOK'
    <2>1. /\ flow' \in [Flows -> FlowType]
          /\ \A g \in Flows :
                /\ flow'[g].step \in AtHost => flow'[g].host \in Hosts
                /\ flow'[g].step \in {"repair", "logging_in"} => \E d \in entries' : d.uid = flow'[g].uid
      BY <1>5 DEF FlowsWellFormed, WellFormed
    <2> QED BY <1>1, <1>2, <2>1 DEF TypeOK, FlowType, AtHost
  <1>7. \A g \in Flows : flow'[g].step \in Resolves =>
           /\ flow'[g].step = flow[g].step /\ flow'[g].uid = flow[g].uid
           /\ flow'[g].host = flow[g].host /\ flow'[g].found = flow[g].found
    BY <1>4, NoFlowFacts DEF Resolves
  <1>8. OneEntryPerIdentity' /\ EntriesVerified' /\ ResolvingVerified'
    <2>1. OneEntryPerIdentity'
      <3>1. \A f, g \in Flows : {flow'[f].step, flow'[g].step} \subseteq Resolves
               /\ flow'[f].uid = flow'[g].uid => f = g
        BY <1>7 DEF OneEntryPerIdentity, Resolves, IInv
      <3> QED BY <1>1, <3>1 DEF OneEntryPerIdentity, Resolves, IInv
    <2>2. EntriesVerified'
      BY <1>1 DEF EntriesVerified, PassesFor, IInv
    <2>3. ResolvingVerified'
      BY <1>1, <1>7 DEF ResolvingVerified, Resolves, Verified, PassesFor, SeenAddress, IInv
    <2> QED BY <2>1, <2>2, <2>3
  <1>9. CardsKept
    BY <1>3, ConfigFlowAssumption, NoFlowFacts, <1>4 DEF CardsKept, Flows
  <1> QED BY <1>1, <1>5, <1>6, <1>8, <1>9 DEF IInv

(* Every step keeps the invariant, and the cards CardsSurvive speaks of.   *)
LEMMA Inductive ==
    ASSUME IInv, [Next]_vars
    PROVE  IInv' /\ (UNCHANGED vars \/ CardsKept)
  <1>1. ASSUME Stepped, CardsKept PROVE IInv' /\ CardsKept
    BY <1>1, SteppedKeeps
  <1>2. ASSUME NEW f \in Flows, Step(f) PROVE IInv' /\ CardsKept
    <2>1. CASE f \in Dialogs /\ Dialog(f)
      BY <1>1, <2>1, DialogSteps
    <2>2. CASE f \in IPs /\ Card(f)
      BY <1>1, <2>2, CardSteps
    <2>3. CASE Submit(f) \/ ValidateFails(f) \/ Close(f)
      BY <1>1, <2>3, LoginSteps
    <2>4. CASE f \in Repairs /\ (StartRepair(f) \/ SubmitReauth(f) \/ SubmitReconfigure(f) \/ LoginFails(f))
      BY <1>1, <2>4, LoginSteps
    <2>5. CASE Validated(f)
      BY <2>5, ValidatedKeeps
    <2>6. CASE Finish(f)
      BY <2>6, FinishKeeps
    <2>7. CASE f \in Repairs /\ LoggedIn(f)
      BY <2>7, LoggedInKeeps
    <2>8. CASE Resolved(f)
      BY <2>8, ResolvedKeeps
    <2> QED BY <1>2, <2>1, <2>2, <2>3, <2>4, <2>5, <2>6, <2>7, <2>8 DEF Step, Connect, Repair
  <1>3. ASSUME NEW e \in entries, SetupEntry(e) PROVE Stepped /\ CardsKept
    <2>1. e.uid \in Devices /\ owner[e.host] \in Devices /\ FlowsWellFormed /\ TypeOK
      BY OwnerFacts DEF IInv, TypeOK
    <2>2. Stepped
      BY <1>3, <2>1 DEF SetupEntry, Stepped, FlowsWellFormed, TypeOK
    <2>3. CardsKept
      BY <1>3 DEF SetupEntry, CardsKept
    <2> QED BY <2>2, <2>3
  <1>4. ASSUME NEW e \in entries, RemoveEntry(e) PROVE IInv' /\ CardsKept
    BY <1>4, RemovalKeeps
  <1>5. ASSUME Move PROVE Stepped /\ CardsKept
    <2>1. FlowsWellFormed /\ TypeOK
      BY DEF IInv
    <2>2. owners' \in Seq([Hosts -> Devices]) \ {<<>>}
      <3>1. owners \in Seq([Hosts -> Devices]) /\ owners # <<>> /\ Len(owners) > 1
        BY <1>5, <2>1 DEF Move, TypeOK
      <3>2. Tail(owners) \in Seq([Hosts -> Devices]) /\ Len(Tail(owners)) = Len(owners) - 1
        BY <3>1, HeadTailProperties
      <3>3. Len(owners) \in Nat
        BY <3>1, LenProperties
      <3> DEFINE n == Len(owners)
                 m == Len(Tail(owners))
      <3>4. m # 0
        <4>1. n > 1 /\ n \in Nat /\ m = n - 1
          BY <3>1, <3>2, <3>3
        <4> HIDE DEF n, m
        <4> QED BY <4>1
      <3> QED BY <1>5, <3>2, <3>4, EmptySeq DEF Move
    <2>3. Stepped
      BY <1>5, <2>1, <2>2 DEF Move, Stepped, history, FlowsWellFormed, TypeOK
    <2>4. CardsKept
      BY <1>5 DEF Move, CardsKept
    <2> QED BY <2>3, <2>4
  <1>6. CASE Next
    <2>1. Running \subseteq Flows
      BY DEF Running
    <2> QED BY <1>1, <1>2, <1>3, <1>4, <1>5, <1>6, <2>1 DEF Next
  <1>7. CASE UNCHANGED vars
    BY <1>7 DEF vars, history, IInv, TypeOK, FlowsWellFormed, WellFormed, Fresh, SeenHosts,
                OneEntryPerIdentity, EntriesVerified, ResolvingVerified, Verified, PassesFor,
                SeenAddress
  <1> QED BY <1>6, <1>7

LEMMA Invariance == Spec => []IInv
  <1>1. IInv /\ [Next]_vars => IInv'
    BY Inductive
  <1> QED BY <1>1, InitIInv, PTL DEF Spec

-----------------------------------------------------------------------------
(* The theorems                                                            *)

(* Every reachable state is well typed, and a flow has what it needs.      *)
THEOREM TypeCorrect == Spec => []TypeOK
  <1>1. IInv => TypeOK
    BY DEF IInv
  <1> QED BY <1>1, Invariance, PTL

(* However flows overlap, no two entries get one identity.                 *)
THEOREM EndpointsAreConfiguredOnce == Spec => []OneEntryPerIdentity
  <1>1. IInv => OneEntryPerIdentity
    BY DEF IInv
  <1> QED BY <1>1, Invariance, PTL

(* The host of an entry accepted a login of a device that passes for the   *)
(* entry, and a host and credentials of two logins came from its own device.*)
THEOREM SettingsAreVerified == Spec => []EntriesVerified
  <1>1. IInv => EntriesVerified
    BY DEF IInv
  <1> QED BY <1>1, Invariance, PTL

(* A card that is taken away is one of an address that accepted a login.   *)
THEOREM CardsAreKept == Spec => CardsSurvive
  <1>1. IInv /\ [Next]_vars => [CardsKept]_vars
    BY Inductive
  <1>2. CardsSurvive <=> [][CardsKept]_vars
    BY DEF CardsSurvive, CardsKept, SeenAddress
  <1> QED BY <1>1, <1>2, Invariance, PTL DEF Spec

-----------------------------------------------------------------------------
(* The flows implement the registry of entries                             *)

(* What a flow logs in for; the third component is where.                  *)
What(new)  == IF new.chosen = NoHost THEN "credentials" ELSE "settings"
Login(new) == IF new.step = "logging_in" THEN <<new.uid, What(new), new.host>> ELSE <<>>

LEMMA LoginFacts ==
    \A new : new.step = "logging_in" =>
       /\ Login(new) = <<new.uid, What(new), new.host>>
       /\ Login(new) # <<>>
       /\ Login(new)[1] = new.uid /\ Login(new)[2] = What(new) /\ Login(new)[3] = new.host
  <1>1. \A a, b, c : <<a, b, c>> # <<>>
    <2>1. \A a, b, c : Len(<<a, b, c>>) = 3 /\ Len(<<>>) = 0
      OBVIOUS
    <2> QED BY <2>1
  <1> QED BY <1>1 DEF Login

LEMMA RepairingIs == Repairing = [f \in Repairs |-> Login(flow[f])]
  BY DEF Repairing, Login, What

(* A flow that is alone in a step changes what it repairs and no more.     *)
LEMMA RepairingMoves ==
    ASSUME NEW f \in Repairs, \A g \in Repairs \ {f} : flow'[g] = flow[g]
    PROVE  /\ Repairing[f] = Login(flow[f])
           /\ Registry!Turns(f, Login(flow'[f]))
           /\ Login(flow'[f]) = Login(flow[f]) => Repairing' = Repairing
  <1>1. Repairing' = [g \in Repairs |-> Login(flow'[g])]
    BY DEF Repairing, Login, What
  <1> QED BY <1>1, RepairingIs DEF Registry!Turns

(* Dialogs and cards leave the repairs alone.                              *)
LEMMA OthersLeaveRepairs ==
    ASSUME IInv, NEW f \in Dialogs \cup IPs, Step(f)
    PROVE  Repairing' = Repairing
  <1>1. f \notin Repairs /\ IPs \cap Repairs = {} /\ f \in Flows
    BY ConfigFlowAssumption DEF Flows
  <1>2. flow = [g \in Flows |-> flow[g]] /\ Repairs \subseteq Flows
    BY DEF IInv, FlowsWellFormed, Flows
  <1>3. \A new : Update(f, new) => \A g \in Repairs : flow'[g] = flow[g]
    BY <1>1, <1>2 DEF Update
  <1>4. \A g \in Repairs : flow'[g] = flow[g]
    <2>1. CASE Open(f) \/ Scan(f) \/ ScanFails(f) \/ ScanDone(f) \/ Select(f) \/ Manual(f)
      BY <1>3, <2>1 DEF Open, Scan, ScanFails, ScanDone, Select, Manual, Go, End
    <2>2. CASE Filter(f)
      <3>1. PICK addresses \in Addresses(flow[f].known) :
            LET new   == flow[f].found \ addresses
                cards == {h \in new \ EntryHosts : flow[h].step = "none"}
            IN  flow' = [g \in Flows |->
                   IF g = f THEN
                      IF new = {} THEN [NoFlow EXCEPT !.step = "scan"]
                      ELSE Flow("select", NoUid, NoHost, NoHost, new, {})
                   ELSE IF g \in Retired(f, addresses) THEN NoFlow
                   ELSE IF g \in cards THEN Flow("scheduled", g, NoHost, NoHost, {}, {})
                   ELSE flow[g]]
        BY <2>2 DEF Filter
      <3>2. flow[f].found \subseteq IPs
        BY <1>1 DEF IInv, FlowsWellFormed, WellFormed, FlowType
      <3>3. \A g \in Repairs : g # f /\ g \notin Retired(f, addresses) /\ g \notin flow[f].found
        BY <1>1, <3>2 DEF Retired
      <3> QED
        BY <1>2, <3>1, <3>3
    <2>3. CASE Selected(f)
      <3>1. PICK addresses \in Addresses(flow[f].known) :
               LET h == flow[f].host
               IN  IF h \in addresses
                   THEN flow' = [g \in Flows |->
                                   IF g \in {f} \cup Retired(f, {h}) THEN NoFlow ELSE flow[g]]
                   ELSE Update(f, Flow("connect", NoUid, h, NoHost, {}, {}))
        BY <2>3 DEF Selected
      <3>2. \A g \in Repairs : g \notin {f} \cup Retired(f, {flow[f].host})
        BY <1>1 DEF Retired
      <3> QED
        BY <1>2, <1>3, <3>1, <3>2
    <2>4. CASE CardStart(f) \/ CardChecked(f) \/ Ignore(f)
      BY <1>3, <2>4 DEF CardStart, CardChecked, Ignore, End
    <2>5. CASE Submit(f) \/ ValidateFails(f) \/ Validated(f) \/ Resolved(f) \/ Close(f)
      BY <1>3, <2>5 DEF Submit, ValidateFails, Validated, Resolving, Resolved, Close, End
    <2>6. CASE Finish(f)
      <3>1. PICK addresses \in Addresses(flow[f].known) :
               flow' = [g \in Flows |-> IF g \in {f} \cup Retired(f, flow[f].found \cup addresses)
                                         THEN NoFlow ELSE flow[g]]
        BY <2>6 DEF Finish
      <3>2. \A g \in Repairs : g \notin {f} \cup Retired(f, flow[f].found \cup addresses)
        BY <1>1 DEF Retired
      <3> QED
        BY <1>2, <3>1, <3>2
    <2> QED
      BY <1>1, <2>1, <2>2, <2>3, <2>4, <2>5, <2>6 DEF Step, Dialog, Card, Connect
  <1> QED
    BY <1>4 DEF Repairing

(* What dialogs and cards do to the registry: a login, or an entry for what*)
(* has none and passed for it at a login.                                  *)
LEMMA OthersImplement ==
    ASSUME IInv, NEW f \in Dialogs \cup IPs, Step(f)
    PROVE  [Registry!Next]_Registry!vars
  <1>1. Repairing' = Repairing /\ f \in Flows /\ f \notin Repairs
    BY OthersLeaveRepairs, ConfigFlowAssumption DEF Flows
  <1>2. CASE UNCHANGED <<entries, seen, linked>>
    BY <1>1, <1>2 DEF Registry!vars
  <1>3. CASE Validated(f)
    <2>1. flow[f].host \in Hosts /\ owner[flow[f].host] \in Devices
      BY <1>1, <1>3, OwnerFacts DEF IInv, Validated, FlowsWellFormed, WellFormed, AtHost
    <2>2. Registry!Login(owner[flow[f].host], flow[f].host)
      BY <1>1, <1>3 DEF Validated, Registry!Login
    <2> QED
      BY <2>1, <2>2 DEF Registry!Next
  <1>4. CASE Finish(f)
    <2>1. /\ flow[f].step = "resolving" /\ flow[f].uid \in Devices /\ flow[f].host \in Hosts
          /\ Verified(flow[f].uid, flow[f].host)
      BY <1>1, <1>4
         DEF IInv, Finish, FlowsWellFormed, WellFormed, AtHost, ResolvingVerified, Resolves
    <2>2. CASE \E e \in entries : e.uid = flow[f].uid
      BY <1>2, <1>4, <2>2 DEF Finish, history
    <2>3. CASE \A e \in entries : e.uid # flow[f].uid
      <3>1. Registry!Add(flow[f].uid, flow[f].host)
        BY <1>1, <1>4, <2>1, <2>3
           DEF Finish, NewEntry, history, Verified, PassesFor, SameSerial,
               Registry!Add, Registry!PassesFor, Registry!SameSerial
      <3> QED
        BY <2>1, <3>1 DEF Registry!Next
    <2> QED
      BY <2>2, <2>3
  <1> QED
    BY <1>1, <1>2, <1>3, <1>4
       DEF Step, Dialog, Card, Connect, Open, Scan, ScanFails, ScanDone, Filter, Select, Selected,
           Manual, CardStart, CardChecked, Ignore, Submit, ValidateFails, Resolved, Close, history

(* What a repair does to it: it begins, fails, or changes its own entry.   *)
LEMMA RepairsImplement ==
    ASSUME IInv, NEW f \in Repairs, Step(f)
    PROVE  [Registry!Next]_Registry!vars
  <1>1. /\ f \in Flows /\ f \notin Dialogs \cup IPs /\ FlowsWellFormed
        /\ flow[f] \in FlowType
    BY ConfigFlowAssumption DEF Flows, IInv, FlowsWellFormed, WellFormed
  <1>2. \A new : Update(f, new) => flow'[f] = new /\ \A g \in Repairs \ {f} : flow'[g] = flow[g]
    BY <1>1 DEF Update, FlowsWellFormed, Flows
  <1>3. /\ flow[f].step # "logging_in" => Login(flow[f]) = <<>>
        /\ flow'[f].step # "logging_in" => Login(flow'[f]) = <<>>
    BY DEF Login
  <1>4. flow[f].step = "logging_in" =>
           /\ Repairing[f] # <<>> /\ Repairing[f][1] = flow[f].uid
           /\ Repairing[f][2] = What(flow[f]) /\ Repairing[f][3] = flow[f].host
    BY RepairingIs, LoginFacts
  <1>5. CASE Close(f)
    <2>1. flow[f].step # "logging_in" /\ flow'[f].step # "logging_in"
      BY <1>2, <1>5, NoFlowFacts DEF Close, End, Forms
    <2>2. Repairing' = Repairing
      BY <1>2, <1>3, <1>5, <2>1, RepairingMoves DEF Close, End
    <2> QED
      BY <1>5, <2>2 DEF Close, history, Registry!vars
  <1>6. CASE StartRepair(f)
    <2>1. PICK e \in entries : Update(f, [NoFlow EXCEPT !.step = "repair", !.uid = e.uid])
      BY <1>6 DEF StartRepair
    <2> DEFINE new == [NoFlow EXCEPT !.step = "repair", !.uid = e.uid]
    <2>2. new.step = "repair"
      BY NoFlowFacts DEF FlowType
    <2>3. flow'[f] = new /\ flow[f].step = "none"
      BY <1>2, <1>6, <2>1 DEF StartRepair
    <2>4. flow[f].step # "logging_in" /\ flow'[f].step # "logging_in"
      BY <2>2, <2>3
    <2>5. Repairing' = Repairing
      BY <1>2, <1>3, <2>1, <2>4, RepairingMoves
    <2> QED
      BY <1>6, <2>5 DEF StartRepair, history, Registry!vars
  <1>7. CASE SubmitReauth(f) \/ SubmitReconfigure(f)
    <2>1. flow[f].step = "repair" /\ UNCHANGED <<entries, seen, linked>>
      BY <1>7 DEF SubmitReauth, SubmitReconfigure, history
    <2>2. /\ EntryOf(f) \in entries /\ EntryOf(f).uid = flow[f].uid /\ flow[f].chosen = NoHost
      BY <1>1, <2>1, EntryOfFacts DEF FlowsWellFormed, WellFormed
    <2>3. ~Registry!Busy(f)
      BY <1>3, <2>1, RepairingIs DEF Registry!Busy, Registry!Idle
    <2>4. \/ Registry!Turns(f, <<EntryOf(f).uid, "credentials", EntryOf(f).host>>)
          \/ \E h \in Hosts : Registry!Turns(f, <<EntryOf(f).uid, "settings", h>>)
      <3>1. CASE SubmitReauth(f)
        <4> DEFINE host == EntryOf(f).host
                   new  == [flow[f] EXCEPT !.step = "logging_in", !.host = host]
        <4>1. Update(f, new)
          BY <3>1 DEF SubmitReauth
        <4> HIDE DEF host
        <4>2. /\ new.step = "logging_in" /\ new.uid = flow[f].uid /\ new.chosen = NoHost
              /\ new.host = host
          BY <1>1, <2>2 DEF FlowType
        <4> HIDE DEF new
        <4>3. Login(new) = <<EntryOf(f).uid, "credentials", host>>
          BY <2>2, <4>2, LoginFacts DEF What
        <4> QED
          BY <1>2, <4>1, <4>3, RepairingMoves DEF host
      <3>2. CASE SubmitReconfigure(f)
        <4>1. PICK h \in Hosts :
                 Update(f, [flow[f] EXCEPT !.step = "logging_in", !.host = h, !.chosen = h])
          BY <3>2 DEF SubmitReconfigure
        <4> DEFINE new == [flow[f] EXCEPT !.step = "logging_in", !.host = h, !.chosen = h]
        <4>2. new.step = "logging_in" /\ new.uid = flow[f].uid /\ new.chosen = h /\ new.host = h
          BY <1>1 DEF FlowType
        <4>3. Update(f, new)
          BY <4>1
        <4> HIDE DEF new
        <4>4. Login(new) = <<EntryOf(f).uid, "settings", h>>
          BY <2>2, <4>2, LoginFacts, ConfigFlowAssumption DEF What
        <4> QED
          BY <1>2, <4>3, <4>4, RepairingMoves
      <3> QED
        BY <1>7, <3>1, <3>2
    <2>5. Registry!Begin(f, EntryOf(f))
      BY <2>1, <2>3, <2>4 DEF Registry!Begin
    <2> QED
      BY <2>2, <2>5 DEF Registry!Next
  <1>8. CASE LoginFails(f)
    <2>1. flow[f].step = "logging_in" /\ UNCHANGED <<entries, seen, linked>>
      BY <1>8 DEF LoginFails, history
    <2>2. PICK new : Update(f, new) /\ new.step = "repair"
      <3> DEFINE new == [flow[f] EXCEPT !.step = "repair", !.host = NoHost, !.chosen = NoHost]
      <3>1. new.step = "repair"
        BY <1>1 DEF FlowType
      <3>2. Update(f, new)
        BY <1>8 DEF LoginFails
      <3> HIDE DEF new
      <3> QED
        BY <3>1, <3>2
    <2>3. Registry!Turns(f, <<>>)
      BY <1>2, <1>3, <2>2, RepairingMoves
    <2>4. Registry!Fail(f)
      BY <1>4, <2>1, <2>3 DEF Registry!Fail, Registry!Busy, Registry!Idle
    <2> QED
      BY <2>4 DEF Registry!Next
  <1>9. CASE LoggedIn(f)
    <2> DEFINE h   == flow[f].host
               uid == flow[f].uid
    <2>1. /\ flow[f].step = "logging_in" /\ h \in Hosts /\ owner[h] \in Devices
          /\ EntryOf(f) \in entries /\ EntryOf(f).uid = uid /\ UNCHANGED linked
      BY <1>1, <1>9, OwnerFacts, EntryOfFacts
         DEF LoggedIn, IInv, FlowsWellFormed, WellFormed, AtHost
    <2>2. Registry!Turns(f, <<>>)
      BY <1>2, <1>3, <1>9, NoFlowFacts, RepairingMoves DEF LoggedIn, End
    <2>3. CASE owner[h] = uid
      <3> DEFINE host == IF What(flow[f]) = "settings" THEN h ELSE EntryOf(f).host
      <3>1. Repaired(EntryOf(f), f) = [EntryOf(f) EXCEPT !.host = host, !.accepted = h]
        BY DEF Repaired, What
      <3>2. /\ seen' = seen \cup {<<uid, h>>}
            /\ entries' = (entries \ {EntryOf(f)}) \cup {Repaired(EntryOf(f), f)}
        BY <1>9, <2>3 DEF LoggedIn
      <3>3. [EntryOf(f) EXCEPT !.host = host, !.accepted = h]
              = [EntryOf(f) EXCEPT !.host = IF What(flow[f]) = "settings" THEN h ELSE @,
                                   !.accepted = h]
        OBVIOUS
      <3> HIDE DEF host, h, uid
      <3>4. Registry!Repair(f, EntryOf(f))
        BY <1>4, <2>1, <2>2, <3>1, <3>2, <3>3
           DEF Registry!Repair, Registry!Busy, Registry!Idle, h, uid
      <3> QED
        BY <2>1, <3>4 DEF Registry!Next
    <2>4. CASE owner[h] # uid
      <3>1. seen' = seen \cup {<<owner[h], h>>} /\ UNCHANGED entries
        BY <1>9, <2>4 DEF LoggedIn
      <3>2. Registry!Login(owner[h], h)
        BY <1>4, <2>1, <2>2, <2>4, <3>1 DEF Registry!Login, Registry!Busy, Registry!Idle
      <3> QED
        BY <2>1, <3>2 DEF Registry!Next
    <2> QED
      BY <2>3, <2>4
  <1> QED
    BY <1>1, <1>5, <1>6, <1>7, <1>8, <1>9 DEF Step, Repair

(* A removed entry takes its repairs with it.                              *)
LEMMA RemovalImplements ==
    ASSUME IInv, NEW e \in entries, RemoveEntry(e)
    PROVE  Registry!Remove(e)
  <1>1. \A f \in Repairs :
           IF flow[f].uid = e.uid THEN flow'[f] = NoFlow
           ELSE flow'[f] = flow[f]
    BY DEF RemoveEntry, Flows
  <1>2. Repairing' = [f \in Repairs |-> Login(flow'[f])]
    BY DEF Repairing, Login, What
  <1>3. ASSUME NEW f \in Repairs
        PROVE  Login(flow'[f]) =
                  IF Repairing[f] # <<>> /\ Repairing[f][1] = e.uid THEN <<>> ELSE Repairing[f]
    <2>1. Repairing[f] = Login(flow[f])
      BY RepairingIs
    <2>2. Login(NoFlow) = <<>>
      BY NoFlowFacts DEF Login
    <2>3. CASE flow[f].step = "logging_in"
      BY <1>1, <2>1, <2>2, <2>3, LoginFacts
    <2>4. CASE flow[f].step # "logging_in"
      <3>1. Login(flow[f]) = <<>>
        BY <2>4 DEF Login
      <3> QED
        BY <1>1, <2>1, <2>2, <3>1
    <2> QED
      BY <2>3, <2>4
  <1>4. Repairing' = [f \in Repairs |-> IF Repairing[f] # <<>> /\ Repairing[f][1] = e.uid
                                       THEN <<>> ELSE Repairing[f]]
    BY <1>2, <1>3, Zenon
  <1>5. entries' = entries \ {e} /\ UNCHANGED <<linked, seen>>
    BY DEF RemoveEntry, history
  <1> QED
    BY <1>4, <1>5 DEF Registry!Remove, Registry!Busy, Registry!Idle

(* Every step of the flows is one of the registry's, or none.              *)
LEMMA StepsImplement ==
    ASSUME IInv, [Next]_vars
    PROVE  [Registry!Next]_Registry!vars
  <1>1. ASSUME NEW f \in Flows, Step(f) PROVE [Registry!Next]_Registry!vars
    BY <1>1, OthersImplement, RepairsImplement DEF Flows
  <1>2. ASSUME NEW e \in entries, RemoveEntry(e) PROVE Registry!Next
    BY <1>2, RemovalImplements DEF Registry!Next
  <1>3. ASSUME UNCHANGED <<entries, linked, seen, flow>> PROVE UNCHANGED Registry!vars
    BY <1>3 DEF Registry!vars, Repairing
  <1>4. ASSUME NEW e \in entries, SetupEntry(e) PROVE Registry!Next
    <2>1. owner[e.host] \in Devices
      BY OwnerFacts DEF IInv, TypeOK
    <2>2. Repairing' = Repairing
      BY <1>4 DEF SetupEntry, Repairing
    <2>3. Registry!Answer(e, owner[e.host])
      BY <1>4, <2>2 DEF SetupEntry, Registry!Answer
    <2> QED
      BY <2>1, <2>3 DEF Registry!Next
  <1>5. CASE Move \/ UNCHANGED vars
    BY <1>3, <1>5 DEF Move, vars, history
  <1>6. Running \subseteq Flows
    BY DEF Running
  <1> QED
    BY <1>1, <1>2, <1>4, <1>5, <1>6 DEF Next

(* Beside all its dialogs, cards and lookups, the integration does to its  *)
(* entries only what EntryRegistry allows.                                 *)
THEOREM Refinement == Spec => ImplementsRegistry
  <1>1. Init => Registry!Init
    BY NoFlowFacts DEF Init, Registry!Init, Registry!Idle, Repairing, Flows
  <1>2. IInv /\ [Next]_vars => [Registry!Next]_Registry!vars
    BY StepsImplement
  <1> QED
    BY <1>1, <1>2, Invariance, PTL DEF Spec, ImplementsRegistry, Registry!Spec
=============================================================================
