----------------------------- MODULE ConfigFlow -----------------------------
(***************************************************************************)
(* Configuration flows (config_flow.py) over the registry of entries: the  *)
(* dialogs a user opens, the cards a scan surfaces, reauthentication and   *)
(* reconfiguration, and the identity matching they share (identity.py).    *)
(*                                                                         *)
(* A flow is suspended at a form, waiting for its user, or at an await:    *)
(* the scan, the lookup of addresses, the login.  In between, any other    *)
(* flow may add or change an entry or retire a card.                       *)
(*                                                                         *)
(* The card of an address is the flow named by that address: at most one   *)
(* card of each address is followed.  A device is an authenticated REST    *)
(* identity; two of them with one serial are two interfaces of one unit.   *)
(* External parts, modelled from how src uses them: Home Assistant's flow  *)
(* manager and registries, DNS, the scan.                                  *)
(***************************************************************************)
EXTENDS Integers, Sequences, FiniteSets

CONSTANTS
    Dialogs,      \* flows a user may open
    Repairs,      \* reauthentication and reconfiguration flows
    IPs,          \* IPv4 addresses, each also the name of its card
    Names,        \* host names a user may type
    Resolve,      \* what DNS answers for a name, if it answers
    Devices,      \* authenticated identities
    Serial,       \* serial and model of a device
    NoSerial,     \* a missing or placeholder serial
    Timelines,    \* which device answers at which host, one era after another
    NoHost, NoUid,
    MaxOpen,      \* bound: flows in progress when another one is opened
    MaxRemovals   \* bound: entries that are removed

Hosts == IPs \cup Names
Flows == Dialogs \cup Repairs \cup IPs

ASSUME ConfigFlowAssumption ==
    /\ IPs \cap (Names \cup Dialogs \cup Repairs) = {}
    /\ Dialogs \cap Repairs = {}
    /\ Resolve \in [Names -> SUBSET IPs]
    /\ DOMAIN Serial = Devices
    /\ Timelines \subseteq Seq([Hosts -> Devices]) \ {<<>>}
    /\ NoHost \notin Hosts
    /\ NoUid \notin Devices \cup IPs
    /\ Devices \cap IPs = {}
    /\ MaxOpen \in Nat /\ MaxRemovals \in Nat

VARIABLES
    owners,      \* who answers where, now and in the eras to come
    removals,    \* number of entries removed so far
    entries,     \* config entries: unique_id, host, and where the
                 \* credentials they store were last accepted
    registered,  \* <<unique_id, device>>: the registered devices of the entries
    ignored,     \* addresses whose card the user ignored
    flow,        \* the flows in progress
    seen,        \* <<device, host>>: logins that succeeded so far (history)
    linked       \* what was ever registered (history)

history == <<seen, linked>>
vars    == <<owners, removals, entries, registered, ignored, flow, history>>

(* The device that answers at a host.                                      *)
owner == owners[1]

Forms  == {"menu", "scan", "select", "manual", "connect", "repair"}
Awaits == {"scanning", "filtering", "scheduled", "checking", "selecting",
           "validating", "matched", "resolving", "logging_in"}

(* A flow: where it is; its unique_id in the manager (an address stands for *)
(* the pending id udp41794:<address>); the host chosen from a scan; the     *)
(* host being checked; scan results, or addresses of that host; hosts whose *)
(* lookup is awaited or, for a matched entry, comes next.                   *)
Flow(step, uid, chosen, host, found, known) ==
    [step |-> step, uid |-> uid, chosen |-> chosen, host |-> host,
     found |-> found, known |-> known]

NoFlow == Flow("none", NoUid, NoHost, NoHost, {}, {})

Init ==
    /\ owners \in Timelines
    /\ removals = 0
    /\ entries = {}
    /\ registered = {}
    /\ ignored = {}
    /\ flow = [f \in Flows |-> NoFlow]
    /\ seen = {}
    /\ linked = {}

-----------------------------------------------------------------------------
(* identity.py                                                             *)

EntryHosts == {e.host : e \in entries}

(* async_ipv4_addresses of some hosts, gathered: an address is itself, a   *)
(* name is what DNS says or nothing if the lookup fails or takes too long. *)
Addresses(hosts) ==
    {(hosts \cap IPs) \cup UNION {Resolve[n] : n \in answered} :
        answered \in SUBSET (hosts \cap Names)}

SameSerial(d, e) == Serial[d] = Serial[e] /\ Serial[d] # NoSerial

(* authenticated_entry: the entry of the identity itself, or else the one  *)
(* entry with a registered device of the same serial; empty if none.       *)
AuthenticatedEntry(device) ==
    LET same == {e \in entries : e.uid = device}
        kin  == {e \in entries : \E d \in Devices :
                    <<e.uid, d>> \in registered /\ SameSerial(device, d)}
    IN  IF same # {} THEN same ELSE IF Cardinality(kin) = 1 THEN kin ELSE {}

(* Another flow in progress has this unique_id.                            *)
InProgress(f, uid) == \E g \in Flows \ {f} : flow[g].step # "none" /\ flow[g].uid = uid

Update(f, new) == flow' = [flow EXCEPT ![f] = new]
Go(f, step)    == Update(f, [flow[f] EXCEPT !.step = step])
End(f)         == Update(f, NoFlow)
MayOpen        == Cardinality({f \in Flows : flow[f].step # "none"}) <= MaxOpen

-----------------------------------------------------------------------------
(* A dialog: menu, scan, selection.                                        *)

Open(f) ==
    /\ flow[f].step = "none" /\ MayOpen
    /\ Go(f, "menu")
    /\ UNCHANGED <<owners, removals, entries, registered, ignored, history>>

(* The scan form is submitted with a target that parses.                   *)
Scan(f) ==
    /\ flow[f].step \in {"menu", "scan"}
    /\ Go(f, "scanning")
    /\ UNCHANGED <<owners, removals, entries, registered, ignored, history>>

(* DiscoveryBusyError or DiscoveryError: the form is shown again.          *)
ScanFails(f) ==
    /\ flow[f].step = "scanning"
    /\ Go(f, "scan")
    /\ UNCHANGED <<owners, removals, entries, registered, ignored, history>>

(* The lookup of the configured addresses starts with the entries of now.  *)
ScanDone(f) ==
    /\ flow[f].step = "scanning"
    /\ \E found \in SUBSET IPs :
          Update(f, Flow("filtering", NoUid, NoHost, NoHost, found, EntryHosts))
    /\ UNCHANGED <<owners, removals, entries, registered, ignored, history>>

(* Fault: every card is retired.                                           *)
RetiredAll(f, addresses) ==
    {g \in IPs \ {f} : flow[g].step = "connect"}

(* _async_abort_pending_discovery: the cards of these addresses that are   *)
(* another flow, still pending, and initialized, hence in progress for the *)
(* manager: a card whose first step has not returned is not among them.    *)
Retired(f, addresses) ==
    {g \in IPs \ {f} : g \in addresses /\ flow[g].uid = g
                       /\ flow[g].step \in {"connect", "validating"}}

(* The lookup is over: cards of configured addresses are retired, the other*)
(* results surfaced as cards and offered, all without an await.            *)
Filter(f) ==
    /\ flow[f].step = "filtering"
    /\ \E addresses \in Addresses(flow[f].known) :
          LET new   == flow[f].found \ addresses
              cards == {h \in new \ EntryHosts : flow[h].step = "none"}
          IN  flow' = [g \in Flows |->
                 IF g = f THEN
                    IF new = {} THEN [NoFlow EXCEPT !.step = "scan"]
                    ELSE Flow("select", NoUid, NoHost, NoHost, new, {})
                 ELSE IF g \in Retired(f, addresses) THEN NoFlow
                 ELSE IF g \in cards THEN Flow("scheduled", g, NoHost, NoHost, {}, {})
                 ELSE flow[g]]
    /\ UNCHANGED <<owners, removals, entries, registered, ignored, history>>

(* async_step_integration_discovery of the card of an address.             *)
CardStart(h) ==
    /\ flow[h].step = "scheduled"
    /\ IF h \in EntryHosts THEN End(h)
       ELSE Update(h, Flow("checking", h, NoHost, NoHost, {}, EntryHosts))
    /\ UNCHANGED <<owners, removals, entries, registered, ignored, history>>

CardChecked(h) ==
    /\ flow[h].step = "checking"
    /\ \E addresses \in Addresses(flow[h].known) :
          IF h \in addresses \cup ignored THEN End(h)
          ELSE Update(h, Flow("connect", h, h, NoHost, {}, {}))
    /\ UNCHANGED <<owners, removals, entries, registered, ignored, history>>

(* The user ignores a card: its pending id becomes an ignored entry.       *)
Ignore(h) ==
    /\ flow[h].step = "connect"
    /\ ignored' = ignored \cup {h}
    /\ End(h)
    /\ UNCHANGED <<owners, removals, entries, registered, history>>

(* A result is selected; it may have been configured since the scan.       *)
Select(f) ==
    /\ flow[f].step = "select"
    /\ \E h \in flow[f].found :
          IF h \in EntryHosts THEN End(f)
          ELSE Update(f, Flow("selecting", NoUid, NoHost, h, flow[f].found, EntryHosts))
    /\ UNCHANGED <<owners, removals, entries, registered, ignored, history>>

Selected(f) ==
    /\ flow[f].step = "selecting"
    /\ \E addresses \in Addresses(flow[f].known) :
          LET h == flow[f].host
          IN  IF h \in addresses
              THEN flow' = [g \in Flows |-> IF g \in {f} \cup Retired(f, {h}) THEN NoFlow ELSE flow[g]]
              ELSE Update(f, Flow("connect", NoUid, h, NoHost, {}, {}))
    /\ UNCHANGED <<owners, removals, entries, registered, ignored, history>>

Manual(f) ==
    /\ flow[f].step \in {"menu", "select"}
    /\ Update(f, [NoFlow EXCEPT !.step = "manual"])
    /\ UNCHANGED <<owners, removals, entries, registered, ignored, history>>

-----------------------------------------------------------------------------
(* async_step_manual and async_step_connect: login, lookup, entry.         *)

(* Fault: the host is always the one of the selected result.               *)
SubmitSelected(f) ==
    /\ flow[f].step \in {"manual", "connect"}
    /\ Update(f, [flow[f] EXCEPT !.step = "validating", !.host = flow[f].chosen])
    /\ UNCHANGED <<owners, removals, entries, registered, ignored, history>>

Submit(f) ==
    /\ flow[f].step \in {"manual", "connect"}
    /\ \E h \in IF flow[f].chosen = NoHost THEN Hosts ELSE {flow[f].chosen} :
          Update(f, [flow[f] EXCEPT !.step = "validating", !.host = h])
    /\ UNCHANGED <<owners, removals, entries, registered, ignored, history>>

ValidateFails(f) ==
    /\ flow[f].step = "validating"
    /\ Update(f, [flow[f] EXCEPT !.step = IF flow[f].chosen = NoHost THEN "manual" ELSE "connect",
                                 !.host = NoHost])
    /\ UNCHANGED <<owners, removals, entries, registered, ignored, history>>

(* The lookups that follow a login: of its host and then, if it matched an *)
(* entry, of that entry's host.                                            *)
Resolving(f, existing, uid) ==
    Update(f, [flow[f] EXCEPT !.step = IF existing = {} THEN "resolving" ELSE "matched",
                              !.uid = uid, !.found = {},
                              !.known = IF existing = {} THEN {flow[f].host}
                                        ELSE {e.host : e \in existing}])

(* Fault: the identity is taken without looking at the other flows.        *)
ValidatedUnchecked(f) ==
    /\ flow[f].step = "validating"
    /\ seen' = seen \cup {<<owner[flow[f].host], flow[f].host>>}
    /\ LET device   == owner[flow[f].host]
           existing == AuthenticatedEntry(device)
           uid      == IF existing = {} THEN device ELSE (CHOOSE e \in existing : TRUE).uid
       IN  Resolving(f, existing, uid)
    /\ UNCHANGED <<owners, removals, entries, registered, ignored, linked>>

(* The login was accepted.  The flow takes the identity's unique_id, which *)
(* the manager refuses while another flow in progress has it.              *)
Validated(f) ==
    /\ flow[f].step = "validating"
    /\ seen' = seen \cup {<<owner[flow[f].host], flow[f].host>>}
    /\ LET device   == owner[flow[f].host]
           existing == AuthenticatedEntry(device)
           uid      == IF existing = {} THEN device ELSE (CHOOSE e \in existing : TRUE).uid
       IN  IF InProgress(f, uid) THEN End(f) ELSE Resolving(f, existing, uid)
    /\ UNCHANGED <<owners, removals, entries, registered, ignored, linked>>

(* The first lookup is over; the second is of the host which the matched   *)
(* entry has now, or had when it was removed.                              *)
Resolved(f) ==
    /\ flow[f].step = "matched"
    /\ LET current == {e.host : e \in {d \in entries : d.uid = flow[f].uid}}
       IN  \E addresses \in Addresses({flow[f].host}) :
              Update(f, [flow[f] EXCEPT !.step = "resolving", !.found = addresses,
                                        !.known = IF current = {} THEN @ ELSE current])
    /\ UNCHANGED <<owners, removals, entries, registered, ignored, history>>

NewEntry(f) == [uid |-> flow[f].uid, host |-> flow[f].host, accepted |-> flow[f].host]

(* Fault: the check for an entry with this unique_id is forgotten, and the *)
(* manager replaces that entry by the new one.                             *)
FinishReplacing(f) ==
    /\ flow[f].step = "resolving"
    /\ \E addresses \in Addresses(flow[f].known) :
          flow' = [g \in Flows |-> IF g \in {f} \cup Retired(f, flow[f].found \cup addresses)
                                   THEN NoFlow ELSE flow[g]]
    /\ entries' = {e \in entries : e.uid # flow[f].uid} \cup {NewEntry(f)}
    /\ UNCHANGED <<owners, removals, registered, ignored, history>>

(* The lookups are over: cards of the addresses are retired, and an entry  *)
(* is created unless there is one with this unique_id.                     *)
Finish(f) ==
    /\ flow[f].step = "resolving"
    /\ \E addresses \in Addresses(flow[f].known) :
          flow' = [g \in Flows |-> IF g \in {f} \cup Retired(f, flow[f].found \cup addresses)
                                   THEN NoFlow ELSE flow[g]]
    /\ entries' = IF \E e \in entries : e.uid = flow[f].uid THEN entries
                  ELSE entries \cup {NewEntry(f)}
    /\ UNCHANGED <<owners, removals, registered, ignored, history>>

(* The user closes a dialog or a card that shows a form.                   *)
Close(f) ==
    /\ flow[f].step \in Forms
    /\ End(f)
    /\ UNCHANGED <<owners, removals, entries, registered, ignored, history>>

(* An entry is set up, or set up again: the device that answers at its host*)
(* is registered, whichever it is, beside those registered before.         *)
SetupEntry(e) ==
    LET new == <<e.uid, owner[e.host]>>
    IN  /\ new \notin registered
        /\ registered' = registered \cup {new}
        /\ linked' = linked \cup {new}
        /\ UNCHANGED <<owners, removals, entries, ignored, flow, seen>>

-----------------------------------------------------------------------------
(* async_step_reauth and async_step_reconfigure of an entry.               *)

StartRepair(f) ==
    /\ flow[f].step = "none" /\ MayOpen
    /\ \E e \in entries : Update(f, [NoFlow EXCEPT !.step = "repair", !.uid = e.uid])
    /\ UNCHANGED <<owners, removals, entries, registered, ignored, history>>

EntryOf(f) == CHOOSE e \in entries : e.uid = flow[f].uid

(* Reauthentication logs in at the entry's host, reconfiguration at the one*)
(* that was typed; chosen tells them apart.                                *)
SubmitReauth(f) ==
    /\ flow[f].step = "repair"
    /\ Update(f, [flow[f] EXCEPT !.step = "logging_in", !.host = EntryOf(f).host])
    /\ UNCHANGED <<owners, removals, entries, registered, ignored, history>>

SubmitReconfigure(f) ==
    /\ flow[f].step = "repair"
    /\ \E h \in Hosts :
          Update(f, [flow[f] EXCEPT !.step = "logging_in", !.host = h, !.chosen = h])
    /\ UNCHANGED <<owners, removals, entries, registered, ignored, history>>

LoginFails(f) ==
    /\ flow[f].step = "logging_in"
    /\ Update(f, [flow[f] EXCEPT !.step = "repair", !.host = NoHost, !.chosen = NoHost])
    /\ UNCHANGED <<owners, removals, entries, registered, ignored, history>>

(* What the entry becomes: a reauthentication leaves its host alone.       *)
Repaired(e, f) ==
    [e EXCEPT !.host = IF flow[f].chosen = NoHost THEN @ ELSE flow[f].host,
              !.accepted = flow[f].host]

(* Fault: whichever device answered, the entry is updated.                 *)
LoggedInAnywhere(f) ==
    /\ flow[f].step = "logging_in"
    /\ seen' = seen \cup {<<owner[flow[f].host], flow[f].host>>}
    /\ entries' = (entries \ {EntryOf(f)}) \cup {Repaired(EntryOf(f), f)}
    /\ End(f)
    /\ UNCHANGED <<owners, removals, registered, ignored, linked>>

(* The entry is updated if its own device answered (or wrong_device).      *)
LoggedIn(f) ==
    /\ flow[f].step = "logging_in"
    /\ seen' = seen \cup {<<owner[flow[f].host], flow[f].host>>}
    /\ entries' = IF owner[flow[f].host] = flow[f].uid
                  THEN (entries \ {EntryOf(f)}) \cup {Repaired(EntryOf(f), f)}
                  ELSE entries
    /\ End(f)
    /\ UNCHANGED <<owners, removals, registered, ignored, linked>>

(* The user removes an entry: its devices are unregistered, and its repair *)
(* flows can do nothing any more; a flow that matched it keeps it as it was.*)
RemoveEntry(e) ==
    /\ removals < MaxRemovals
    /\ removals' = removals + 1
    /\ entries' = entries \ {e}
    /\ registered' = {r \in registered : r[1] # e.uid}
    /\ flow' = [f \in Flows |->
          IF flow[f].uid # e.uid THEN flow[f]
          ELSE IF f \in Repairs THEN NoFlow
          ELSE IF flow[f].step = "matched" THEN [flow[f] EXCEPT !.known = {e.host}]
          ELSE flow[f]]
    /\ UNCHANGED <<owners, ignored, history>>

(* Addresses and names come to be answered by other devices.               *)
Move ==
    /\ Len(owners) > 1
    /\ owners' = Tail(owners)
    /\ UNCHANGED <<removals, entries, registered, ignored, flow, history>>

-----------------------------------------------------------------------------
Dialog(f) ==
    \/ Open(f) \/ Scan(f) \/ ScanFails(f) \/ ScanDone(f) \/ Filter(f)
    \/ Select(f) \/ Selected(f) \/ Manual(f)

Card(h) == CardStart(h) \/ CardChecked(h) \/ Ignore(h)

Connect(f) == Submit(f) \/ ValidateFails(f) \/ Validated(f) \/ Resolved(f) \/ Finish(f)

Repair(f) ==
    \/ StartRepair(f) \/ SubmitReauth(f) \/ SubmitReconfigure(f)
    \/ LoginFails(f) \/ LoggedIn(f)

(* A lookup that finds nothing to wait for does not suspend its flow: a    *)
(* gather of no lookups, and the one of an address that is typed.          *)
Running ==
    {f \in Flows :
        \/ flow[f].step \in {"filtering", "selecting", "checking"} /\ flow[f].known = {}
        \/ flow[f].step = "matched" /\ flow[f].host \in IPs
        \/ flow[f].step = "resolving" /\ flow[f].known \subseteq IPs}

Step(f) ==
    \/ f \in Dialogs /\ Dialog(f)
    \/ f \in IPs /\ Card(f)
    \/ f \in Dialogs \cup IPs /\ Connect(f)
    \/ f \in Repairs /\ Repair(f)
    \/ Close(f)

Next ==
    \/ \E f \in Running : Step(f)
    \/ Running = {} /\ \E f \in Flows : Step(f)
    \/ Running = {} /\ \E e \in entries : SetupEntry(e) \/ RemoveEntry(e)
    \/ Running = {} /\ Move

Spec == Init /\ [][Next]_vars

-----------------------------------------------------------------------------
(* Every variable has its type, and a flow has what its step needs.        *)
TypeOK ==
    /\ owners \in Seq([Hosts -> Devices]) \ {<<>>}
    /\ removals \in 0 .. MaxRemovals
    /\ entries \subseteq [uid : Devices, host : Hosts, accepted : Hosts]
    /\ registered \subseteq linked /\ linked \subseteq Devices \X Devices
    /\ ignored \subseteq IPs
    /\ flow \in [Flows -> [step : Forms \cup Awaits \cup {"none"},
                           uid : Devices \cup IPs \cup {NoUid},
                           chosen : Hosts \cup {NoHost}, host : Hosts \cup {NoHost},
                           found : SUBSET IPs, known : SUBSET Hosts]]
    /\ \A f \in Flows :
          /\ flow[f].step \in {"validating", "matched", "resolving", "logging_in"} =>
                flow[f].host \in Hosts
          /\ flow[f].step \in {"repair", "logging_in"} =>
                \E e \in entries : e.uid = flow[f].uid
    /\ seen \subseteq Devices \X Hosts

(* An endpoint is configured once: no two entries have one identity, and   *)
(* no two flows are about to create one (config_flow.py:317-336).          *)
OneEntryPerIdentity ==
    /\ \A d, e \in entries : d.uid = e.uid => d = e
    /\ \A f, g \in Flows :
          {flow[f].step, flow[g].step} \subseteq {"matched", "resolving"}
             /\ flow[f].uid = flow[g].uid => f = g

(* A device that passes for an identity: the device itself, or one with the*)
(* serial of a device that once answered for an entry of that identity.    *)
PassesFor(d, uid) == d = uid \/ \E x \in Devices : <<uid, x>> \in linked /\ SameSerial(d, x)

(* The host an entry stores accepted a login of a device that passes for   *)
(* the entry's identity, and, if its credentials are those of another login*)
(* than its host (a reauthentication that was overtaken by a reconfigura-  *)
(* tion), the entry's own device accepted both.  Neither an address that   *)
(* came to be answered by another device nor a flow that was suspended     *)
(* while the entry changed brings other settings into it                   *)
(* (config_flow.py:317, 378, 427).                                         *)
EntriesVerified ==
    \A e \in entries :
        /\ \E d \in Devices : PassesFor(d, e.uid) /\ <<d, e.host>> \in seen
        /\ e.accepted # e.host => {<<e.uid, e.host>>, <<e.uid, e.accepted>>} \subseteq seen

(* Beside all its dialogs, cards and lookups, the flows do to the entries  *)
(* only what EntryRegistry allows: setting the same device up again, through*)
(* whichever interface, replaces nothing, a repair changes its own entry,  *)
(* and only when that entry's device answered it, and credentials come to  *)
(* an entry without their host only from the host it had when they were    *)
(* submitted (config_flow.py:330-336, 368-386, 427).                       *)
Repairing ==
    [f \in Repairs |->
        IF flow[f].step = "logging_in"
        THEN <<flow[f].uid, IF flow[f].chosen = NoHost THEN "credentials" ELSE "settings", flow[f].host>>
        ELSE <<>>]

Registry == INSTANCE EntryRegistry WITH verified <- seen, repairing <- Repairing

ImplementsRegistry == Registry!Spec

(* What a host stands for.                                                 *)
AddressesOf(host) == IF host \in IPs THEN {host} ELSE Resolve[host]

(* config_flow.py:273, `Retire this address's card only after successful   *)
(* authentication': a card that something else than its own user takes away*)
(* is one of an address of a host at which a login was accepted, so closing*)
(* or failing dialogs, scans and logins elsewhere leave it alone.          *)
CardsSurvive ==
    [][\A h \in IPs :
          flow[h].step = "connect" /\ flow'[h].step = "none" =>
             \/ \A f \in Flows \ {h} : flow'[f] = flow[f]
             \/ \E login \in seen : h \in AddressesOf(login[2])]_vars

(* README.md:259, `successful setup removes the matching card': no card is *)
(* shown for an address that is the host of an entry.                      *)
ConfiguredHaveNoCard == \A h \in IPs \cap EntryHosts : flow[h].step # "connect"
=============================================================================
