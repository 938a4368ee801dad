--------------------------- MODULE EntryRegistry ---------------------------
(***************************************************************************)
(* What the configuration flows promise about the config entries, apart    *)
(* from dialogs, cards, scans and lookups.                                 *)
(*                                                                         *)
(* The promise: an identity has at most one entry; an entry is added for a *)
(* host where a login was accepted by the entry's device, or by one with   *)
(* the serial of a device that answered for an entry of that identity; from*)
(* then on its settings change only when the user repairs it and its own   *)
(* device, no sibling and no foreign one, accepts the login; and it goes   *)
(* only when it is removed.                                                *)
(***************************************************************************)
CONSTANTS Devices, Hosts, Serial, NoSerial, Repairs

VARIABLES
    entries,     \* unique_id, host, and where the credentials were accepted
    linked,      \* <<unique_id, device>>: what answered for an entry so far
    verified,    \* <<device, host>>: logins that were accepted
    repairing    \* what each repair logs in for: <<unique_id, what it
                 \* repairs, host>>, or nothing

vars == <<entries, linked, verified, repairing>>

SameSerial(d, e) == Serial[d] = Serial[e] /\ Serial[d] # NoSerial
PassesFor(d, uid) == d = uid \/ \E x \in Devices : <<uid, x>> \in linked /\ SameSerial(d, x)

Idle == <<>>
Busy(r) == repairing[r] # Idle
Turns(r, to) == repairing' = [repairing EXCEPT ![r] = to]

Init == entries = {} /\ linked = {} /\ verified = {} /\ repairing = [r \in Repairs |-> Idle]

(* A repair of an entry starts to log in: with new credentials at the host *)
(* the entry has, or with new settings.                                    *)
Begin(r, e) ==
    /\ ~Busy(r)
    /\ \/ Turns(r, <<e.uid, "credentials", e.host>>)
       \/ \E h \in Hosts : Turns(r, <<e.uid, "settings", h>>)
    /\ UNCHANGED <<entries, linked, verified>>

(* It could not log in.                                                    *)
Fail(r) == Busy(r) /\ Turns(r, Idle) /\ UNCHANGED <<entries, linked, verified>>

(* A device accepts a login; a repair that reached the wrong one is over.  *)
Login(d, h) ==
    /\ verified' = verified \cup {<<d, h>>}
    /\ \/ UNCHANGED repairing
       \/ \E r \in Repairs :
             Busy(r) /\ repairing[r][1] # d /\ repairing[r][3] = h /\ Turns(r, Idle)
    /\ UNCHANGED <<entries, linked>>

(* A device answers for an entry, whichever device that is.                *)
Answer(e, d) ==
    /\ linked' = linked \cup {<<e.uid, d>>}
    /\ UNCHANGED <<entries, verified, repairing>>

Add(uid, h) ==
    /\ \A e \in entries : e.uid # uid
    /\ \E d \in Devices : PassesFor(d, uid) /\ <<d, h>> \in verified
    /\ entries' = entries \cup {[uid |-> uid, host |-> h, accepted |-> h]}
    /\ UNCHANGED <<linked, verified, repairing>>

(* The entry's own device accepts the login of its repair.                 *)
Repair(r, e) ==
    LET what == repairing[r][2]
        host == repairing[r][3]
    IN  /\ Busy(r) /\ repairing[r][1] = e.uid
        /\ Turns(r, Idle)
        /\ verified' = verified \cup {<<e.uid, host>>}
        /\ entries' = (entries \ {e}) \cup
              {[e EXCEPT !.host = IF what = "settings" THEN host ELSE @, !.accepted = host]}
        /\ UNCHANGED linked

Remove(e) ==
    /\ entries' = entries \ {e}
    /\ repairing' = [r \in Repairs |->
                        IF Busy(r) /\ repairing[r][1] = e.uid THEN Idle ELSE repairing[r]]
    /\ UNCHANGED <<linked, verified>>

Next ==
    \/ \E e \in entries : Remove(e) \/ \E d \in Devices : Answer(e, d)
    \/ \E r \in Repairs : Fail(r) \/ \E e \in entries : Begin(r, e) \/ Repair(r, e)
    \/ \E d \in Devices, h \in Hosts : Login(d, h) \/ Add(d, h)

Spec == Init /\ [][Next]_vars
=============================================================================
