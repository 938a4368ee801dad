---------------------------- MODULE EndpointView ----------------------------
(***************************************************************************)
(* What one coordinator promises about its endpoint, apart from how it     *)
(* keeps the promise.  The endpoint's state is numbered by the changes it  *)
(* went through (truth); Home Assistant shows some earlier or current      *)
(* number (view); acked is the newest change made by a command that        *)
(* returned without an error.                                              *)
(*                                                                         *)
(* The promise: the view never runs ahead of the endpoint, never goes      *)
(* back, and is never older than a command that was acknowledged.          *)
(***************************************************************************)
EXTENDS Integers

VARIABLES truth, view, acked

vars == <<truth, view, acked>>

Init ==
    /\ truth = 0
    /\ view = 0
    /\ acked = 0

(* The endpoint changes: a command of ours, its web UI, another controller. *)
Change ==
    /\ truth' = truth + 1
    /\ UNCHANGED <<view, acked>>

(* A read of the endpoint is published; what it read may already be old,    *)
(* but never older than what is shown.                                      *)
Observe ==
    /\ view' \in view .. truth
    /\ UNCHANGED <<truth, acked>>

(* A command returns: what it wrote is in the view it publishes.            *)
Acknowledge ==
    /\ view' \in view .. truth
    /\ acked' \in acked .. view'
    /\ UNCHANGED truth

Next == Change \/ Observe \/ Acknowledge

Spec == Init /\ [][Next]_vars
=============================================================================
