------------------------------- MODULE MCUser -------------------------------
(* Instances of UserPlane for TLC: what the peers do in each of them. *)
EXTENDS UserPlane, TLC

CONSTANTS a, b, x

Symmetry == Permutations({a, b})

Moving == {"attach", "service", "release", "moves"}
Detaching == {"attach", "detach"}
Switching == {"attach", "service", "release", "pathswitch"}
Handover == {"attach", "handover", "hofail", "tunnel"}
Cancelling == {"attach", "handover", "cancel", "tunnel"}

Users == {Moving, Detaching, Switching, Handover, Cancelling}
=============================================================================
