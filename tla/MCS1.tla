-------------------------------- MODULE MCS1 --------------------------------
(* Instances of S1System for TLC: what the peers do in each of them. *)
EXTENDS S1System, TLC

CONSTANTS a, b, x, y

Symmetry == Permutations({a, b}) \cup Permutations({x, y})

Idle == {"attach", "service", "release", "reject", "reorder"}
Moving == {"attach", "service", "moves"}
Detaching == {"attach", "service", "detach", "reject"}

Handover == {"attach", "handover", "hofail", "tunnel", "pathswitch"}
Cancelling == {"attach", "handover", "cancel", "tunnel"}
Switching == {"attach", "service", "release", "pathswitch"}

Faulty == {"attach", "service", "release", "early", "icsfail", "loss", "reset",
           "s11loss"}

Service == {Idle, Moving, Detaching}
Mobility == {Handover, Cancelling, Switching}
Faults == {Faulty}
LostEnb == {{"attach", "loss"}}
=============================================================================
