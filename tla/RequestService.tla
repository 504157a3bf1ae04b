--------------------------- MODULE RequestService ---------------------------
(***************************************************************************)
(* What the GTP transaction layer promises its users, without saying how:  *)
(* a request that was sent is handed to the other end at most once, and it *)
(* stays open until it is answered (which happens only after the other end *)
(* has handled it) or given up.  A request may be handled after its sender *)
(* gave it up.                                                             *)
(***************************************************************************)
EXTENDS Naturals

CONSTANT Request    \* everything the users of the service may ask

VARIABLES
    sent,       \* requests given to the service so far
    open,       \* requests whose sender still waits
    handled,    \* how often each request was handed to the other end
    answered    \* requests whose sender got an answer

vars == <<sent, open, handled, answered>>

Init ==
    /\ sent = {}
    /\ open = {}
    /\ handled = [r \in Request |-> 0]
    /\ answered = {}

Send(r) ==
    /\ r \notin sent
    /\ sent' = sent \cup {r}
    /\ open' \in {open, open \cup {r}}
    /\ UNCHANGED <<handled, answered>>

Handle(r) ==
    /\ r \in sent
    /\ handled[r] = 0
    /\ handled' = [handled EXCEPT ![r] = 1]
    /\ UNCHANGED <<sent, open, answered>>

Answer(r) ==
    /\ r \in open
    /\ handled[r] = 1
    /\ open' = open \ {r}
    /\ answered' = answered \cup {r}
    /\ UNCHANGED <<sent, handled>>

GiveUp(r) ==
    /\ r \in open
    /\ open' = open \ {r}
    /\ UNCHANGED <<sent, handled, answered>>

Next == \E r \in Request : Send(r) \/ Handle(r) \/ Answer(r) \/ GiveUp(r)

Spec == Init /\ [][Next]_vars

=============================================================================
